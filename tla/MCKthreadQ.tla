----------------------------- MODULE MCKthreadQ -----------------------------
(* KthreadQ with two calling threads and an item.                          *)
EXTENDS KthreadQ

CONSTANTS t1, t2, i1, k

MCThreads == {t1, t2}
MCOneItem == {i1}
=============================================================================
