----------------------------- MODULE MCVaSpace -----------------------------
(* A thread of the mm's process and one of another process, memory for two  *)
(* GPU VA spaces.                                                            *)
EXTENDS VaSpace
=============================================================================
