------------------------------ MODULE MCMsgQueue ------------------------------
(* A ring of five buffers and two kinds of messages.                         *)
EXTENDS MsgQueue, TLC

CONSTANTS a, b

MCMessages == {a, b}
Symm == Permutations(MCMessages)
===============================================================================
