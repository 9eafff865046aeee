---------------------------- MODULE MCPushbuffer ----------------------------
(* Pushbuffer on two chunks, with three threads that push.                   *)
EXTENDS Pushbuffer, TLC

CONSTANTS p1, p2, p3, g1, g2, g3

MCChunks == 0..1
MCPushes == {p1, p2, p3}
MCThreeGpfifos == {g1, g2, g3}
SymmThree == Permutations(MCPushes) \cup Permutations(MCThreeGpfifos)
=============================================================================
