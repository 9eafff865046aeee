------------------------------ MODULE MCChannel ------------------------------
(* Two channels, in one pool or in one each, that share a pushbuffer chunk.  *)
EXTENDS Channel, TLC

CONSTANTS p1, p2, c1, c2, u1, u2

MCPushes == {p1, p2}
MCOneChunk == {0}
MCChannels == {c1, c2}
MCOwnPools == [c \in MCChannels |-> c]
MCOnePool == [c \in MCChannels |-> c1]
MCOneUpdater == {u1}
MCUpdaters == {u1, u2}
MCGpfifos == Channels \X Slots
Symm == Permutations(MCPushes)
SymmUpd == Permutations(MCPushes) \cup Permutations(MCUpdaters)
=============================================================================
