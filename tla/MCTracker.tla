------------------------------ MODULE MCTracker ------------------------------
(* One or two trackers of two channels on two GPUs.                          *)
EXTENDS Tracker, TLC

CONSTANTS c1, c2, t1, t2, a, g1, g2

MCTwoChannels == {c1, c2}
MCTrackers == {t1, t2}
MCOneTracker == {t1}
MCOneThread == {a}
MCGpuOf == [c \in MCTwoChannels |-> IF c = c1 THEN g1 ELSE g2]
Symm == Permutations(MCTrackers)
=============================================================================
