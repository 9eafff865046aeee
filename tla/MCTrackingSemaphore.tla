------------------------ MODULE MCTrackingSemaphore ------------------------
(* A payload of three values and a window of two: every third release wraps. *)
EXTENDS TrackingSemaphore

CONSTANTS t1, t2

MCThreads == {t1, t2}
=============================================================================
