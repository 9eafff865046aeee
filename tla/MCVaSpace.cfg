SPECIFICATION VsSpec
CONSTANTS
    Users = {u1, u2}
    Owners = {u1}
    Spaces = {s1, s2}
    Channels = {c1}
    MAX_OPS = 5
    NONE = NONE
INVARIANTS QuietAfterShutdown RunningIsRegistered NoStaleFault NobodyAfterFree
PROPERTIES TeardownEnds GateKept
CHECK_DEADLOCK FALSE
