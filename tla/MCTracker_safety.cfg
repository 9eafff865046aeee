SPECIFICATION TrErrorSpec
CONSTANTS
    c1 = c1
    c2 = c2
    t1 = t1
    t2 = t2
    a = a
    g1 = g1
    g2 = g2
    NONE = NONE
    Channels <- MCTwoChannels
    Trackers <- MCTrackers
    Threads <- MCOneThread
    GpuOf <- MCGpuOf
    FIRST_SIZE = 2
    MAX_PUSHES = 2
SYMMETRY Symm
INVARIANTS NothingLost StorageSuffices
