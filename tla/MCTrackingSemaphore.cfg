SPECIFICATION SemLiveSpec
CONSTANTS
    t1 = t1
    t2 = t2
    NOBODY = NOBODY
    Threads <- MCThreads
    W = 3
    Window = 2
    MAX_VALUE = 4
INVARIANTS NeverEarly
PROPERTIES CounterRefined WaitReturns
