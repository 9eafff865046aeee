SPECIFICATION Spec
CONSTANTS
    t1 = t1
    t2 = t2
    i1 = i1
    k = k
    Threads <- MCThreads
    Items <- MCOneItem
    Kthread = k
    MaxCallbackCalls = 1
INVARIANTS NeverEmptyTake FlushComplete NoDanglingItem
PROPERTIES QueueRefined CallsReturn
