SPECIFICATION ChErrorSpec
CONSTANTS
    p1 = p1
    p2 = p2
    c1 = c1
    c2 = c2
    u1 = u1
    u2 = u2
    NONE = NONE
    Pushes <- MCPushes
    Gpfifos <- MCGpfifos
    Chunks <- MCOneChunk
    CHUNK_SIZE = 3
    MAX_PUSH = 2
    Channels <- MCChannels
    PoolOf <- MCOnePool
    num_gpfifo_entries = 2
    Updaters <- MCUpdaters
    MAX_COMPLETE = 1
    MAX_PUSHES = 3
SYMMETRY SymmUpd
INVARIANTS SlotIntact UnfinishedPending PushInfoFree DestroyedClean
PROPERTIES PushbufferUsed CountersUsed
CHECK_DEADLOCK FALSE
