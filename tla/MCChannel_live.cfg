SPECIFICATION ChLiveSpec
CONSTANTS
    p1 = p1
    p2 = p2
    c1 = c1
    c2 = c2
    u1 = u1
    u2 = u2
    NONE = NONE
    Pushes <- MCPushes
    Gpfifos <- MCGpfifos
    Chunks <- MCOneChunk
    CHUNK_SIZE = 1
    MAX_PUSH = 1
    Channels <- MCChannels
    PoolOf <- MCOwnPools
    num_gpfifo_entries = 2
    Updaters <- MCOneUpdater
    MAX_COMPLETE = 1
    MAX_PUSHES = 3
PROPERTIES PushFinishes AllRun
