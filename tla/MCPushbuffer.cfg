SPECIFICATION PbErrorSpec
CONSTANTS
    p1 = p1
    p2 = p2
    p3 = p3
    g1 = g1
    g2 = g2
    g3 = g3
    NONE = NONE
    Chunks <- MCChunks
    CHUNK_SIZE = 4
    MAX_PUSH = 2
    Pushes <- MCPushes
    Gpfifos <- MCThreeGpfifos
SYMMETRY SymmThree
INVARIANTS WriteIsSafe BitmapsExact
