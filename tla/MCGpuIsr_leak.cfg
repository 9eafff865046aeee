SPECIFICATION IsrSpec
CONSTANTS
    Users = {u1}
    Partitions = {0}
    BUSY_PARTITIONS = 1
    NONE = NONE
INVARIANTS BottomHalfReleases
