SPECIFICATION IsrSpec
CONSTANTS
    Users = {u1}
    Partitions = {0, 1}
    BUSY_PARTITIONS = 1
    NONE = NONE
INVARIANTS IntrExact NoStorm BottomHalfSafe KrefExact AsleepQuiet
PROPERTIES QueueUsed FaultsServed IsrCallsReturn
