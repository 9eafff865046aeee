SPECIFICATION GspLiveSpec
CONSTANTS
    N = 3
    SEQ_MOD = 4
    MAX_ELEMENTS = 2
    MAX_TIMEOUTS = 1
    Messages <- MCElements
INVARIANTS NextRecordOnly
PROPERTIES RingUsed RecordsArrive
