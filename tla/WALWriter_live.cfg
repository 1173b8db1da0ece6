SPECIFICATION FairSpec
CONSTANTS
    Appenders = {a1, a2}
    MaxFiles = 3
    MaxAppends = 3
    WriteFails = TRUE
    SyncFails = TRUE
    FlushFails = TRUE
CHECK_DEADLOCK FALSE
PROPERTIES CallsReturn
