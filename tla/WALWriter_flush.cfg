SPECIFICATION Spec
CONSTANTS
    Appenders = {a1, a2}
    MaxFiles = 3
    MaxAppends = 4
    WriteFails = TRUE
    SyncFails = TRUE
    FlushFails = TRUE
CHECK_DEADLOCK FALSE
INVARIANTS AckedOnDisk
