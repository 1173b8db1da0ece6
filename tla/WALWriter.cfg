SPECIFICATION Spec
CONSTANTS
    Appenders = {a1, a2, a3}
    MaxFiles = 3
    MaxAppends = 4
    WriteFails = TRUE
    SyncFails = TRUE
    FlushFails = FALSE
CHECK_DEADLOCK FALSE
INVARIANTS TypeOK AckedOnDisk  ValidBytesOnDisk 
