SPECIFICATION Spec
CONSTANTS
    MaxClock = 2
    MaxDrift = 1
    MaxAppends = 3
    SegmentRoom = 2
    Retention = 1
    SameHourRestart = FALSE
    TickDuringOpen = FALSE
    RecoverySealFails = FALSE
CHECK_DEADLOCK FALSE
INVARIANTS TypeOK Durable  UniqueIDs CountedOnce
PROPERTIES SealedUnchanged RetentionRespected KeepsPromise
