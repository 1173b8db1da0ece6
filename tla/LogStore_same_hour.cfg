SPECIFICATION Spec
CONSTANTS
    MaxClock = 2
    MaxDrift = 1
    MaxAppends = 3
    SegmentRoom = 2
    Retention = 1
    SameHourRestart = TRUE
    TickDuringOpen = FALSE
    RecoverySealFails = FALSE
CHECK_DEADLOCK FALSE
INVARIANTS UniqueIDs
