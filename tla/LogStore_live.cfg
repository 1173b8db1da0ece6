SPECIFICATION FairSpec
CONSTANTS
    MaxClock = 1
    MaxDrift = 1
    MaxAppends = 2
    SegmentRoom = 1
    Retention = 1
    SameHourRestart = FALSE
    TickDuringOpen = FALSE
    RecoverySealFails = TRUE
CHECK_DEADLOCK FALSE
PROPERTIES SealRetried
