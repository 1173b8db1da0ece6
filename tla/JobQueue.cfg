SPECIFICATION FairSpec
CONSTANTS
    Scheduled = {"retention", "heartbeat"}
    Posted = {"report"}
    OptionalTypes = {"heartbeat"}
    PruneType = "retention"
    MaxJobs = 2
    MaxAttempts = 2
    DBFails = TRUE
    SlowHandlers = TRUE
INVARIANTS TypeOK OneUnfinished RunsBounded
PROPERTIES ReclaimedStays JobsFinish
