SPECIFICATION JobsSpec
CONSTANTS
    Scheduled = {"retention"}
    Posted = {"report"}
    OptionalTypes = {}
    PruneType = "retention"
    MaxJobs = 2
    MaxAttempts = 2
    DBFails = FALSE
    SlowHandlers = TRUE
INVARIANTS FinishedIsRecorded
