SPECIFICATION WatchSpec
CONSTANTS
    Watches = {1}
    Streams = {"s1"}
    MinConsecutive = 2
    PollLimit = 1
    NotifySlots = 1
    StatementsFail = FALSE
    Crashes = FALSE
INVARIANT FiredIsAlerted
