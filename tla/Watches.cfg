SPECIFICATION WatchFairSpec
CONSTANTS
    Watches = {1}
    Streams = {"s1"}
    MinConsecutive = 2
    PollLimit = 1
    NotifySlots = 1
    StatementsFail = TRUE
    Crashes = TRUE
INVARIANT WatchTypeOK
INVARIANT FiresOnce
PROPERTY EnoughBreaches
PROPERTY WatchEnds
