SPECIFICATION Spec
CHECK_DEADLOCK FALSE
CONSTANTS
    MaxBatchEntries = 2
    MaxExpandedLogs = 2
    MaxProcessed = 4
    Batches = {b1, b2}
    Attempts = 2
    MaxTracked = 1
    PoolWorkers = 1
    PoolJobs = 1
    MaxQueuedEntries = 1
    SamplingTTL = 2
    SamplingErrorTTL = 1
    QueueSize = 2
    QueueBatch = 2
    Fingerprints = {f1}
    Envs = {"prod", "stag"}
    Users = {u1, u2}
    MaxSeen = 2
    MaxEntries = 2
    MaxEvents = 2
    Checks = {c1}
    ProbeSlots = 2
    Interval = 1
    Retries = 1
    BackoffThreshold = 1
    MaxBackoffShift = 2
    RecentWindow = 2
    MaxPolls = 3
    AlertKeys = {"w1", "w2"}
    GroupIds = {"g1"}
    MaxPerDay = 1
    Cooldown = 2
    DayLength = 2
    MaxOnCallAlerts = 2
    MaxHours = 3
    LogShapes <- LogSamples
    MaxLogs = 3
    HourLen = 2
    MaxScanRows = 9
    ContextEntries = 1
    MaxToolEntries = 2
    MaxSeconds = 1
    MaxItems = 2
    MaxLag = 0
    CatchupItems = 1
    CatchupWindow = 4
    ListLimit = 1
    WordBits = 4
    ByteBits = 3
    VarintBase = 4
    LenMarker = 2
    MaxValueCells = 60
    MaxDictEntries = 4
    MinCeiling = 5
    MaxBlockCells = 80
    MaxColumnValue = 4
    MaxVarint = 3
    MaxLenFraming = 2
    ChunkShapes <- ChunkSamples
    ChunkRows = 3
    MaxField = 4
    MaxStoredBody = 9
    MaxRecord = 60
    BitpackDict = 3
    QueryTexts <- QuerySamples
    Callers = {"c1", "c2"}
    Threshold = 2
    ResetTimeout = 2
    HalfOpenMax = 2
    SchemaTTL = 1
    Sources = {"s1", "s2"}
    TestCalls = {"t1"}
    MaxConns = 3
    MaxConfig = 2
    Emails = {"e1", "e2"}
    Clients = {"k1", "k2"}
    MaxFailedLogins = 2
    LockoutDuration = 0
    FailureDecayWindow = 1
    MaxTrackedLogins = 1
    Posts = {"p1", "p2"}
    GateUsers = {"", "u1", "u2"}
    InitWait = 1
    GateTTL = 2
    MaxStates = 3
    CheckWindow = 2
    CompareWindows = {1, 2}
    PctNum = 1
    PctDen = 2
    Observers = {"o1", "o2"}
    Commits = {"c1"}
    DeployScan = 2
    MaxAutoWatches = 4
    MaxRestarts = 1
    BackupRuns = {"b1", "b2"}
    RestoreRuns = {"r1", "r2"}
    MaxBackupSeconds = 1
    Addresses = {"x", "y", "z"}
    Limit = 1
    Window = 1
    MaxLimited = 2
    CompactAt = 4
    SlackFactor = 2
    MaxRecords = 4
    MaxWALFiles = 2
    RingSize = 2
    TailBuffer = 1
    Tails = {"t1"}
    WALCacheEntries = 2
    WALCacheBytes = 6
    Scans = {"q1", "q2", "q3"}
    ColumnSizes <- ColumnSample
    ColumnBudget = 4
    MaxShare = 2
    MaxDecodes = 4
INVARIANTS
        
    WatchesComeOnce    
    ConnectorsSound AccountsSafe  ClientsLimited 

    
