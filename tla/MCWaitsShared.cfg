SPECIFICATION MCSpec
CONSTANTS
    r1 = r1
    r2 = r2
    e1 = e1
    e2 = e2
    Runtimes <- TwoRuntimes
    Extensions <- TwoExtensions
    ExtOf <- OwnExtension
    Grants = {g1}
    NoGrant = NoGrant
    Nobody = Nobody
    MaxExchangeAttempts = 3
    MaxSessionRetries = 1
    MaxProviderRetries = 2
    MaxOps = 2
    MaxSessions = 2
    MaxChallenges = 1
    MaxClears = 1
    MaxEvents = 0
    L1 = L1
    L2 = L2
    t1 = t1
    t2 = t2
    NoTag = NoTag
    NoFile = NoFile
    NoCheckpoint = NoCheckpoint
    Versions = {1, 2, 3, 4}
    Lists <- SegmentLists
    Size <- Sizes
    Tag <- Tags
    MaxAttempts = 2
    MaxParallel = 2
    ChunkSize = 2
    MaxCalls = 3
    Items = {i1, i2}
    Clients = {c1}
    MaxBytes = 1
    Threshold = 2
    Full = 1
    Speeds = {0}
    Stages = {""}
    NoStage = ""
    NoItem = NoItem
    MaxRemoved = 1
    MaxSeq = 4
    NoScan = NoScan
    Scenarios <- SharedPath
PROPERTIES TransferAtomic
\* Every call may have been made and have ended: nothing is left to do.
CHECK_DEADLOCK FALSE
