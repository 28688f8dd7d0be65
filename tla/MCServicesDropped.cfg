\* The cache of lyrics with two songs: one is dropped from the memory, the other
\* found after it.  The other services are small.
SPECIFICATION MCSpec
CONSTANTS
    Exts = {x}
    Challenges = {s1}
    OAuthStates = {o1}
    Hosts = {h1, h2}
    NoState = NoState
    NoExt = NoExt
    None = None
    Waiters = {a}
    MaxRequests = 2
    Window = 2
    LimiterTime = 4
    Workers = {a}
    Allowance = 3
    MaxGeneration = 5
    BudgetTime = 1
    Commands = {1}
    Pumps = {a, b}
    Extensions = {a}
    Refreshes = {b}
    MaxClears = 1
    HealthTime = 2
    Fetchers = {a}
    Searches = {"search"}
    Metadata = {"album"}
    CatalogLimit = 2
    CatalogTTL = 2
    Interval = 2
    MaxRetries = 1
    CatalogTime = 1
    Resolvers = {a}
    LinkLimit = 1
    LinkTTL = 1
    NegativeTTL = 0
    LinkTime = 2
    Providers = {1}
    Parallelism = 2
    Cooldown = 2
    LyricsTime = 3
    Songs = {"song", "other"}
    Options = {a, b}
    Selecting = {b}
    LyricsLimit = 2
    MaxNegative = 1
    LyricsChanges = 2
    MaxRestarts = 1
    Scans = {a}
    Readers = {r1, r2}
    Tasks = {1, 2}
    Dials = {}
    Upstreams = 2
    PrivateAllowed = FALSE
    DoHTTL = 2
    ErrorTTL = 1
    HostAnswers <- SomeAnswers
    DialTime = 3
    Threads = {a}
    Versions = {1, 2, 3}
    Broken = {2}
    Overlapping = FALSE
    MaxCalls = 1
    MaxCrashes = 1
    Callers = {a}
    URLs = {"first", "second"}
    Unsigned = {2}
    MaxRevision = 2
    MaxFetches = 1
    MaxChanges = 2
    Runtimes = {a}
    StorageKeys = {"x", "y"}
    Values = {"one", "two"}
    NoValue = NoValue
    NoFile = NoFile
    NoAnswer = NoAnswer
    Failed = Failed
    MaxOps = 1
    MaxFaults = 1
PROPERTY
    DroppedAreKept
\* Requests, calls and time are bounded: at the bounds nothing is left to do.
CHECK_DEADLOCK FALSE
