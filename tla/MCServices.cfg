SPECIFICATION MCSpec
CONSTANTS
    Exts = {x, y, z}
    Challenges = {s1, s2}
    OAuthStates = {o1}
    Hosts = {h1, h2}
    NoState = NoState
    NoExt = NoExt
    None = None
    Waiters = {a, b, c}
    MaxRequests = 2
    Window = 2
    LimiterTime = 4
    Workers = {a, b, c}
    Allowance = 3
    MaxGeneration = 5
    BudgetTime = 6
    Commands = {1, 2, 3}
    Pumps = {a, b}
    Extensions = {a}
    Refreshes = {b, c}
    MaxClears = 1
    HealthTime = 2
    Fetchers = {a, b, c}
    Searches = {"search"}
    Metadata = {"album"}
    CatalogLimit = 2
    CatalogTTL = 2
    Interval = 2
    MaxRetries = 1
    CatalogTime = 4
    Resolvers = {a, b}
    LinkLimit = 1
    LinkTTL = 1
    NegativeTTL = 0
    LinkTime = 2
    Providers = {1, 2, 3}
    Parallelism = 2
    Cooldown = 1
    LyricsTime = 2
    Songs = {"song"}
    Options = {a, b}
    Selecting = {b}
    LyricsLimit = 2
    MaxNegative = 1
    LyricsChanges = 2
    MaxRestarts = 1
    \* Two scans of two files, the second of which cancels the first.
    Scans = {a, b}
    Readers = {r1, r2}
    Tasks = {1, 2}
    Dials = {a}
    Upstreams = 2
    PrivateAllowed = FALSE
    DoHTTL = 2
    ErrorTTL = 1
    HostAnswers <- SomeAnswers
    DialTime = 3
    Threads = {a, b}
    Versions = {1, 2, 3}
    Broken = {2}
    Overlapping = FALSE
    MaxCalls = 5
    MaxCrashes = 1
    Callers = {a}
    URLs = {"first", "second"}
    Unsigned = {2}
    MaxRevision = 2
    MaxFetches = 2
    MaxChanges = 2
    Runtimes = {a, b}
    StorageKeys = {"x", "y"}
    Values = {"one", "two"}
    NoValue = NoValue
    NoFile = NoFile
    NoAnswer = NoAnswer
    Failed = Failed
    MaxOps = 3
    MaxFaults = 1
SYMMETRY Interchangeable
INVARIANTS
    ResolvesLive
    AcceptedOnce
    WindowKept
    ChargedExactly
    ServedOnce
    AskedOnce
    PreferredFirst
    FileCaughtUp
    RaceAccounted
    VersionSafe
    EnabledIsStored
    RegistryKept
    ScanIsComplete
PROPERTIES
    StorageAtomic
\* Requests, calls and time are bounded: at the bounds nothing is left to do.
CHECK_DEADLOCK FALSE
