----------------------------- MODULE MCServices -----------------------------
(***************************************************************************)
(* TLC: the services that the extensions and the screens share, each by    *)
(* itself.  `which` names the service of a behaviour; the variables of the *)
(* others stay as they are, and are 0.  CallbackRegistry is extended, the  *)
(* other services are instances, for every value of their constants.       *)
(***************************************************************************)
EXTENDS CallbackRegistry, Integers, Sequences, FiniteSets, TLC

CONSTANTS
    None,
    Waiters, MaxRequests, Window, LimiterTime,                    \* RateLimiter
    Workers, Allowance, MaxGeneration, BudgetTime,                \* ResolutionBudget
    Commands, Pumps,                                              \* FFmpegCommands
    Extensions, Refreshes, MaxClears, HealthTime,                 \* ExtensionHealth
    Fetchers, Searches, Metadata, CatalogLimit, CatalogTTL,       \* CatalogCache
    Interval, MaxRetries, CatalogTime,
    Resolvers, LinkLimit, LinkTTL, NegativeTTL, LinkTime,         \* PlatformLinks
    Providers, Parallelism, Cooldown, LyricsTime,                 \* LyricsSearch
    Songs, Options, Selecting, LyricsLimit, MaxNegative,          \* LyricsCache
    LyricsChanges, MaxRestarts,
    Scans, Readers, Tasks,                                        \* LibraryScan
    Dials, Upstreams, PrivateAllowed, DoHTTL, ErrorTTL, HostAnswers,  \* HostDial
    DialTime,
    Threads, Versions, Broken, Overlapping, MaxCalls, MaxCrashes, \* ExtensionStore
    Callers, URLs, Unsigned, MaxRevision, MaxFetches, MaxChanges, \* ExtensionRepo
    Runtimes, StorageKeys, Values, NoValue, NoFile, NoAnswer, Failed,    \* ExtensionStorage
    MaxOps, MaxFaults

VARIABLES
    which,
    now,   \* the clock of the services that have one
    timestamps, waiter, granted,
    remaining, started, timer, firing, generation, pauses, charges, stopped, cancelled,
    worker, spent,
    command, entry, token, pump, batch, runs,
    healthCache, refreshing, healthGeneration, asker, refresh, check,
    expires, lastCleanup, catalogFlight, fetcher,
    table, keyFlight, urlFlight, resolver,
    unavailable, lyricsWorker, outcome, search,
    options, clearing, lyricsCache, negative, searching, lyricsFile, opened, persistGeneration,
    writer, restarts, dropped, behind,
    scan, reader, current, progress, output,
    dohCache, dial, attempt,
    dir, backups, loaded, objects, mutator, settings, saved, call, owned, calls, crashes,
    url, repoCache, fresh, etag, repoFile, repoFlight, caller, package, revision, fetches,
    changes,
    encrypted, file, cache, present, lock, closed, op, answer, stamp, ops, faults

Limiter == INSTANCE RateLimiter WITH MaxTime <- LimiterTime

Budget == INSTANCE ResolutionBudget WITH MaxTime <- BudgetTime

FFmpeg == INSTANCE FFmpegCommands

Health ==
    INSTANCE ExtensionHealth WITH
      MaxTime <- HealthTime, cache <- healthCache, generation <- healthGeneration

Catalog ==
    INSTANCE CatalogCache WITH
      Callers <- Fetchers, Limit <- CatalogLimit, TTL <- CatalogTTL, MaxTime <- CatalogTime,
      flight <- catalogFlight, caller <- fetcher

Platforms ==
    INSTANCE PlatformLinks WITH
      Callers <- Resolvers, Limit <- LinkLimit, TTL <- LinkTTL, MaxTime <- LinkTime,
      caller <- resolver

Lyrics == INSTANCE LyricsSearch WITH MaxTime <- LyricsTime, worker <- lyricsWorker

Kept ==
    INSTANCE LyricsCache WITH
      Limit <- LyricsLimit, MaxChanges <- LyricsChanges, cache <- lyricsCache,
      file <- lyricsFile, generation <- persistGeneration

Scanning == INSTANCE LibraryScan WITH Workers <- Readers, worker <- reader

Dialling == INSTANCE HostDial WITH Answers <- HostAnswers, TTL <- DoHTTL, MaxTime <- DialTime

Store == INSTANCE ExtensionStore WITH entry <- loaded

Repo ==
    INSTANCE ExtensionRepo WITH
      cache <- repoCache, file <- repoFile, flight <- repoFlight

Storage == INSTANCE ExtensionStorage WITH Keys <- StorageKeys

-----------------------------------------------------------------------------
(* What the theorems take for granted of the constants.                    *)
ASSUME LimiterAssumption == Window \in Nat /\ MaxRequests \in Nat \ {0}

ASSUME HealthAssumption ==
    None \notin [ext : Extensions, generation : Nat, found : Health!Statuses \cup {None}]

ASSUME CatalogAssumption ==
    /\ IsFiniteSet(Searches) /\ IsFiniteSet(Metadata) /\ None \notin Searches \cup Metadata
    /\ None \notin Nat /\ None \notin Fetchers
    /\ CatalogLimit \in Nat /\ CatalogTTL \in Nat

ASSUME PlatformsAssumption ==
    /\ None \notin Resolvers
    /\ LinkLimit \in Nat /\ LinkTTL \in Nat /\ NegativeTTL \in Nat

ASSUME LyricsAssumption ==
    /\ Providers \subseteq Nat \ {0} /\ IsFiniteSet(Providers)
    /\ Cooldown \in Nat /\ Parallelism \in Nat

ASSUME KeptAssumption == LyricsLimit \in Nat \ {0}

ASSUME BudgetAssumption == IsFiniteSet(Workers) /\ Allowance \in Nat /\ None \notin Nat

ASSUME DiallingAssumption ==
    HostAnswers \subseteq Seq([family : {4, 6}, private : BOOLEAN, n : Nat])

ASSUME ScanningAssumption ==
    /\ IsFiniteSet(Tasks) /\ Tasks = 1 .. Cardinality(Tasks)
    /\ IsFiniteSet(Readers) /\ Readers # {}

ASSUME StoreAssumption == None \notin Versions /\ None \notin Nat /\ None \notin Threads

ASSUME StorageAssumption ==
    /\ NoFile \notin
         [map : [StorageKeys -> Values \cup {NoValue}], stamp : Nat, legacy : BOOLEAN]
    /\ NoFile \notin Runtimes

-----------------------------------------------------------------------------
(* Values for the model checker.                                           *)
Answer(family, private, n) == [family |-> family, private |-> private, n |-> n]

SomeAnswers ==
    {<<>>, <<Answer(6, FALSE, 1), Answer(6, FALSE, 2), Answer(4, FALSE, 3)>>,
     <<Answer(4, FALSE, 3), Answer(4, TRUE, 4)>>, <<Answer(4, TRUE, 4)>>}

-----------------------------------------------------------------------------
limiting == <<timestamps, waiter, granted>>
budgeting == <<remaining, started, timer, firing, generation, pauses, charges, stopped,
               cancelled, worker, spent>>
converting == <<command, entry, token, pump, batch, runs>>
checking == <<healthCache, refreshing, healthGeneration, asker, refresh, check>>
browsing == <<expires, lastCleanup, catalogFlight, fetcher>>
resolving == <<table, keyFlight, urlFlight, resolver>>
singing == <<unavailable, lyricsWorker, outcome, search>>
keeping == <<options, clearing, lyricsCache, negative, searching, lyricsFile, opened,
             persistGeneration, writer, restarts, dropped, behind>>
reading == <<scan, reader, current, progress, output>>
dialling == <<dohCache, dial, attempt>>
installing == <<dir, backups, loaded, objects, mutator, settings, saved, call, owned, calls,
                crashes>>
listing == <<url, repoCache, fresh, etag, repoFile, repoFlight, caller, package, revision,
             fetches, changes>>
storing == <<encrypted, file, cache, present, lock, closed, op, answer, stamp, ops, faults>>

\* The services that do not run.
NoLimiter == timestamps = 0 /\ waiter = 0 /\ granted = 0
NoBudget == remaining = 0 /\ started = 0 /\ timer = 0 /\ firing = 0 /\ generation = 0 /\
            pauses = 0 /\ charges = 0 /\ stopped = 0 /\ cancelled = 0 /\ worker = 0 /\
            spent = 0
NoFFmpeg == command = 0 /\ entry = 0 /\ token = 0 /\ pump = 0 /\ batch = 0 /\ runs = 0
NoHealth == healthCache = 0 /\ refreshing = 0 /\ healthGeneration = 0 /\ asker = 0 /\
            refresh = 0 /\ check = 0
NoCatalog == expires = 0 /\ lastCleanup = 0 /\ catalogFlight = 0 /\ fetcher = 0
NoPlatforms == table = 0 /\ keyFlight = 0 /\ urlFlight = 0 /\ resolver = 0
NoLyrics == unavailable = 0 /\ lyricsWorker = 0 /\ outcome = 0 /\ search = 0
NoKept == options = 0 /\ clearing = 0 /\ lyricsCache = 0 /\ negative = 0 /\ searching = 0 /\
          lyricsFile = 0 /\ opened = 0 /\ persistGeneration = 0 /\ writer = 0 /\
          restarts = 0 /\ dropped = 0 /\ behind = 0
NoScanning == scan = 0 /\ reader = 0 /\ current = 0 /\ progress = 0 /\ output = 0
NoDialling == dohCache = 0 /\ dial = 0 /\ attempt = 0
NoStore == dir = 0 /\ backups = 0 /\ loaded = 0 /\ objects = 0 /\ mutator = 0 /\
           settings = 0 /\ saved = 0 /\ call = 0 /\ owned = 0 /\ calls = 0 /\ crashes = 0
NoRepo == url = 0 /\ repoCache = 0 /\ fresh = 0 /\ etag = 0 /\ repoFile = 0 /\
          repoFlight = 0 /\ caller = 0 /\ package = 0 /\ revision = 0 /\ fetches = 0 /\
          changes = 0
NoStorage == encrypted = 0 /\ file = 0 /\ cache = 0 /\ present = 0 /\ lock = 0 /\
             closed = 0 /\ op = 0 /\ answer = 0 /\ stamp = 0 /\ ops = 0 /\ faults = 0

Clocked == {"limiter", "budget", "health", "catalog", "platforms", "lyrics", "dialling"}

MCInit ==
    /\ which \in {"callback", "limiter", "budget", "ffmpeg", "health", "catalog",
               "platforms", "lyrics", "kept", "scanning", "dialling", "store", "repo",
               "storage"}
    /\ Init
    /\ which \notin Clocked => now = 0
    /\ IF which = "limiter" THEN Limiter!Init ELSE NoLimiter
    /\ IF which = "budget" THEN Budget!Init ELSE NoBudget
    /\ IF which = "ffmpeg" THEN FFmpeg!Init ELSE NoFFmpeg
    /\ IF which = "health" THEN Health!Init ELSE NoHealth
    /\ IF which = "catalog" THEN Catalog!Init ELSE NoCatalog
    /\ IF which = "platforms" THEN Platforms!Init ELSE NoPlatforms
    /\ IF which = "lyrics" THEN Lyrics!Init ELSE NoLyrics
    /\ IF which = "kept" THEN Kept!Init ELSE NoKept
    /\ IF which = "scanning" THEN Scanning!Init ELSE NoScanning
    /\ IF which = "dialling" THEN Dialling!Init ELSE NoDialling
    /\ IF which = "store" THEN Store!Init ELSE NoStore
    /\ IF which = "repo" THEN Repo!Init ELSE NoRepo
    /\ IF which = "storage" THEN Storage!Init ELSE NoStorage

\* What a step of one service leaves alone.
Others(service) ==
    /\ UNCHANGED which
    /\ service \notin Clocked => UNCHANGED now
    /\ service # "callback" => UNCHANGED vars
    /\ service # "limiter" => UNCHANGED limiting
    /\ service # "budget" => UNCHANGED budgeting
    /\ service # "ffmpeg" => UNCHANGED converting
    /\ service # "health" => UNCHANGED checking
    /\ service # "catalog" => UNCHANGED browsing
    /\ service # "platforms" => UNCHANGED resolving
    /\ service # "lyrics" => UNCHANGED singing
    /\ service # "kept" => UNCHANGED keeping
    /\ service # "scanning" => UNCHANGED reading
    /\ service # "dialling" => UNCHANGED dialling
    /\ service # "store" => UNCHANGED installing
    /\ service # "repo" => UNCHANGED listing
    /\ service # "storage" => UNCHANGED storing

MCNext ==
    \/ which = "callback" /\ Next /\ Others("callback")
    \/ which = "limiter" /\ Limiter!Next /\ Others("limiter")
    \/ which = "budget" /\ Budget!Next /\ Others("budget")
    \/ which = "ffmpeg" /\ FFmpeg!Next /\ Others("ffmpeg")
    \/ which = "health" /\ Health!Next /\ Others("health")
    \/ which = "catalog" /\ Catalog!Next /\ Others("catalog")
    \/ which = "platforms" /\ Platforms!Next /\ Others("platforms")
    \/ which = "lyrics" /\ Lyrics!Next /\ Others("lyrics")
    \/ which = "kept" /\ Kept!Next /\ Others("kept")
    \/ which = "scanning" /\ Scanning!Next /\ Others("scanning")
    \/ which = "dialling" /\ Dialling!Next /\ Others("dialling")
    \/ which = "store" /\ Store!Next /\ Others("store")
    \/ which = "repo" /\ Repo!Next /\ Others("repo")
    \/ which = "storage" /\ Storage!Next /\ Others("storage")

\* The workers of a scan differ in nothing but their names.
Interchangeable == Permutations(Readers)

all == <<which, now, vars, limiting, budgeting, converting, checking, browsing, resolving,
         singing, keeping, reading, dialling, installing, listing, storing>>

MCSpec == MCInit /\ [][MCNext]_all

-----------------------------------------------------------------------------
(* The properties of the services, of the behaviours that are theirs.      *)

\* No more requests than allowed are let through in a window of time, however
\* many waiters wake together (ratelimit.go).
WindowKept == which = "limiter" => Limiter!WindowKept

\* Waiting for a provider is not charged and running is, each moment once,
\* and a resolution that is not stopped is watched by a timer
\* (extension_resolution_budget.go).
ChargedExactly == which = "budget" => Budget!ChargedExactly /\ Budget!Guarded

\* A command of a script is run by one pump, once, and none that waits is
\* overlooked by a pump that sleeps (extension_runtime_ffmpeg.go).
ServedOnce == which = "ffmpeg" => FFmpeg!ServedOnce

\* One fetch, refresh or resolution at a time for what several callers want,
\* and none for what a cache still holds (extension_health.go, deezer.go,
\* songlink.go).
AskedOnce ==
    /\ which = "health" => Health!RefreshesCoalesced
    /\ which = "catalog" => Catalog!FetchedOnce
    /\ which = "platforms" => Platforms!ResolvedOnce

\* A search gives the lyrics of the provider the user prefers among those
\* that have any (fetchLyricsProvidersContext).
PreferredFirst == which = "lyrics" => Lyrics!PreferredFirst

\* Lyrics that were found are in the file once the writer is done, and those
\* that were cleared are not (persistAfterDebounce).
FileCaughtUp == which = "kept" => Kept!FileCaughtUp

\* Lyrics that were dropped from the memory are kept in the file, as DropMemory
\* says of itself (lyrics_config.go).
DroppedAreKept == [][which = "kept" => Kept!KeepsDropped]_all

\* A scan of the library that is done has a row or an error for each of its
\* files, and only such a scan leaves a file (library_scan.go).
ScanIsComplete == which = "scanning" => Scanning!ScanIsComplete

\* Every connection of a race but the one given is closed (dns_doh.go).
RaceAccounted == which = "dialling" => Dialling!RaceAccounted

\* At every moment, and so after any crash, one complete version of an
\* installed extension is in its directory or in the backup
\* (upgradeExtensionLocked).
VersionSafe == which = "store" => Store!VersionSafe

\* An extension that is enabled when no call runs is stored as enabled: the
\* next start finds it so (SetExtensionEnabled, upgradeExtensionLocked).
EnabledIsStored == which = "store" => Store!EnabledIsStored

\* The registry that is kept, in memory and in the file, is of the URL and
\* the revision beside it, and a package with a checksum is on the disk only
\* whole and as its entry names it (extension_repo.go).
RegistryKept == which = "repo" => Repo!RegistryHonest /\ Repo!PackageVerified

\* The map that AtomicMap is about; that of another service stays empty.
Map ==
    INSTANCE AtomicMap WITH
      Keys <- StorageKeys,
      map <- IF which # "storage" \/ file = NoFile THEN Storage!Empty ELSE file.map,
      answer <- IF which # "storage" THEN [r \in Runtimes |-> NoAnswer] ELSE answer
\* The storage of an extension is a map that its runtimes change one at a
\* time, and every call is answered from it (ExtensionStorage!Atomic).
StorageAtomic == Map!Spec
=============================================================================
