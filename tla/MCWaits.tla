------------------------------ MODULE MCWaits -------------------------------
(***************************************************************************)
(* TLC: what waits and must not wait for ever.  The calls of a signed      *)
(* session and, each by itself, a scan of the library, the followers of the *)
(* download progress and the transfers to a path.  `which` names the part  *)
(* that runs in a behaviour; the others stay where they begin.             *)
(***************************************************************************)
EXTENDS SignedSession, Sequences, TLC

CONSTANTS
    r1, r2, e1, e2, NoScan,
    \* Progress
    Items, Clients, MaxBytes, Threshold, Full, Speeds, Stages, NoStage, NoItem, MaxRemoved, MaxSeq,
    \* ReliableTransfer
    L1, L2, t1, t2, NoTag, NoFile, NoCheckpoint, Versions, Lists, Size, Tag,
    MaxAttempts, MaxParallel, ChunkSize, MaxCalls, Scenarios

TwoRuntimes == {r1, r2}
TwoExtensions == {e1, e2}
OwnExtension == (r1 :> e1) @@ (r2 :> e2)

VARIABLES
    which,
    \* LibraryScan
    scan, worker, current, progress, output,
    \* Progress
    items, seq, reset, removed, dirty, cached, since, view, parked,
    \* ReliableTransfer
    staged, synced, ckpt, segCkpt, final, server, transfer, calls, scenario

scanning == <<scan, worker, current, progress, output>>
following == <<items, seq, reset, removed, dirty, cached, since, view, parked>>
fetching == <<staged, synced, ckpt, segCkpt, final, server, transfer, calls, scenario>>

Scanning ==
    INSTANCE LibraryScan WITH Scans <- {e1}, Workers <- {r1, r2}, Tasks <- 1..3, None <- NoScan

Following == INSTANCE Progress

\* Bytes, buckets and percents are numbers, a bucket and the whole are not
\* empty, and no item of the table stands for its absence.
ASSUME ProgressAssumption ==
    /\ 0 \in Speeds /\ NoStage \in Stages
    /\ MaxBytes \in Nat /\ Threshold \in Nat \ {0} /\ Full \in Nat \ {0} /\ MaxSeq \in Nat
    /\ NoItem \notin Following!Item

-----------------------------------------------------------------------------
(* Transfers of versions of an object, two of them without a validator, and *)
(* of two segment lists.                                                   *)
Scenario(engines, versions, crash, fail) ==
    [engines |-> engines, versions |-> versions, crash |-> crash, fail |-> fail]

\* One kind of engine for a path.  An object stays as it is, or its versions have
\* validators and no ranged transfer of it is interrupted by the process or the
\* storage, or they have none and are not asked for in chunks.
SafeScenarios ==
    {Scenario({"ranged", "chunked"}, {v}, TRUE, TRUE) : v \in {1, 3}}
    \cup {Scenario({"ranged"}, {1, 2}, FALSE, FALSE), Scenario({"chunked"}, {1, 2}, TRUE, TRUE),
          Scenario({"ranged"}, {3, 4}, TRUE, TRUE), Scenario({"segmented"}, {1}, TRUE, TRUE)}

\* A provider that downloads segments and one that downloads a file.
SharedPath == {Scenario({"ranged", "segmented"}, {1}, FALSE, FALSE)}

Sizes == (1 :> 2) @@ (2 :> 3) @@ (3 :> 3) @@ (4 :> 2) @@ (L1 :> 3) @@ (L2 :> 2)
Tags == <<t1, t2, NoTag, NoTag>>
SegmentLists == {L1, L2}

Fetching == INSTANCE ReliableTransfer WITH call <- transfer

\* An object has blocks, and so have the chunks.
ASSUME TransferAssumption ==
    /\ Size \in [Fetching!Objects -> Nat \ {0}]
    /\ ChunkSize \in Nat \ {0}

\* What may go wrong together so that the transfers keep their promises.  Left out
\* are three cases in which the code breaks them: transfers of segments and of the
\* whole to one path, which continue each other's bytes; chunks of an object that
\* changes and whose versions have no validators of their own, since a chunk is then
\* asked for without If-Range (extension_runtime_chunked.go:264); and an object that
\* changes under a ranged transfer which a crash or the storage interrupts, since the
\* new object's bytes are written while the old one's checkpoint is still there
\* (extension_runtime_transfer.go:511-532).  An object of which some versions have
\* validators and others none is not looked at.
OneVersion(s) == \A v, w \in s.versions : v = w
Validated(s) == \A v, w \in s.versions : v # w => Tag[v] # NoTag /\ Tag[v] # Tag[w]
Nameless(s) == \A v \in s.versions : Tag[v] = NoTag

Apart(s) ==
    /\ s.versions \subseteq Versions
    /\ \/ s.engines \subseteq {"segmented"}
       \/ /\ "segmented" \notin s.engines
          /\ \/ OneVersion(s)
             \/ Validated(s) /\ ("ranged" \in s.engines => ~s.crash /\ ~s.fail)
             \/ Nameless(s) /\ "chunked" \notin s.engines

ASSUME ScenariosAssumption == Scenarios = SharedPath \/ \A s \in Scenarios : Apart(s)

-----------------------------------------------------------------------------
MCInit ==
    /\ which \in {"session", "scanning", "following", "fetching"}
    /\ Init /\ Scanning!Init /\ Following!Init /\ Fetching!Init
    /\ which # "session" => issued = 0
    /\ which # "fetching" => server = 1 /\ "segmented" \in scenario.engines

MCNext ==
    \/ which = "session" /\ Next /\ UNCHANGED <<which, scanning, following, fetching>>
    \/ which = "scanning" /\ Scanning!Next /\ UNCHANGED <<which, vars, following, fetching>>
    \/ which = "following" /\ Following!Next /\ UNCHANGED <<which, vars, scanning, fetching>>
    \/ which = "fetching" /\ Fetching!Next /\ UNCHANGED <<which, vars, scanning, following>>

\* The fairness of each part, for the behaviours that are its own.
MCSpec ==
    /\ MCInit /\ [][MCNext]_<<which, vars, scanning, following, fetching>>
    /\ \A r \in TwoRuntimes : WF_vars(which = "session" /\ Proceeds(r))
    /\ WF_scanning(which = "scanning" /\ Scanning!Goes(e1))
    /\ \A w \in TwoRuntimes : WF_scanning(which = "scanning" /\ Scanning!Work(e1, w))
    /\ \A c \in Clients : WF_following(which = "following" /\ Following!Wake(c))
    /\ WF_fetching(which = "fetching" /\ Fetching!Step)

\* Every scan of the library ends with all its workers, complete, cancelled or
\* stopped by a sink that refuses a result (scanLibraryAudioTasksParallelWithSink),
\* and every transfer comes to an end, however often it begins again
\* (reliableFileDownload).
WorkEnds == Scanning!ScansEnd /\ Fetching!CallsReturn

\* A follower of the progress that is up to date shows the table exactly,
\* whatever it has missed; what it is told as removed is gone; the cached
\* answer is the current one (progress.go).
FollowersSound ==
    /\ Following!TypeOK /\ Following!CaughtUp
    /\ Following!RemovedIsGone /\ Following!CacheFresh

\* No follower sleeps for ever behind a revision (WaitForMultiProgressDelta).
WaitersWoken == Following!WaitersWoken

\* In scenarios that are apart, a checkpoint never vouches for bytes that are not in
\* the staged file (extension_runtime_transfer.go, extension_runtime_segments.go).
CheckpointHonest == Fetching!CheckpointHonest

\* In scenarios that are apart, the transfers to a path replace its file by whole
\* objects, one at a time: they implement AtomicDownload.
TransferAtomic == Fetching!Atomic
=============================================================================
