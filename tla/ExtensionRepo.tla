---------------------------- MODULE ExtensionRepo ----------------------------
(***************************************************************************)
(* The extension repository (extension_repo.go, exports_repo.go): the      *)
(* registry of the configured URL with its validator, in memory and in     *)
(* store_cache.json; the requests for it, one at a time for each URL, which*)
(* callers share; and the download of a package against the checksum of its*)
(* registry entry.                                                         *)
(*                                                                         *)
(* A registry is <<URL, revision, fetch>>: the revision of the URL's       *)
(* document and the request that brought it, which stands for the pointer. *)
(***************************************************************************)
EXTENDS Naturals, FiniteSets

CONSTANTS
    Callers,     \* threads of the host
    URLs,        \* registries one can configure
    Unsigned,    \* revisions whose entry has no SHA-256 checksum
    None,        \* no URL, no registry, no file, no request
    MaxRevision, \* bound: revisions of a document
    MaxFetches,  \* bound: requests for registries
    MaxChanges   \* bound: URLs set, caches cleared and restarts of the process

VARIABLES
    url, cache, fresh, etag,   \* s.registryURL, s.cache, its age, s.etag
    file,        \* store_cache.json: [url, cache, etag]
    flight,      \* for each URL, the request under way
    caller,      \* for each thread: the URL it asked for, and what it got
    package,     \* the downloaded package: [revision, whole], or None
    revision,    \* the server: revision of each document
    fetches, changes

memory == <<url, cache, fresh, etag>>
bounds == <<fetches, changes>>
vars == <<memory, file, flight, caller, package, revision, bounds>>

Idle == [pc |-> "idle", asked |-> None, got |-> None, content |-> None]

Registry(u, r, f) == [url |-> u, revision |-> r, fetch |-> f]

Init ==
    /\ url = None /\ cache = None /\ fresh = FALSE /\ etag = None /\ file = None
    /\ flight = [u \in URLs |-> None]
    /\ caller = [c \in Callers |-> Idle]
    /\ package = None
    /\ revision = [u \in URLs |-> 1]
    /\ fetches = 0 /\ changes = 0

(***************************************************************************)
(* setRegistryURL, clearCache                                              *)
(***************************************************************************)
Forget ==
    /\ cache' = None /\ fresh' = FALSE /\ etag' = None
    /\ file' = None

SetURL(u) ==
    /\ changes < MaxChanges /\ changes' = changes + 1
    /\ url # u
    /\ url' = u
    /\ Forget
    /\ UNCHANGED <<flight, caller, package, revision, fetches>>

ClearCache ==
    /\ changes < MaxChanges /\ changes' = changes + 1
    /\ Forget
    /\ UNCHANGED <<url, flight, caller, package, revision, fetches>>

Expire ==
    /\ fresh /\ fresh' = FALSE
    /\ UNCHANGED <<url, cache, etag, file, flight, caller, package, revision, bounds>>

(***************************************************************************)
(* fetchRegistry: what the cache answers at once, or a shared request      *)
(***************************************************************************)
FetchRegistry(c, force) ==
    /\ caller[c].pc = "idle" /\ url # None
    /\ IF ~force /\ cache # None /\ fresh
       THEN /\ caller' = [caller EXCEPT ![c] = [Idle EXCEPT !.pc = "got", !.asked = url,
                                                            !.got = cache]]
            /\ UNCHANGED <<flight, fetches>>
       ELSE /\ caller' = [caller EXCEPT ![c] = [Idle EXCEPT !.pc = "waiting", !.asked = url]]
            /\ IF flight[url] # None THEN UNCHANGED <<flight, fetches>>
               ELSE /\ fetches < MaxFetches /\ fetches' = fetches + 1
                    /\ flight' = [flight EXCEPT ![url] =
                         [pc |-> "begin", force |-> force, cached |-> None, etag |-> None,
                          registry |-> None, snapshot |-> None]]
    /\ UNCHANGED <<memory, file, package, revision, changes>>

\* The request ends with a registry or, as None, an error, for all who wait.
Land(u, registry) ==
    /\ flight' = [flight EXCEPT ![u] = None]
    /\ caller' = [c \in Callers |->
         IF caller[c].pc = "waiting" /\ caller[c].asked = u
         THEN IF registry = None THEN Idle
              ELSE [caller[c] EXCEPT !.pc = "got", !.got = registry]
         ELSE caller[c]]

Step(u, new) == flight' = [flight EXCEPT ![u] = new] /\ UNCHANGED caller

Begin(u) ==
    LET f == flight[u] IN
    /\ f # None /\ f.pc = "begin"
    /\ \/ url # u /\ Land(u, None)
       \/ url = u /\ ~f.force /\ cache # None /\ fresh /\ Land(u, cache)
       \/ url = u /\ ~(~f.force /\ cache # None /\ fresh)
          /\ Step(u, [f EXCEPT !.pc = "request", !.cached = cache, !.etag = etag])
    /\ UNCHANGED <<memory, file, package, revision, bounds>>

\* No usable answer: the cached registry serves, unless the body broke off.
Unanswered(u) ==
    LET f == flight[u] IN
    /\ f # None /\ f.pc = "request"
    /\ \E registry \in {f.cached, None} : Land(u, registry)
    /\ UNCHANGED <<memory, file, package, revision, bounds>>

NotModified(u) ==
    LET f == flight[u] IN
    /\ f # None /\ f.pc = "request"
    /\ f.etag = revision[u] /\ f.cached # None
    /\ fresh' = (fresh \/ (url = u /\ cache = f.cached))
    /\ Step(u, [f EXCEPT !.pc = "snapshot", !.registry = f.cached])
    /\ UNCHANGED <<url, cache, etag, file, package, revision, bounds>>

Answered(u) ==
    LET f == flight[u] IN
    /\ f # None /\ f.pc = "request"
    /\ f.etag # revision[u]
    /\ Step(u, [f EXCEPT !.pc = "store", !.registry = Registry(u, revision[u], fetches)])
    /\ UNCHANGED <<memory, file, package, revision, bounds>>

\* Mutant: the answer is cached without another look at the URL.
StoreAnswer_Bug(u) ==
    LET f == flight[u] IN
    /\ f # None /\ f.pc = "store"
    /\ cache' = f.registry /\ fresh' = TRUE /\ etag' = f.registry.revision
    /\ Step(u, [f EXCEPT !.pc = "snapshot"])
    /\ UNCHANGED <<url, file, package, revision, bounds>>

StoreAnswer(u) ==
    LET f == flight[u] IN
    /\ f # None /\ f.pc = "store"
    /\ IF url # u
       THEN Land(u, f.registry) /\ UNCHANGED <<cache, fresh, etag>>
       ELSE /\ cache' = f.registry /\ fresh' = TRUE /\ etag' = f.registry.revision
            /\ Step(u, [f EXCEPT !.pc = "snapshot"])
    /\ UNCHANGED <<url, file, package, revision, bounds>>

\* saveDiskCache reads the cache under its lock and writes the file later.
Snapshot(u) ==
    LET f == flight[u] IN
    /\ f # None /\ f.pc = "snapshot"
    /\ IF cache = None THEN Land(u, f.registry)
       ELSE Step(u, [f EXCEPT !.pc = "write",
                              !.snapshot = [url |-> url, cache |-> cache, etag |-> etag]])
    /\ UNCHANGED <<memory, file, package, revision, bounds>>

WriteFile(u) ==
    LET f == flight[u] IN
    /\ f # None /\ f.pc = "write"
    /\ file' \in {file, f.snapshot}
    /\ Land(u, f.registry)
    /\ UNCHANGED <<memory, package, revision, bounds>>

(***************************************************************************)
(* A caller takes its registry home, or downloads a package of it.  What is*)
(* behind the download URL is any revision, and the body may be cut short. *)
(***************************************************************************)
Return(c) ==
    /\ caller[c].pc = "got"
    /\ caller' = [caller EXCEPT ![c] = Idle]
    /\ UNCHANGED <<memory, file, flight, package, revision, bounds>>

DownloadPackage(c) ==
    /\ caller[c].pc = "got"
    /\ \E r \in 1..MaxRevision, whole \in BOOLEAN :
         caller' = [caller EXCEPT ![c].pc = "verify",
                                  ![c].content = [revision |-> r, whole |-> whole]]
    /\ UNCHANGED <<memory, file, flight, package, revision, bounds>>

\* Mutant: the package is published before its checksum is compared.
VerifyPackage_Bug(c) ==
    /\ caller[c].pc = "verify"
    /\ caller' = [caller EXCEPT ![c].pc = "rename"]
    /\ package' = None
    /\ UNCHANGED <<memory, file, flight, revision, bounds>>

\* writeVerifiedExtensionPackage: the old package goes when the new one has
\* been checked; the new one takes its name in a step of its own.
VerifyPackage(c) ==
    LET content == caller[c].content expected == caller[c].got.revision IN
    /\ caller[c].pc = "verify"
    /\ IF expected \in Unsigned \/ (content.whole /\ content.revision = expected)
       THEN caller' = [caller EXCEPT ![c].pc = "rename"] /\ package' = None
       ELSE caller' = [caller EXCEPT ![c] = Idle] /\ UNCHANGED package
    /\ UNCHANGED <<memory, file, flight, revision, bounds>>

RenamePackage(c) ==
    /\ caller[c].pc = "rename"
    /\ package' \in {None, [content |-> caller[c].content,
                            expected |-> caller[c].got.revision]}
    /\ caller' = [caller EXCEPT ![c] = Idle]
    /\ UNCHANGED <<memory, file, flight, revision, bounds>>

(***************************************************************************)
(* The server publishes a revision; the process is started again and reads *)
(* store_cache.json, whose URL it takes.                                   *)
(***************************************************************************)
Publish(u) ==
    /\ revision[u] < MaxRevision
    /\ revision' = [revision EXCEPT ![u] = @ + 1]
    /\ UNCHANGED <<memory, file, flight, caller, package, bounds>>

Restart ==
    /\ changes < MaxChanges /\ changes' = changes + 1
    /\ IF file = None
       THEN url' = None /\ cache' = None /\ etag' = None /\ fresh' = FALSE
       ELSE /\ url' = file.url /\ cache' = file.cache /\ etag' = file.etag
            /\ fresh' \in BOOLEAN
    /\ flight' = [u \in URLs |-> None]
    /\ caller' = [c \in Callers |-> Idle]
    /\ UNCHANGED <<file, package, revision, fetches>>

Next ==
    \/ \E u \in URLs : SetURL(u) \/ Publish(u) \/ Begin(u) \/ Unanswered(u)
                       \/ NotModified(u) \/ Answered(u) \/ StoreAnswer(u)
                       \/ Snapshot(u) \/ WriteFile(u)
    \/ SetURL(None) \/ ClearCache \/ Expire \/ Restart
    \/ \E c \in Callers : \/ \E force \in BOOLEAN : FetchRegistry(c, force)
                          \/ Return(c) \/ DownloadPackage(c) \/ VerifyPackage(c)
                          \/ RenamePackage(c)

Spec == Init /\ [][Next]_vars

(***************************************************************************)
(* Properties                                                              *)
(***************************************************************************)
\* The registry in memory, and the one in the file, is of the URL beside it
\* and of the revision its validator names, however the URL changes while a
\* request is under way: a later 304 vouches for what is cached.  A caller
\* gets a registry of the URL that was configured when it asked.
RegistryHonest ==
    /\ cache # None => cache.url = url /\ etag = cache.revision
    /\ file # None => file.cache.url = file.url /\ file.etag = file.cache.revision
    /\ \A c \in Callers : caller[c].pc = "got" => caller[c].got.url = caller[c].asked

\* A package with a checksum is on the disk only whole and of the revision
\* its registry entry names, whatever the server sends and whenever the
\* process dies.
PackageVerified ==
    package # None =>
      package.expected \in Unsigned \/ package.content = [revision |-> package.expected,
                                                          whole |-> TRUE]

=============================================================================
