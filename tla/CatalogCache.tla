---------------------------- MODULE CatalogCache ----------------------------
(***************************************************************************)
(* The caches of the Deezer client (deezer.go, deezer_browse.go,           *)
(* deezer_cache.go).  Searches and pages look, fetch and store; metadata is*)
(* fetched once for all who ask at a time, and whoever is to fetch it looks*)
(* again first.  Searches and metadata share a map, which is pruned at     *)
(* intervals and cut at its limit.  A fetch is tried again after an error  *)
(* that may pass.                                                          *)
(***************************************************************************)
EXTENDS Naturals, FiniteSets

CONSTANTS
    Callers,
    Searches, Metadata,   \* the keys of the search cache
    None,
    Limit, TTL, Interval, MaxRetries,
    MaxTime               \* bound: the clock

Keys == Searches \cup Metadata

VARIABLES
    now,
    expires,      \* the search cache: key -> None or when its entry expires
    lastCleanup,
    flight,       \* metadata key -> None or who fetches it
    caller        \* [pc, key, attempt]

vars == <<now, expires, lastCleanup, flight, caller>>

Idle == [pc |-> "idle", key |-> None, attempt |-> 0]

Init ==
    /\ now = 0 /\ lastCleanup = None
    /\ expires = [k \in Keys |-> None]
    /\ flight = [k \in Metadata |-> None]
    /\ caller = [c \in Callers |-> Idle]

Held(cache) == {k \in Keys : cache[k] # None}
Fresh(k) == expires[k] # None /\ now <= expires[k]

Moves(c, pc) == caller' = [caller EXCEPT ![c].pc = pc]
NoStore == UNCHANGED <<expires, lastCleanup>>

Look(c, k) ==
    /\ caller[c].pc = "idle"
    /\ caller' = [caller EXCEPT ![c] =
         IF Fresh(k) THEN Idle
         ELSE [pc |-> IF k \in Metadata THEN "join" ELSE "fetch", key |-> k, attempt |-> 0]]
    /\ NoStore /\ UNCHANGED <<now, flight>>

\* metadataFlight.Do: the first fetches, the others wait for its answer.
Join(c) ==
    /\ caller[c].pc = "join"
    /\ LET k == caller[c].key IN
       IF flight[k] = None THEN Moves(c, "recheck") /\ flight' = [flight EXCEPT ![k] = c]
       ELSE Moves(c, "wait") /\ UNCHANGED flight
    /\ NoStore /\ UNCHANGED now

\* The call is over; that of a flight for everybody in it.
Ends(c) ==
    LET k == caller[c].key IN
    IF k \in Metadata
    THEN /\ flight' = [flight EXCEPT ![k] = None]
         /\ caller' = [d \in Callers |->
                      IF d = c \/ (caller[d].pc = "wait" /\ caller[d].key = k)
                      THEN Idle ELSE caller[d]]
    ELSE caller' = [caller EXCEPT ![c] = Idle] /\ UNCHANGED flight

\* Mutant: the leader of a flight does not look again.
Recheck_Bug(c) ==
    /\ caller[c].pc = "recheck"
    /\ Moves(c, "fetch") /\ UNCHANGED flight
    /\ NoStore /\ UNCHANGED now

Recheck(c) ==
    /\ caller[c].pc = "recheck"
    /\ IF Fresh(caller[c].key) THEN Ends(c) ELSE Moves(c, "fetch") /\ UNCHANGED flight
    /\ NoStore /\ UNCHANGED now

\* doGetJSON answers, or getJSON tries again, or gives up.
Fetched(c) ==
    /\ caller[c].pc = "fetch"
    /\ Moves(c, "store")
    /\ NoStore /\ UNCHANGED <<now, flight>>

FetchFails(c) ==
    /\ caller[c].pc = "fetch"
    /\ \/ /\ caller[c].attempt < MaxRetries
          /\ caller' = [caller EXCEPT ![c].attempt = @ + 1] /\ UNCHANGED flight
       \/ Ends(c)
    /\ NoStore /\ UNCHANGED now

\* pruneExpiredCacheEntriesLocked and trimCacheEntriesLocked
Pruned(cache) == [k \in Keys |-> IF cache[k] # None /\ now > cache[k] THEN None ELSE cache[k]]

\* What may be left of a cache when it is cut to its limit, the oldest first.
Trimmed(cache) ==
    {cut \in {[k \in Keys |-> IF k \in keep THEN cache[k] ELSE None] :
                keep \in SUBSET Held(cache)} :
       /\ Cardinality(Held(cut)) = Limit
       /\ \A k \in Held(cut), l \in Held(cache) \ Held(cut) : cache[l] <= cache[k]}

\* maybeCleanupCachesLocked
Cleaned(cache, periodic) ==
    LET pruned == IF periodic \/ Cardinality(Held(cache)) > Limit THEN Pruned(cache) ELSE cache
    IN IF Cardinality(Held(pruned)) > Limit THEN Trimmed(pruned) ELSE {pruned}

Store(c) ==
    /\ caller[c].pc = "store"
    /\ LET periodic == lastCleanup = None \/ now >= lastCleanup + Interval
           stored == [expires EXCEPT ![caller[c].key] = now + TTL] IN
       /\ expires' \in Cleaned(stored, periodic)
       /\ lastCleanup' = IF periodic THEN now ELSE lastCleanup
    /\ Ends(c)
    /\ UNCHANGED now

Tick ==
    /\ now < MaxTime /\ now' = now + 1
    /\ NoStore /\ UNCHANGED <<flight, caller>>

Next ==
    \/ \E c \in Callers :
         \/ (\E k \in Keys : Look(c, k)) \/ Join(c) \/ Recheck(c)
         \/ Fetched(c) \/ FetchFails(c) \/ Store(c)
    \/ Tick

Spec == Init /\ [][Next]_vars

\* The cache stays within its limit, and nobody fetches metadata that is
\* already there or that another fetches: only so many requests reach the
\* catalog as there are answers that have expired, been cut or failed.
FetchedOnce ==
    /\ Cardinality(Held(expires)) <= Limit
    /\ \A k \in Metadata : \A c \in Callers :
         caller[c].key = k /\ caller[c].pc \in {"fetch", "store"}
         => /\ flight[k] = c
            /\ caller[c].pc = "fetch" => ~Fresh(k)
            /\ \A d \in Callers \ {c} :
                 caller[d].key = k => caller[d].pc \in {"join", "wait"}

=============================================================================
