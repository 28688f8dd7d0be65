-------------------------- MODULE ExtensionHealth --------------------------
(***************************************************************************)
(* The cache of health statuses (extension_health.go).  A download that    *)
(* orders its providers reads it, makes do with what is stale or missing,  *)
(* and leaves a refresh behind; the host's screen checks at once; memory   *)
(* pressure clears everything while refreshes are on their way.  HealthStatus*)
(* says what a check finds; here a check finds any status.                 *)
(***************************************************************************)
EXTENDS Naturals, FiniteSets

CONSTANTS
    Extensions,   \* with health checks
    Refreshes,    \* goroutines
    None,
    MaxTime,      \* bound: the clock
    MaxClears     \* bound: times the cache is cleared

\* TTLs: what is known lives longer than what is unknown.
Life(status) == IF status = "unknown" THEN 1 ELSE 2

Statuses == {"online", "offline", "unknown"}

VARIABLES
    now,
    cache,        \* extension -> None or [status, expires, by, clears]: by
                  \* whom and after how many clears it was checked
    refreshing,   \* extensionHealthRefresh
    generation,
    asker,        \* the download: [pc, ext, status]
    refresh,      \* each goroutine: None or [ext, generation, found]
    check         \* the host's check: None or [ext, clears, found]

vars == <<now, cache, refreshing, generation, asker, refresh, check>>

Idle == [pc |-> "idle", ext |-> None, status |-> "unknown"]

Init ==
    /\ now = 0 /\ generation = 0
    /\ cache = [e \in Extensions |-> None]
    /\ refreshing = {}
    /\ asker = Idle
    /\ refresh = [r \in Refreshes |-> None]
    /\ check = None

Fresh(e) == cache[e] # None /\ now < cache[e].expires

\* cacheExtensionHealthResultLocked
Store(e, status, by, clears) ==
    cache' = [cache EXCEPT ![e] = [status |-> status, expires |-> now + Life(status),
                                   by |-> by, clears |-> clears]]

\* fallbackRuntimeHealthStatus: PeekExtensionHealthCached, ...
Peek(e) ==
    /\ asker.pc \in {"idle", "answered"}
    /\ asker' = IF Fresh(e) THEN [pc |-> "answered", ext |-> e, status |-> cache[e].status]
                ELSE [pc |-> "expired", ext |-> e, status |-> "unknown"]
    /\ UNCHANGED <<now, cache, refreshing, generation, refresh, check>>

\* ... peekExtensionHealthStale, whose offline is not believed, ...
PeekStale ==
    /\ asker.pc = "expired"
    /\ LET e == asker.ext IN
       asker' = [asker EXCEPT !.pc = "stale",
                   !.status = IF cache[e] = None \/ cache[e].status = "offline"
                              THEN "unknown" ELSE cache[e].status]
    /\ UNCHANGED <<now, cache, refreshing, generation, refresh, check>>

\* ... and RefreshExtensionHealthAsync.
RefreshAsync ==
    /\ asker.pc = "stale"
    /\ asker' = [asker EXCEPT !.pc = "answered"]
    /\ IF asker.ext \in refreshing THEN UNCHANGED <<refreshing, refresh>>
       ELSE /\ refreshing' = refreshing \cup {asker.ext}
            /\ \E r \in Refreshes :
                 /\ refresh[r] = None
                 /\ refresh' = [refresh EXCEPT ![r] =
                      [ext |-> asker.ext, generation |-> generation, found |-> None]]
    /\ UNCHANGED <<now, cache, generation, check>>

Probe(r) ==
    /\ refresh[r] # None /\ refresh[r].found = None
    /\ \E status \in Statuses : refresh' = [refresh EXCEPT ![r].found = status]
    /\ UNCHANGED <<now, cache, refreshing, generation, asker, check>>

\* Mutant: a refresh that a clear has overtaken lands all the same.
Land_Bug(r) ==
    /\ refresh[r] # None /\ refresh[r].found # None
    /\ Store(refresh[r].ext, refresh[r].found, "refresh", refresh[r].generation)
    /\ refreshing' = refreshing \ {refresh[r].ext}
    /\ refresh' = [refresh EXCEPT ![r] = None]
    /\ UNCHANGED <<now, generation, asker, check>>

Land(r) ==
    /\ refresh[r] # None /\ refresh[r].found # None
    /\ IF refresh[r].generation = generation
       THEN /\ Store(refresh[r].ext, refresh[r].found, "refresh", generation)
            /\ refreshing' = refreshing \ {refresh[r].ext}
       ELSE UNCHANGED <<cache, refreshing>>
    /\ refresh' = [refresh EXCEPT ![r] = None]
    /\ UNCHANGED <<now, generation, asker, check>>

\* CheckExtensionHealthJSON: checks, and stores in a step of its own.
StartCheck(e) ==
    /\ check = None
    /\ \E status \in Statuses :
         check' = [ext |-> e, clears |-> generation, found |-> status]
    /\ UNCHANGED <<now, cache, refreshing, generation, asker, refresh>>

EndCheck ==
    /\ check # None /\ check' = None
    /\ Store(check.ext, check.found, "check", check.clears)
    /\ UNCHANGED <<now, refreshing, generation, asker, refresh>>

Clear ==
    /\ generation < MaxClears /\ generation' = generation + 1
    /\ cache' = [e \in Extensions |-> None]
    /\ refreshing' = {}
    /\ UNCHANGED <<now, asker, refresh, check>>

Tick ==
    /\ now < MaxTime /\ now' = now + 1
    /\ UNCHANGED <<cache, refreshing, generation, asker, refresh, check>>

Next ==
    \/ \E e \in Extensions : Peek(e) \/ StartCheck(e)
    \/ PeekStale \/ RefreshAsync \/ EndCheck \/ Clear \/ Tick
    \/ \E r \in Refreshes : Probe(r) \/ Land(r)

Spec == Init /\ [][Next]_vars

\* Refreshes are coalesced and never lost: an extension is marked exactly
\* while one refresh of this generation is on its way (a mark that stays
\* behind would end its refreshes for good), and what a refresh has stored
\* was checked after the last clear.
RefreshesCoalesced ==
    /\ \A e \in Extensions :
         Cardinality({r \in Refreshes : /\ refresh[r] # None
                                        /\ refresh[r].ext = e
                                        /\ refresh[r].generation = generation})
           = IF e \in refreshing THEN 1 ELSE 0
    /\ \A e \in Extensions :
         cache[e] # None /\ cache[e].by = "refresh" => cache[e].clears = generation

=============================================================================
