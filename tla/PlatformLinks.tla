--------------------------- MODULE PlatformLinks ---------------------------
(***************************************************************************)
(* Where a track is found on other platforms (songlink.go, platform_       *)
(* resolver_fallbacks.go).  A track is known by a Spotify or a Deezer URL, *)
(* the latter found by an ISRC; a chain of resolvers is asked for its links*)
(* until they cover enough.  Two tables remember what was found (which     *)
(* services have the track, and the links to share), errors for a shorter  *)
(* time; calls for one key, and resolutions of one URL, are made once.     *)
(***************************************************************************)
EXTENDS Naturals, FiniteSets, SequencesExt

CONSTANTS
    Callers,
    None,
    Limit, TTL, NegativeTTL,
    MaxTime       \* bound: the clock

\* A track by its Spotify id or by its ISRC, and its URL's platform.
Keys == {"spotify", "isrc"}
Source(key) == IF key = "spotify" THEN "spotify" ELSE "deezer"
Tables == {"availability", "links"}

VARIABLES
    now,
    table,        \* table -> key -> None or [error, failed, life, expires]
    keyFlight,    \* table -> key -> None or who makes the call
    urlFlight,    \* source -> None or who resolves it
    caller        \* [pc, table, key, error, failed]: what it was told:
                  \* an error? had every resolver failed?

vars == <<now, table, keyFlight, urlFlight, caller>>

Idle == [pc |-> "idle", table |-> None, key |-> None, error |-> TRUE, failed |-> FALSE]

Init ==
    /\ now = 0
    /\ table = [t \in Tables |-> [k \in Keys |-> None]]
    /\ keyFlight = [t \in Tables |-> [k \in Keys |-> None]]
    /\ urlFlight = [s \in {"spotify", "deezer"} |-> None]
    /\ caller = [c \in Callers |-> Idle]

-----------------------------------------------------------------------------
\* The chain: platformResolverChain.Resolve

NoAnswers == {"failed"}
\* What a resolver says: that it failed, or platforms it has direct links to.
Answers == {NoAnswers, {"youtube"}, {"deezer", "tidal", "qobuz"}}

\* hasUsefulResolverCoverage
Covers(links) ==
    /\ Cardinality(links) >= 4
    /\ Cardinality(links \cap {"deezer", "tidal", "amazonMusic", "qobuz"}) >= 2

\* The resolvers in their order; the URL that was asked for is always a link.
Chain(answers, source) ==
    FoldLeft(LAMBDA links, a : IF Covers(links) \/ a = NoAnswers THEN links ELSE links \cup a,
             {}, answers) \cup {source}

\* How a resolution of a URL may end.
Outcomes(source) ==
    {[error |-> Chain(answers, source) = {}, failed |-> \A i \in 1 .. 4 : answers[i] = NoAnswers] :
       answers \in [1 .. 4 -> Answers]}

-----------------------------------------------------------------------------
Fresh(t, k) == table[t][k] # None /\ now <= table[t][k].expires

\* trackAvailabilityCacheLookup, trackPlatformLinksCacheLookup: what has
\* expired is dropped.
Dropped(t, k) ==
    table' = IF table[t][k] # None /\ ~Fresh(t, k) THEN [table EXCEPT ![t][k] = None] ELSE table

Moves(c, pc) == caller' = [caller EXCEPT ![c].pc = pc]

\* CheckTrackAvailability, GetTrackPlatformLinks
Look(c, t, k) ==
    /\ caller[c].pc = "idle"
    /\ caller' = [caller EXCEPT ![c] = IF Fresh(t, k) THEN Idle
                                       ELSE [Idle EXCEPT !.pc = "join", !.table = t, !.key = k]]
    /\ Dropped(t, k)
    /\ UNCHANGED <<now, keyFlight, urlFlight>>

Join(c) ==
    /\ caller[c].pc = "join"
    /\ LET t == caller[c].table
           k == caller[c].key
       IN IF keyFlight[t][k] # None THEN Moves(c, "wait") /\ UNCHANGED keyFlight
          ELSE Moves(c, "recheck") /\ keyFlight' = [keyFlight EXCEPT ![t][k] = c]
    /\ UNCHANGED <<now, table, urlFlight>>

\* The call is over, for everybody who waits for it.
Ends(c) ==
    LET t == caller[c].table
        k == caller[c].key
    IN /\ keyFlight' = [keyFlight EXCEPT ![t][k] = None]
       /\ caller' = [d \in Callers |->
            IF d = c \/ (caller[d].pc = "wait" /\ caller[d].table = t /\ caller[d].key = k)
            THEN Idle ELSE caller[d]]

Recheck(c) ==
    /\ caller[c].pc = "recheck"
    /\ Dropped(caller[c].table, caller[c].key)
    /\ IF Fresh(caller[c].table, caller[c].key) THEN Ends(c)
       ELSE Moves(c, IF caller[c].key = "isrc" THEN "search" ELSE "resolve")
            /\ UNCHANGED keyFlight
    /\ UNCHANGED <<now, urlFlight>>

\* The Deezer track of an ISRC.
SearchISRC(c) ==
    /\ caller[c].pc = "search"
    /\ \/ Moves(c, "resolve")
       \/ Moves(c, "store")
    /\ UNCHANGED <<now, table, keyFlight, urlFlight>>

\* resolveTrackPlatforms: who comes first resolves, for everybody.
Resolve(c) ==
    /\ caller[c].pc = "resolve"
    /\ LET s == Source(caller[c].key) IN
       IF urlFlight[s] # None THEN Moves(c, "share") /\ UNCHANGED urlFlight
       ELSE Moves(c, "chain") /\ urlFlight' = [urlFlight EXCEPT ![s] = c]
    /\ UNCHANGED <<now, table, keyFlight>>

Resolved(c) ==
    /\ caller[c].pc = "chain"
    /\ LET s == Source(caller[c].key) IN
       /\ \E o \in Outcomes(s) :
            caller' = [d \in Callers |->
              IF d = c \/ (caller[d].pc = "share" /\ Source(caller[d].key) = s)
              THEN [caller[d] EXCEPT !.pc = "store", !.error = o.error, !.failed = o.failed]
              ELSE caller[d]]
       /\ urlFlight' = [urlFlight EXCEPT ![s] = None]
    /\ UNCHANGED <<now, table, keyFlight>>

\* trackAvailabilityCacheStore, trackPlatformLinksCacheStore.  Mutant: an
\* error lives as long as an answer.
Store_Bug(c) ==
    /\ caller[c].pc = "store"
    /\ LET t == caller[c].table
           k == caller[c].key
       IN table' = [table EXCEPT ![t][k] = [error |-> caller[c].error,
            failed |-> caller[c].failed, life |-> TTL, expires |-> now + TTL]]
    /\ Ends(c)
    /\ UNCHANGED <<now, urlFlight>>

Store(c) ==
    /\ caller[c].pc = "store"
    /\ LET t == caller[c].table
           k == caller[c].key
           held == {l \in Keys \ {k} : table[t][l] # None}
           full == table[t][k] = None /\ Cardinality(held) >= Limit
           life == IF caller[c].error THEN NegativeTTL ELSE TTL
       IN \E kept \in IF ~full THEN {held} ELSE
                      {held \ {l} : l \in {o \in held : \A p \in held :
                                       table[t][o].expires <= table[t][p].expires}} :
            table' = [table EXCEPT ![t] = [l \in Keys |->
              IF l = k THEN [error |-> caller[c].error, failed |-> caller[c].failed,
                             life |-> life, expires |-> now + life]
              ELSE IF l \in kept THEN table[t][l] ELSE None]]
    /\ Ends(c)
    /\ UNCHANGED <<now, urlFlight>>

Tick ==
    /\ now < MaxTime /\ now' = now + 1
    /\ UNCHANGED <<table, keyFlight, urlFlight, caller>>

Next ==
    \/ \E c \in Callers :
         \/ \E t \in Tables, k \in Keys : Look(c, t, k)
         \/ Join(c) \/ Recheck(c) \/ SearchISRC(c) \/ Resolve(c) \/ Resolved(c) \/ Store(c)
    \/ Tick

Spec == Init /\ [][Next]_vars

\* Each table stays within its limit, an error is forgotten sooner than an
\* answer, and nobody asks the resolvers for what a table holds or what
\* another call is about to give.
ResolvedOnce ==
    /\ \A t \in Tables : Cardinality({k \in Keys : table[t][k] # None}) <= Limit
    /\ \A t \in Tables, k \in Keys :
         table[t][k] # None /\ table[t][k].error => table[t][k].life <= NegativeTTL
    /\ \A c \in Callers : caller[c].pc \in {"search", "resolve", "share", "chain", "store"} =>
         /\ keyFlight[caller[c].table][caller[c].key] = c
         /\ caller[c].pc # "store" => ~Fresh(caller[c].table, caller[c].key)
         /\ caller[c].pc = "chain" => urlFlight[Source(caller[c].key)] = c

=============================================================================
