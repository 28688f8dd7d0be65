---------------------------- MODULE LyricsSearch ----------------------------
(***************************************************************************)
(* The race of the lyrics providers (lyrics.go, lyrics_config.go).  Each   *)
(* provider that is not cooling down gets a goroutine, of which a few run  *)
(* at a time.  The search takes the first provider of the user's order that*)
(* has lyrics; when a later one has answered it gives the earlier ones a   *)
(* grace and then makes do.  Providers are numbered in the user's order.   *)
(* This is one search; the others, which share only the health of the      *)
(* providers with it, are what Elsewhere does to that health.              *)
(***************************************************************************)
EXTENDS Naturals, FiniteSets

CONSTANTS
    Providers,     \* 1 .. N
    Parallelism, Cooldown,
    MaxTime        \* bound: the clock

VARIABLES
    now,
    unavailable,   \* lyricsProviderHealth: until when, 0 for never
    worker,        \* what the goroutine of each provider does
    outcome,       \* what each provider has said: "lyrics", "nothing", ...
    search         \* [pc, tested, candidates, received, best, graced]

vars == <<now, unavailable, worker, outcome, search>>

Init ==
    /\ now = 0
    /\ unavailable = [p \in Providers |-> 0]
    /\ worker = [p \in Providers |-> "none"]
    /\ outcome = [p \in Providers |-> "none"]
    /\ search = [pc |-> "testing", tested |-> {}, candidates |-> {}, received |-> {},
                 best |-> 0, graced |-> FALSE]

\* shouldSkipLyricsProvider
Skipped(p) == now < unavailable[p]

Moves(p, pc) == worker' = [worker EXCEPT ![p] = pc]

\* One provider after the other is skipped or given a goroutine, while those
\* before it may be running.
Test(p) ==
    /\ search.pc = "testing" /\ p \notin search.tested
    /\ \A q \in Providers : q < p => q \in search.tested
    /\ LET s == [search EXCEPT !.tested = @ \cup {p},
                              !.candidates = IF Skipped(p) THEN @ ELSE @ \cup {p}]
       IN search' = [s EXCEPT !.pc = IF s.tested # Providers THEN "testing"
                                     ELSE IF s.candidates = {} THEN "ended" ELSE "collecting"]
    /\ IF Skipped(p) THEN UNCHANGED worker ELSE Moves(p, "queued")
    /\ UNCHANGED <<now, unavailable, outcome>>

\* The search's context is cancelled when it has ended.
Run(p) ==
    /\ worker[p] = "queued"
    /\ \/ /\ Cardinality({q \in Providers : worker[q] = "running"}) < Parallelism
          /\ Moves(p, IF search.pc = "ended" THEN "over" ELSE "running")
       \/ search.pc = "ended" /\ Moves(p, "over")
    /\ UNCHANGED <<now, unavailable, outcome, search>>

\* A result that comes when the search is over is dropped.
Sends(p, what) ==
    /\ worker[p] = "running"
    /\ outcome' = [outcome EXCEPT ![p] = what]
    /\ Moves(p, IF search.pc = "ended" THEN "over" ELSE "sent")

\* markLyricsProviderAvailable
HasLyrics(p) ==
    /\ Sends(p, "lyrics")
    /\ unavailable' = [unavailable EXCEPT ![p] = 0]
    /\ UNCHANGED <<now, search>>

\* Not found under any name of the song, unusable or, after the end,
\* cancelled: says nothing of the provider.
HasNone(p) ==
    /\ Sends(p, "nothing")
    /\ UNCHANGED <<now, unavailable, search>>

\* markLyricsProviderUnavailable
Fails(p) ==
    /\ Sends(p, "unavailable")
    /\ unavailable' = [unavailable EXCEPT ![p] = now + Cooldown]
    /\ UNCHANGED <<now, search>>

PendingEarlier(s) == \E c \in s.candidates \ s.received : c < s.best

\* One turn of the collecting loop.  Mutant: a result with lyrics replaces
\* one that the user prefers.
Receive_Bug(p) ==
    /\ search.pc = "collecting" /\ worker[p] = "sent"
    /\ Moves(p, "over")
    /\ LET s == [search EXCEPT !.received = @ \cup {p},
                               !.best = IF outcome[p] = "lyrics" THEN p ELSE @]
       IN search' = IF s.received = s.candidates \/ (s.best # 0 /\ ~PendingEarlier(s))
                    THEN [s EXCEPT !.pc = "ended"] ELSE s
    /\ UNCHANGED <<now, unavailable, outcome>>

Receive(p) ==
    /\ search.pc = "collecting" /\ worker[p] = "sent"
    /\ Moves(p, "over")
    /\ LET s == [search EXCEPT !.received = @ \cup {p},
                   !.best = IF outcome[p] = "lyrics" /\ (@ = 0 \/ p < @) THEN p ELSE @]
       IN search' = IF s.received = s.candidates \/ (s.best # 0 /\ ~PendingEarlier(s))
                    THEN [s EXCEPT !.pc = "ended"] ELSE s
    /\ UNCHANGED <<now, unavailable, outcome>>

GraceOver ==
    /\ search.pc = "collecting" /\ search.best # 0
    /\ search' = [search EXCEPT !.pc = "ended", !.graced = TRUE]
    /\ UNCHANGED <<now, unavailable, worker, outcome>>

\* Another search has marked the provider, or SetLyricsProviderOrder forgets
\* who is unavailable.
Elsewhere(p) ==
    /\ \E until \in {0, now + Cooldown} : unavailable' = [unavailable EXCEPT ![p] = until]
    /\ UNCHANGED <<now, worker, outcome, search>>

Tick ==
    /\ now < MaxTime /\ now' = now + 1
    /\ UNCHANGED <<unavailable, worker, outcome, search>>

Work(p) == Test(p) \/ Run(p) \/ HasLyrics(p) \/ HasNone(p) \/ Fails(p) \/ Receive(p)

Next == GraceOver \/ Tick \/ \E p \in Providers : Work(p) \/ Elsewhere(p)

Spec == Init /\ [][Next]_vars

\* The lyrics a search gives are those of the provider that the user prefers
\* among all that have any, unless the grace is over, and then among those
\* it has heard of; it gives none only when everybody it asked has none; and
\* no more than Parallelism providers are asked at a time.
PreferredFirst ==
    /\ search.pc = "ended" =>
         LET heard == {p \in IF search.graced THEN search.received
                             ELSE {q \in Providers : search.best = 0 \/ q <= search.best} :
                         outcome[p] = "lyrics"}
         IN IF search.best = 0 THEN heard = {}
            ELSE search.best \in heard /\ \A p \in heard : search.best <= p
    /\ Cardinality({p \in Providers : worker[p] = "running"}) <= Parallelism

=============================================================================
