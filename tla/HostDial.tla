------------------------------ MODULE HostDial ------------------------------
(***************************************************************************)
(* How a connection to a host is made (dns_doh.go).  The system's resolver *)
(* is asked first; when it fails as a resolver does, DNS over HTTPS is, and*)
(* what that said is remembered.  The addresses are then tried one after   *)
(* the other, each with a head start, and the first connection is taken.   *)
(* One host; an address is [family, private, n].                           *)
(***************************************************************************)
EXTENDS Integers, Sequences, FiniteSets, SequencesExt

CONSTANTS
    Dials,         \* dials of the host
    Answers,       \* what a resolver may answer: sequences of addresses
    Upstreams,     \* DoH resolvers: 1 .. N
    PrivateAllowed,
    TTL, ErrorTTL,
    MaxTime        \* bound: the clock

VARIABLES
    now,
    dohCache,      \* [ips, expires], or expires = 0
    dial,          \* the state of each dial
    attempt        \* what each of its attempts has come to, by their number

vars == <<now, dohCache, dial, attempt>>

Idle == [pc |-> "idle", upstream |-> 0, ordered |-> <<>>, finished |-> 0,
         result |-> 0, cancelled |-> FALSE, draining |-> 0]

Init ==
    /\ now = 0 /\ dohCache = [ips |-> <<>>, expires |-> 0]
    /\ dial = [d \in Dials |-> Idle]
    /\ attempt = [d \in Dials |-> <<>>]

At(d, pc) == dial[d].pc = pc

\* filterDialableIPs: the addresses that may be dialled, in their order.
Dialable(ips) ==
    LET may == {i \in DOMAIN ips : PrivateAllowed \/ ~ips[i].private}
        nth(k) == CHOOSE i \in may : Cardinality({j \in may : j <= i}) = k
    IN [k \in 1 .. Cardinality(may) |-> ips[nth(k)]]

\* interleaveDialIPs: the families by turns, that of the first answer first.
DialOrder(ips) ==
    LET one == SelectSeq(ips, LAMBDA a : a.family = ips[1].family)
        two == SelectSeq(ips, LAMBDA a : a.family # ips[1].family)
        place(i, before, after) == IF i <= Len(after) + before THEN 2 * i - before
                                   ELSE Len(after) + i
    IN [k \in DOMAIN ips |->
           IF \E i \in DOMAIN one : place(i, 1, two) = k
           THEN one[CHOOSE i \in DOMAIN one : place(i, 1, two) = k]
           ELSE two[CHOOSE i \in DOMAIN two : place(i, 0, one) = k]]

\* What begins the race; its first attempt starts at once.
Race(d, ips) ==
    /\ dial' = [dial EXCEPT ![d].pc = "race", ![d].ordered = DialOrder(ips)]
    /\ attempt' = [attempt EXCEPT ![d] = <<"dialling">>]

Fails(d) == dial' = [dial EXCEPT ![d].pc = "ended"] /\ UNCHANGED attempt

Cached == dohCache.expires # 0 /\ now <= dohCache.expires

\* dialWithDoHFallback: the system's resolver answers,
Resolved(d, ips) ==
    /\ At(d, "idle") /\ ips # <<>>
    /\ IF Dialable(ips) = <<>> THEN Fails(d) ELSE Race(d, Dialable(ips))
    /\ UNCHANGED <<now, dohCache>>

\* or fails otherwise than a resolver does,
LookupFails(d) == At(d, "idle") /\ Fails(d) /\ UNCHANGED <<now, dohCache>>

\* or as one: dohResolve.
FallBack(d) ==
    /\ At(d, "idle")
    /\ IF Cached THEN IF dohCache.ips = <<>> THEN Fails(d) ELSE Race(d, dohCache.ips)
       ELSE /\ dial' = [dial EXCEPT ![d].pc = "doh", ![d].upstream = 1]
            /\ UNCHANGED attempt
    /\ UNCHANGED <<now, dohCache>>

\* dohCachePut
Remember(ips) ==
    dohCache' = [ips |-> ips, expires |-> now + IF ips = <<>> THEN ErrorTTL ELSE TTL]

\* An upstream resolver answers: with no usable address it ends the search.
Queried(d, ips) ==
    /\ At(d, "doh") /\ ~dial[d].cancelled
    /\ Remember(Dialable(ips))
    /\ IF Dialable(ips) = <<>> THEN Fails(d) ELSE Race(d, Dialable(ips))
    /\ UNCHANGED now

\* It fails, as every query of a dial that is cancelled does.
QueryFails(d) ==
    /\ At(d, "doh")
    /\ IF dial[d].upstream < Upstreams
       THEN /\ dial' = [dial EXCEPT ![d].upstream = @ + 1]
            /\ UNCHANGED <<attempt, dohCache>>
       ELSE Fails(d) /\ Remember(<<>>)
    /\ UNCHANGED now

Started(d) == Len(attempt[d])

\* The goroutine of an attempt sends its connection, or its error.
AttemptEnds(d, k, outcome) ==
    /\ k \in DOMAIN attempt[d] /\ attempt[d][k] = "dialling"
    /\ outcome \in {"open", "error"}
    /\ attempt' = [attempt EXCEPT ![d][k] = outcome]
    /\ UNCHANGED <<now, dohCache, dial>>

\* The fallback timer, which is set as long as an address is left.
Timer(d) ==
    /\ At(d, "race") /\ Started(d) < Len(dial[d].ordered)
    /\ attempt' = [attempt EXCEPT ![d] = Append(@, "dialling")]
    /\ UNCHANGED <<now, dohCache, dial>>

\* The race takes a connection, and leaves the other results to be drained.
\* Mutant: the one taken is counted among those to be drained.
Connected_Bug(d, k) ==
    /\ At(d, "race") /\ k \in DOMAIN attempt[d] /\ attempt[d][k] = "open"
    /\ dial' = [dial EXCEPT ![d].pc = "ended", ![d].result = k, ![d].finished = @ + 1,
                            ![d].draining = Started(d) - dial[d].finished]
    /\ attempt' = [attempt EXCEPT ![d][k] = "given"]
    /\ UNCHANGED <<now, dohCache>>

Connected(d, k) ==
    /\ At(d, "race") /\ k \in DOMAIN attempt[d] /\ attempt[d][k] = "open"
    /\ dial' = [dial EXCEPT ![d].pc = "ended", ![d].result = k, ![d].finished = @ + 1,
                            ![d].draining = Started(d) - (dial[d].finished + 1)]
    /\ attempt' = [attempt EXCEPT ![d][k] = "given"]
    /\ UNCHANGED <<now, dohCache>>

\* It takes an error; when nothing is under way the next address is tried at
\* once.
Refused(d, k) ==
    /\ At(d, "race") /\ k \in DOMAIN attempt[d] /\ attempt[d][k] = "error"
    /\ LET finished == dial[d].finished + 1
           last == finished = Len(dial[d].ordered)
           taken == [attempt[d] EXCEPT ![k] = "failed"]
       IN /\ dial' = [dial EXCEPT ![d].finished = finished,
                                  ![d].pc = IF last THEN "ended" ELSE @]
          /\ attempt' = [attempt EXCEPT
                           ![d] = IF ~last /\ finished = Started(d)
                                  THEN Append(taken, "dialling") ELSE taken]
    /\ UNCHANGED <<now, dohCache>>

\* Who dials gives up; the race sees it when it next looks.
Cancel(d) ==
    /\ dial[d].pc \in {"doh", "race"} /\ ~dial[d].cancelled
    /\ dial' = [dial EXCEPT ![d].cancelled = TRUE]
    /\ UNCHANGED <<now, dohCache, attempt>>

Cancelled(d) ==
    /\ At(d, "race") /\ dial[d].cancelled
    /\ dial' = [dial EXCEPT ![d].pc = "ended", ![d].draining = Started(d) - dial[d].finished]
    /\ UNCHANGED <<now, dohCache, attempt>>

\* drainDialResults
Drain(d, k) ==
    /\ dial[d].draining > 0 /\ attempt[d][k] \in {"open", "error"}
    /\ dial' = [dial EXCEPT ![d].draining = @ - 1]
    /\ attempt' = [attempt EXCEPT ![d][k] = IF @ = "open" THEN "closed" ELSE "failed"]
    /\ UNCHANGED <<now, dohCache>>

\* The connection is used and given up; the host is dialled again.
Again(d) ==
    /\ At(d, "ended") /\ dial[d].draining = 0
    /\ dial' = [dial EXCEPT ![d] = Idle] /\ attempt' = [attempt EXCEPT ![d] = <<>>]
    /\ UNCHANGED <<now, dohCache>>

Tick ==
    /\ now < MaxTime /\ now' = now + 1
    /\ UNCHANGED <<dohCache, dial, attempt>>

Resolve(d) ==
    \/ \E ips \in Answers : Resolved(d, ips) \/ Queried(d, ips)
    \/ LookupFails(d) \/ FallBack(d) \/ QueryFails(d)

Report(d, k) ==
    \/ \E outcome \in {"open", "error"} : AttemptEnds(d, k, outcome)
    \/ Connected(d, k) \/ Refused(d, k) \/ Drain(d, k)

Next ==
    \/ \E d \in Dials : Resolve(d) \/ Timer(d) \/ Cancel(d) \/ Cancelled(d) \/ Again(d)
    \/ \E d \in Dials : \E k \in DOMAIN attempt[d] : Report(d, k)
    \/ Tick

Spec == Init /\ [][Next]_vars

\* Exactly the attempts whose results nobody has taken are left to be
\* drained when a race is over, so that no connection but the one it gives
\* stays open and nobody waits for a result that will not come; it gives no
\* connection only when every address has been tried and has failed, or when
\* it was cancelled.
RaceAccounted ==
    \A d \in Dials : At(d, "ended") =>
       LET left == {k \in DOMAIN attempt[d] : attempt[d][k] \in {"dialling", "open", "error"}}
           given == {k \in DOMAIN attempt[d] : attempt[d][k] = "given"}
       IN /\ Cardinality(left) = dial[d].draining
          /\ given = {dial[d].result} \ {0}
          /\ given = {} /\ ~dial[d].cancelled =>
               Started(d) = Len(dial[d].ordered) /\ \A k \in DOMAIN attempt[d] :
                                                      attempt[d][k] = "failed"

=============================================================================
