---------------------------- MODULE RateLimiter -----------------------------
(***************************************************************************)
(* The sliding-window limiter of the catalog clients (ratelimit.go).  A    *)
(* waiter that finds the window full sleeps until the oldest request leaves*)
(* it; several wake together and look again under the mutex.  Each look is *)
(* one step; time passes between the steps.                                *)
(***************************************************************************)
EXTENDS Integers, Sequences

CONSTANTS
    Waiters,
    MaxRequests, Window,
    MaxTime      \* bound: the clock

VARIABLES
    now, timestamps,
    waiter,      \* [pc, until]
    granted      \* history: the times at which slots were given, in order

vars == <<now, timestamps, waiter, granted>>

Idle == [pc |-> "idle", until |-> 0]

Init ==
    /\ now = 0 /\ timestamps = <<>>
    /\ waiter = [w \in Waiters |-> Idle]
    /\ granted = <<>>

\* cleanOldTimestamps: what comes before the first request that is still in the
\* window goes.
InWindow(i) == timestamps[i] + Window > now

Cleaned ==
    {SubSeq(timestamps, k, Len(timestamps)) :
        k \in {k \in 1..(Len(timestamps) + 1) :
                 /\ k <= Len(timestamps) => InWindow(k)
                 /\ \A i \in 1..(k - 1) : ~InWindow(i)}}

Becomes(w, pc, until) == waiter' = [waiter EXCEPT ![w] = [pc |-> pc, until |-> until]]

Call(w) ==
    /\ waiter[w].pc = "idle"
    /\ Becomes(w, "looking", now)
    /\ UNCHANGED <<now, timestamps, granted>>

Take(w, recent) ==
    /\ timestamps' = Append(recent, now)
    /\ granted' = Append(granted, now)
    /\ Becomes(w, "idle", 0)

Look(w) ==
    /\ waiter[w].pc = "looking"
    /\ \E recent \in Cleaned :
          \/ Len(recent) < MaxRequests /\ Take(w, recent)
          \/ /\ Len(recent) >= MaxRequests
             /\ timestamps' = recent
             /\ Becomes(w, "asleep", Head(recent) + Window)
             /\ UNCHANGED granted
    /\ UNCHANGED now

\* Mutant: who has slept takes the slot without looking again.
Wake_Bug(w) ==
    /\ waiter[w].pc = "asleep" /\ now >= waiter[w].until
    /\ \E recent \in Cleaned : Take(w, recent)
    /\ UNCHANGED now

Wake(w) ==
    /\ waiter[w].pc = "asleep" /\ now >= waiter[w].until
    /\ Becomes(w, "looking", now)
    /\ UNCHANGED <<now, timestamps, granted>>

Cancel(w) ==
    /\ waiter[w].pc = "asleep"
    /\ Becomes(w, "idle", 0)
    /\ UNCHANGED <<now, timestamps, granted>>

TryAcquire(w) ==
    /\ waiter[w].pc = "idle"
    /\ \E recent \in Cleaned :
          \/ Len(recent) < MaxRequests /\ Take(w, recent)
          \/ Len(recent) >= MaxRequests /\ timestamps' = recent /\ UNCHANGED <<waiter, granted>>
    /\ UNCHANGED now

Available ==
    /\ timestamps' \in Cleaned
    /\ UNCHANGED <<now, waiter, granted>>

Tick ==
    /\ now < MaxTime /\ now' = now + 1
    /\ UNCHANGED <<timestamps, waiter, granted>>

Next ==
    \/ \E w \in Waiters : Call(w) \/ Look(w) \/ Wake(w) \/ Cancel(w) \/ TryAcquire(w)
    \/ Available \/ Tick

Spec == Init /\ [][Next]_vars

\* "Multiple waiters may wake together, but only the first one that
\* reacquires the mutex can consume the newly available slot": no stretch of
\* time as long as the window has more than MaxRequests grants.
WindowKept ==
    \A i \in DOMAIN granted :
      i > MaxRequests => granted[i] - granted[i - MaxRequests] >= Window

=============================================================================
