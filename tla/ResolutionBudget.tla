-------------------------- MODULE ResolutionBudget --------------------------
(***************************************************************************)
(* The time a provider's resolver may take (extension_resolution_budget.go)*)
(* The allowance is spent while the script works.  Native transfers pause  *)
(* it, resolver work that runs beside a paused transfer charges it, and any*)
(* number of both may overlap.  A timer cancels the operation when the rest*)
(* has been spent; a timer that was stopped too late finds that its        *)
(* generation is over.  Times are ticks; every call is one critical section*)
(***************************************************************************)
EXTENDS Integers, FiniteSets

CONSTANTS
    Workers,     \* goroutines that pause or charge
    Allowance,
    None,        \* no timer
    MaxTime,     \* bound: the clock
    MaxGeneration \* bound: generations after which nobody pauses or charges

VARIABLES
    now, remaining, started,
    timer,       \* the armed timer's deadline, or None
    firing,      \* generations whose callback has begun and awaits the mutex
    generation, pauses, charges, stopped,
    cancelled,   \* is the context done?
    worker,      \* what each worker holds: "none", "pause", "charge" or,
                 \* when the budget was over, "nothing"
    spent        \* history: ticks the resolver has worked

budget == <<remaining, started, timer, generation, pauses, charges, stopped, cancelled>>
vars == <<now, budget, firing, worker, spent>>

Init ==
    /\ now = 0 /\ remaining = Allowance /\ started = 0
    /\ timer = Allowance /\ firing = {} /\ generation = 1
    /\ pauses = 0 /\ charges = 0 /\ stopped = FALSE /\ cancelled = FALSE
    /\ worker = [w \in Workers |-> "none"]
    /\ spent = 0

Over == stopped \/ cancelled

Holds(w, what) == worker' = [worker EXCEPT ![w] = what]

Arm ==
    /\ started' = now
    /\ generation' = generation + 1
    /\ timer' = now + remaining
    /\ UNCHANGED <<remaining, cancelled>>

\* The timer is stopped and what has run is taken off; nothing left cancels.
Disarm ==
    /\ timer' = None
    /\ generation' = generation + 1
    /\ remaining' = IF now - started >= remaining THEN 0 ELSE remaining - (now - started)
    /\ cancelled' = (remaining' = 0)
    /\ UNCHANGED started

Keep == UNCHANGED <<remaining, started, timer, generation, cancelled>>

Pause(w) ==
    /\ worker[w] = "none" /\ generation < MaxGeneration
    /\ IF Over THEN Holds(w, "nothing") /\ UNCHANGED <<budget>>
       ELSE /\ IF pauses = 0 /\ charges = 0 THEN Disarm ELSE Keep
            /\ IF cancelled' THEN Holds(w, "nothing") /\ UNCHANGED pauses
               ELSE Holds(w, "pause") /\ pauses' = pauses + 1
            /\ UNCHANGED <<charges, stopped>>
    /\ UNCHANGED <<now, firing, spent>>

Resume(w) ==
    /\ worker[w] = "pause" /\ Holds(w, "none")
    /\ pauses' = pauses - 1
    /\ IF pauses' = 0 /\ charges = 0 /\ ~Over THEN Arm ELSE Keep
    /\ UNCHANGED <<now, firing, charges, stopped, spent>>

Charge(w) ==
    /\ worker[w] = "none" /\ generation < MaxGeneration
    /\ IF Over THEN Holds(w, "nothing") /\ UNCHANGED <<budget>>
       ELSE /\ IF charges = 0 /\ pauses > 0 THEN Arm ELSE Keep
            /\ Holds(w, "charge") /\ charges' = charges + 1
            /\ UNCHANGED <<pauses, stopped>>
    /\ UNCHANGED <<now, firing, spent>>

\* Mutant: the end of the last charge leaves the timer of a paused budget.
EndCharge_Bug(w) ==
    /\ worker[w] = "charge" /\ Holds(w, "none")
    /\ charges' = charges - 1
    /\ Keep
    /\ UNCHANGED <<now, firing, pauses, stopped, spent>>

EndCharge(w) ==
    /\ worker[w] = "charge" /\ Holds(w, "none")
    /\ charges' = charges - 1
    /\ IF charges' = 0 /\ pauses > 0 /\ ~Over THEN Disarm ELSE Keep
    /\ UNCHANGED <<now, firing, pauses, stopped, spent>>

\* The release of what was taken when the budget was over.
EndNothing(w) ==
    /\ worker[w] = "nothing" /\ Holds(w, "none")
    /\ UNCHANGED <<now, budget, firing, spent>>

\* The timer's goroutine starts, and gets the mutex later.
Expire ==
    /\ timer # None /\ now >= timer
    /\ timer' = None
    /\ firing' = firing \cup {generation}
    /\ UNCHANGED <<now, remaining, started, generation, pauses, charges, stopped, cancelled,
                   worker, spent>>

Fire(g) ==
    /\ g \in firing /\ firing' = firing \ {g}
    /\ IF stopped \/ (pauses > 0 /\ charges = 0) \/ generation # g
       THEN UNCHANGED budget
       ELSE /\ remaining' = 0 /\ cancelled' = TRUE
            /\ UNCHANGED <<started, timer, generation, pauses, charges, stopped>>
    /\ UNCHANGED <<now, worker, spent>>

Stop ==
    /\ ~stopped /\ stopped' = TRUE /\ cancelled' = TRUE
    /\ generation' = generation + 1 /\ timer' = None
    /\ UNCHANGED <<now, remaining, started, pauses, charges, firing, worker, spent>>

\* Does resolver work go on: somebody charges, or nobody is paused?
Working ==
    (\E w \in Workers : worker[w] = "charge") \/ \A w \in Workers : worker[w] # "pause"

Tick ==
    /\ now < MaxTime /\ now' = now + 1
    /\ spent' = IF Working /\ ~Over THEN spent + 1 ELSE spent
    /\ UNCHANGED <<budget, firing, worker>>

Next ==
    \/ \E w \in Workers : Pause(w) \/ Resume(w) \/ Charge(w) \/ EndCharge(w) \/ EndNothing(w)
    \/ Expire \/ (\E g \in firing : Fire(g)) \/ Stop \/ Tick

Spec == Init /\ [][Next]_vars

\* remainingTime, for a budget that is not over.
RemainingTime == remaining - (IF pauses = 0 \/ charges > 0 THEN now - started ELSE 0)

\* Resolver work is charged exactly once however pauses and charges overlap,
\* and transfers are free: what remains is the allowance less the ticks of
\* work, and an operation is not timed out before it has spent all of it.
ChargedExactly ==
    ~stopped => /\ ~cancelled => RemainingTime = Allowance - spent
                /\ cancelled => spent >= Allowance

\* While work goes on the end of the allowance is guarded: a timer runs, or
\* its callback is about to run, for the moment the rest will be spent.
Guarded ==
    ~Over /\ Working => timer = started + remaining \/ generation \in firing

=============================================================================
