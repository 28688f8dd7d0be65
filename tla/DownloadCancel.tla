--------------------------- MODULE DownloadCancel ---------------------------
(***************************************************************************)
(* The cancellation registry (cancel.go) and the calls that hold its       *)
(* entries: a download (DownloadWithExtensionsJSON) holds its item for as  *)
(* long as it runs, and a provider call or lookup made for the item,       *)
(* inside a download or alone, holds it once more.  The user cancels,      *)
(* resets and retries meanwhile, and the platform cancels all active items *)
(* when it suspends the process.                                           *)
(*                                                                         *)
(* The registry counts the holders of an item's entry and shares one       *)
(* context among them.  A cancel of an item that nobody holds leaves a     *)
(* sentinel, an entry without holders, for an item that is about to start. *)
(***************************************************************************)
EXTENDS Integers, FiniteSets

CONSTANTS
    Ids,         \* items that can be downloaded
    Downloads,   \* threads that run downloads
    Lookups,     \* threads that make provider calls and lookups for an item
    Cancellers,  \* threads that cancel
    Contexts,    \* cancellable contexts
    NoContext    \* the nil context

Calls == Downloads \cup Lookups

ASSUME CallsAssumption == IsFiniteSet(Calls) /\ Downloads \cap Lookups = {}
ASSUME ContextAssumption == NoContext \notin Contexts

VARIABLES
    entries,  \* the registry: an entry for every item, NoEntry if it has none
    dead,     \* the contexts whose cancel function was called
    at,       \* where each call is
    of,       \* the item that each call is for
    ctx,      \* the context that each call got
    item,     \* the item's progress: none, active or completed
    hiding,   \* the items whose progress each canceller has yet to remove
    asked     \* history: was the item cancelled since it was last idle?

registry == <<entries, dead>>
vars == <<entries, dead, at, of, ctx, item, hiding, asked>>

Entry == [ctx : Contexts \cup {NoContext}, canceled : BOOLEAN, refs : Nat]

\* An entry of the map is held or canceled, so this one stands for none.
NoEntry == [ctx |-> NoContext, canceled |-> FALSE, refs |-> 0]

\* Entry e with context x and n holders.
HeldBy(e, x, n) == [ctx |-> x, canceled |-> e.canceled, refs |-> n]

Holders(id) == {c \in Calls : at[c] # "idle" /\ of[c] = id}

\* A context that no entry and no call has any more is garbage, and stands for
\* a new one.
Unused == {x \in Contexts : /\ \A id \in Ids : entries[id].ctx # x
                            /\ \A c \in Calls : at[c] # "idle" => ctx[c] # x}

TypeOK ==
    /\ entries \in [Ids -> Entry]
    /\ dead \in SUBSET Contexts
    /\ at \in [Calls -> {"idle", "begun", "cleared", "running", "ending"}]
    /\ of \in [Calls -> Ids]
    /\ ctx \in [Calls -> Contexts \cup {NoContext}]
    /\ \A c \in Calls : at[c] # "idle" => ctx[c] \in Contexts
    /\ item \in [Ids -> {"none", "active", "completed"}]
    /\ hiding \in [Cancellers -> SUBSET Ids]
    /\ asked \in [Ids -> BOOLEAN]

(***************************************************************************)
(* The registry.                                                           *)
(***************************************************************************)
\* The faulty variants of init: the entry of a sentinel gets no context; a
\* holder does not look for the entry's context.
AcquireNil_Bug(c, id) ==
    /\ ctx' = [ctx EXCEPT ![c] = entries[id].ctx]
    /\ entries' = [entries EXCEPT ![id] = HeldBy(@, @.ctx, @.refs + 1)]
    /\ UNCHANGED dead
AcquireNew_Bug(c, id) ==
    \E x \in Unused :
        /\ ctx' = [ctx EXCEPT ![c] = x]
        /\ entries' = [entries EXCEPT ![id] = HeldBy(@, x, @.refs + 1)]
        /\ dead' = IF entries[id].canceled THEN dead \cup {x} ELSE dead \ {x}

\* init: a first holder, or the first after a sentinel, gets a new context,
\* which the sentinel cancels; a further holder shares the entry's context.
Acquire(c, id) ==
    /\ IF entries[id].ctx # NoContext
       THEN /\ ctx' = [ctx EXCEPT ![c] = entries[id].ctx]
            /\ entries' = [entries EXCEPT ![id] = HeldBy(@, @.ctx, @.refs + 1)]
            /\ UNCHANGED dead
       ELSE \E x \in Unused :
            /\ ctx' = [ctx EXCEPT ![c] = x]
            /\ entries' = [entries EXCEPT ![id] = HeldBy(@, x, @.refs + 1)]
            /\ dead' = IF entries[id].canceled THEN dead \cup {x} ELSE dead \ {x}

Release_Bug(id) == entries' = [entries EXCEPT ![id] = NoEntry]

\* release: the last holder deletes the entry, canceled or not.
Release(id) ==
    entries' = [entries EXCEPT ![id] =
                   IF @.refs > 1 THEN HeldBy(@, @.ctx, @.refs - 1) ELSE NoEntry]

\* requestCancel: marks the entry or leaves a sentinel, and kills the context.
RequestCancel(id) ==
    /\ entries' = [entries EXCEPT ![id].canceled = TRUE]
    /\ dead' = dead \cup ({entries[id].ctx} \ {NoContext})

Active == {id \in Ids : entries[id].refs > 0}

\* requestCancelActive: every entry with live work, and no sentinel.
RequestCancelActive ==
    /\ entries' = [id \in Ids |-> IF id \in Active
                                  THEN [entries[id] EXCEPT !.canceled = TRUE]
                                  ELSE entries[id]]
    /\ dead' = dead \cup ({entries[id].ctx : id \in Active} \ {NoContext})

IsCancelled(id) == entries[id].canceled

(***************************************************************************)
(* Downloads and lookups.                                                  *)
(***************************************************************************)
Begin(c, id) ==
    /\ at[c] = "idle"
    /\ Acquire(c, id)
    /\ at' = [at EXCEPT ![c] = "begun"]
    /\ of' = [of EXCEPT ![c] = id]
    /\ UNCHANGED <<item, hiding, asked>>

\* The first test: a cancelled call returns, the deferred release follows.
CheckStart(c) ==
    /\ at[c] = "begun"
    /\ at' = [at EXCEPT ![c] = IF IsCancelled(of[c]) THEN "ending" ELSE "cleared"]
    /\ UNCHANGED <<entries, dead, of, ctx, item, hiding, asked>>

\* A download shows its item, once more at the start of the fallback.
ShowItem(c) ==
    /\ c \in Downloads
    /\ at[c] \in {"cleared", "running"}
    /\ at' = [at EXCEPT ![c] = "running"]
    /\ item' = [item EXCEPT ![of[c]] = "active"]
    /\ UNCHANGED <<entries, dead, of, ctx, hiding, asked>>

Fail_Bug(c) ==
    /\ c \in Downloads
    /\ at[c] = "running"
    /\ at' = [at EXCEPT ![c] = "ending"]
    /\ item' = [item EXCEPT ![of[c]] = IF IsCancelled(of[c]) THEN @ ELSE "none"]
    /\ UNCHANGED <<entries, dead, of, ctx, hiding, asked>>

\* A download that is cancelled, must be verified or fails hides its item.
Fail(c) ==
    /\ c \in Downloads
    /\ at[c] = "running"
    /\ at' = [at EXCEPT ![c] = "ending"]
    /\ item' = [item EXCEPT ![of[c]] = "none"]
    /\ UNCHANGED <<entries, dead, of, ctx, hiding, asked>>

\* A download succeeds: it was not cancelled when it was tested last, after
\* the transfer, but may be now; a hidden item stays hidden.
Succeed(c) ==
    /\ c \in Downloads
    /\ at[c] = "running"
    /\ at' = [at EXCEPT ![c] = "ending"]
    /\ item' = [item EXCEPT ![of[c]] = IF @ = "none" THEN @ ELSE "completed"]
    /\ UNCHANGED <<entries, dead, of, ctx, hiding, asked>>

\* A provider call or lookup ends: its script returned, failed, or was
\* interrupted by its context.
Return(c) ==
    /\ c \in Lookups
    /\ at[c] = "cleared"
    /\ at' = [at EXCEPT ![c] = "ending"]
    /\ UNCHANGED <<entries, dead, of, ctx, item, hiding, asked>>

End(c) ==
    /\ at[c] = "ending"
    /\ Release(of[c])
    /\ at' = [at EXCEPT ![c] = "idle"]
    /\ asked' = [asked EXCEPT ![of[c]] = @ /\ Holders(of[c]) # {c}]
    /\ UNCHANGED <<dead, of, ctx, item, hiding>>

(***************************************************************************)
(* The user and the platform.                                              *)
(***************************************************************************)
\* cancelDownload and cancelAllActiveDownloads: cancel under the registry's
\* lock, then hide the items, one by one, without it.
Cancel(k, id) ==
    /\ hiding[k] = {}
    /\ RequestCancel(id)
    /\ hiding' = [hiding EXCEPT ![k] = {id}]
    /\ asked' = [asked EXCEPT ![id] = TRUE]
    /\ UNCHANGED <<at, of, ctx, item>>

CancelAllActive(k) ==
    /\ hiding[k] = {}
    /\ RequestCancelActive
    /\ hiding' = [hiding EXCEPT ![k] = Active]
    /\ asked' = [id \in Ids |-> asked[id] \/ Holders(id) # {}]
    /\ UNCHANGED <<at, of, ctx, item>>

HideItem(k, id) ==
    /\ id \in hiding[k]
    /\ item' = [item EXCEPT ![id] = "none"]
    /\ hiding' = [hiding EXCEPT ![k] = @ \ {id}]
    /\ UNCHANGED <<entries, dead, at, of, ctx, asked>>

Reset_Bug(id) ==
    /\ entries' = [entries EXCEPT ![id].canceled = FALSE]
    /\ asked' = [asked EXCEPT ![id] = @ /\ Holders(id) # {}]
    /\ UNCHANGED <<dead, at, of, ctx, item, hiding>>

\* resetIfIdle: the user retries an item; a sentinel goes, an entry with
\* holders stays.
Reset(id) ==
    /\ entries' = [entries EXCEPT ![id] = IF @.refs <= 0 THEN NoEntry ELSE @]
    /\ asked' = [asked EXCEPT ![id] = @ /\ Holders(id) # {}]
    /\ UNCHANGED <<dead, at, of, ctx, item, hiding>>

\* ClearItemProgress: the host takes an item off the screen.
ClearItem(id) ==
    /\ item' = [item EXCEPT ![id] = "none"]
    /\ UNCHANGED <<entries, dead, at, of, ctx, hiding, asked>>

(***************************************************************************)
(* The specification.                                                      *)
(***************************************************************************)
Init ==
    /\ entries = [id \in Ids |-> NoEntry]
    /\ dead = {}
    /\ at = [c \in Calls |-> "idle"]
    /\ of \in [Calls -> Ids]
    /\ ctx = [c \in Calls |-> NoContext]
    /\ item = [id \in Ids |-> "none"]
    /\ hiding = [k \in Cancellers |-> {}]
    /\ asked = [id \in Ids |-> FALSE]

Call(c) ==
    \/ \E id \in Ids : Begin(c, id)
    \/ CheckStart(c)
    \/ ShowItem(c)
    \/ Fail(c)
    \/ Succeed(c)
    \/ Return(c)
    \/ End(c)

Canceller(k) ==
    \/ \E id \in Ids : Cancel(k, id) \/ HideItem(k, id)
    \/ CancelAllActive(k)

Next ==
    \/ \E c \in Calls : Call(c)
    \/ \E k \in Cancellers : Canceller(k)
    \/ \E id \in Ids : Reset(id) \/ ClearItem(id)

Spec == Init /\ [][Next]_vars

(***************************************************************************)
(* Properties.                                                             *)
(***************************************************************************)
\* An entry lives exactly as long as a call holds it: its count is the number
\* of calls that hold the item, whoever cancels or resets it meanwhile.
HoldersCounted == \A id \in Ids : entries[id].refs = Cardinality(Holders(id))

\* All calls for an item share one context, so that one cancel stops the
\* download and the provider call inside it; calls for two items never do.
ContextShared ==
    \A c, d \in Calls :
        (at[c] # "idle" /\ at[d] # "idle") => (of[c] = of[d] <=> ctx[c] = ctx[d])

\* A cancel reaches exactly the calls it is meant for: a call sees itself
\* cancelled, by the flag and by its context, if and only if somebody has
\* cancelled the item since it was last idle; no reset takes that back while
\* a call runs, and no old cancel stops a fresh one.
CancelExact ==
    /\ \A id \in Ids : IsCancelled(id) <=> asked[id]
    /\ \A c \in Calls : at[c] # "idle" => (ctx[c] \in dead <=> asked[of[c]])

\* An item is shown as active only while a download of it runs: no way out of
\* a download, cancelled or not, leaves its item on the screen.
NoGhostItem ==
    \A id \in Ids : item[id] = "active" =>
        \E c \in Downloads : at[c] = "running" /\ of[c] = id

=============================================================================
