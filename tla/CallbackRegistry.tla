-------------------------- MODULE CallbackRegistry --------------------------
(***************************************************************************)
(* The registry of pending authorisation requests (extension_runtime.go):  *)
(* the page an extension waits for is identified by a random callback      *)
(* state.  The state of an OAuth page belongs to one extension; that of a  *)
(* verification page is registered by every extension that shares the      *)
(* signed session, and the first of them owns it.  A callback is accepted  *)
(* for the owner if the request is younger than pendingAuthRequestTTL.     *)
(*                                                                         *)
(* The host reads, checks and clears a request in separate steps, while    *)
(* the runtimes of the extensions register new ones.                       *)
(***************************************************************************)
EXTENDS FiniteSets

CONSTANTS
    Exts,        \* extensions
    Challenges,  \* callback states of verification pages
    OAuthStates, \* callback states of OAuth pages
    Hosts,       \* host threads
    NoState,     \* no request
    NoExt        \* no owner

States == Challenges \cup OAuthStates

ASSUME NoStateAssumption == NoState \notin States
ASSUME NoExtAssumption == NoExt \notin Exts

VARIABLES
    req,      \* the state each extension waits for: pendingAuthRequests
    owner,    \* the extension each state resolves to: pendingAuthStates
    minted,   \* the random states generated so far
    lapsed,   \* the states whose request is older than the TTL
    checked,  \* the extension whose request each host thread found lapsed
    open      \* history: states registered since their last accepted callback

vars == <<req, owner, minted, lapsed, checked, open>>

TypeOK ==
    /\ req \in [Exts -> States \cup {NoState}]
    /\ owner \in [States -> Exts \cup {NoExt}]
    /\ minted \in SUBSET States
    /\ lapsed \in SUBSET minted
    /\ checked \in [Hosts -> Exts \cup {NoExt}]
    /\ open \in SUBSET minted

Waiting(s, requests) == {e \in Exts : requests[e] = s}

Registry == [req : [Exts -> States \cup {NoState}],
             owner : [States -> Exts \cup {NoExt}]]

Set(registry) == req' = registry.req /\ owner' = registry.owner

\* Faulty variant: nobody inherits the state of the removed request.
Removed_Bug(e) ==
    {[req   |-> [req EXCEPT ![e] = NoState],
      owner |-> [s \in States |-> IF s = req[e] /\ owner[s] = e THEN NoExt
                                  ELSE owner[s]]]}

\* removePendingAuthRequestLocked: the registry without the request of e; an
\* extension with a live request for the same state, any of them, inherits it.
Removed(e) ==
    LET s == req[e]
        rest == [req EXCEPT ![e] = NoState]
        heirs == IF s \in lapsed THEN {} ELSE Waiting(s, rest)
    IN IF s = NoState \/ owner[s] # e
       THEN {[req |-> rest, owner |-> owner]}
       ELSE {[req |-> rest, owner |-> [owner EXCEPT ![s] = heir]] :
                heir \in IF heirs = {} THEN {NoExt} ELSE heirs}

\* Faulty variant: the state moves to the extension that registers it last.
Registered_Bug(e, s, registry) ==
    [req   |-> [registry.req EXCEPT ![e] = s],
     owner |-> [registry.owner EXCEPT ![s] = e]]

\* The registry with the request of e for s: the owner of s, if any, stays.
Registered(e, s, registry) ==
    [req   |-> [registry.req EXCEPT ![e] = s],
     owner |-> [registry.owner EXCEPT ![s] = IF @ = NoExt THEN e ELSE @]]

\* registerPendingAuthRequest: refused if the state is registered to another
\* extension with another challenge; takes the place of the previous request
\* of e, which goes first when it has another state.
Register(e, s) ==
    /\ owner[s] \in {NoExt, e} \cup Waiting(s, req)
    /\ \E registry \in IF req[e] \in {NoState, s}
                       THEN {[req |-> req, owner |-> owner]} ELSE Removed(e) :
          Set(Registered(e, s, registry))
    /\ open' = open \cup {s}

(***************************************************************************)
(* The extensions' runtimes.                                               *)
(***************************************************************************)
\* authOpenUrl, authStartOAuthWithPKCE and the reply of a session bootstrap
\* register a page with a new random state.
NewRequest(e, s) ==
    /\ s \notin minted
    /\ minted' = minted \cup {s}
    /\ Register(e, s)
    /\ UNCHANGED <<lapsed, checked>>

\* Faulty variant: a challenge is shared before the gateway has answered.
ShareChallenge_Bug(e, s) ==
    /\ s \in Challenges \ lapsed
    /\ Register(e, s)
    /\ UNCHANGED <<minted, lapsed, checked>>

\* startSignedSessionVerificationLocked: another extension of the session, or
\* the same one again, registers the coordinator's active challenge.
ShareChallenge(e, s) ==
    /\ s \in (Challenges \cap minted) \ lapsed
    /\ Register(e, s)
    /\ UNCHANGED <<minted, lapsed, checked>>

\* A script, a clear of the session or an exchanged grant clears the request.
ClearRequest(e) ==
    /\ \E registry \in Removed(e) : Set(registry)
    /\ UNCHANGED <<minted, lapsed, checked, open>>

Lapse(s) ==
    /\ s \in minted \ lapsed
    /\ lapsed' = lapsed \cup {s}
    /\ UNCHANGED <<req, owner, minted, checked, open>>

(***************************************************************************)
(* The host.                                                               *)
(***************************************************************************)
\* removePendingAuthStateLocked: the state and every request for it.
Dropped(s) ==
    [req   |-> [e \in Exts |-> IF req[e] = s THEN NoState ELSE req[e]],
     owner |-> [owner EXCEPT ![s] = NoExt]]

\* resolveExtensionCallbackStateLocked accepts the callback of s.
Accepts(s) == owner[s] # NoExt /\ req[owner[s]] = s /\ s \notin lapsed

\* A callback that is not accepted takes out what is left of its state.
Reject(s) ==
    /\ s \in minted
    /\ ~Accepts(s)
    /\ Set(Dropped(s))
    /\ UNCHANGED <<minted, lapsed, checked, open>>

\* Faulty variant: only the owner's request is consumed.
Consume_Bug(s) ==
    /\ Accepts(s)
    /\ \E registry \in Removed(owner[s]) : Set(registry)
    /\ open' = open \ {s}
    /\ UNCHANGED <<minted, lapsed, checked>>

\* ConsumeExtensionCallbackState: accepts the callback once for all requests.
Consume(s) ==
    /\ Accepts(s)
    /\ Set(Dropped(s))
    /\ open' = open \ {s}
    /\ UNCHANGED <<minted, lapsed, checked>>

\* ensureExtensionPendingAuthRequest reads the request and finds it lapsed ...
FindLapsed(h, e) ==
    /\ checked[h] = NoExt
    /\ req[e] \in lapsed
    /\ checked' = [checked EXCEPT ![h] = e]
    /\ UNCHANGED <<req, owner, minted, lapsed, open>>

\* ... and clears the request of the extension, under a lock of its own.
ClearLapsed(h) ==
    /\ checked[h] # NoExt
    /\ \E registry \in Removed(checked[h]) : Set(registry)
    /\ checked' = [checked EXCEPT ![h] = NoExt]
    /\ UNCHANGED <<minted, lapsed, open>>

(***************************************************************************)
(* The specification.                                                      *)
(***************************************************************************)
Init ==
    /\ req = [e \in Exts |-> NoState]
    /\ owner = [s \in States |-> NoExt]
    /\ minted = {}
    /\ lapsed = {}
    /\ checked = [h \in Hosts |-> NoExt]
    /\ open = {}

Next ==
    \/ \E e \in Exts : ClearRequest(e) \/ \E s \in States : NewRequest(e, s)
    \/ \E e \in Exts, s \in Challenges : ShareChallenge(e, s)
    \/ \E s \in States : Lapse(s) \/ Reject(s) \/ Consume(s)
    \/ \E h \in Hosts : ClearLapsed(h) \/ \E e \in Exts : FindLapsed(h, e)

Spec == Init /\ [][Next]_vars

(***************************************************************************)
(* Properties.                                                             *)
(***************************************************************************)
\* A state resolves to an extension that waits for it, and to none only if
\* nobody waits for it or the request has lapsed: whoever gives up, replaces
\* or shares a request, the page the user completes finds its extension.
ResolvesLive ==
    \A s \in States :
        /\ owner[s] # NoExt => req[owner[s]] = s
        /\ (s \notin lapsed /\ Waiting(s, req) # {}) => owner[s] # NoExt

\* A callback state is accepted at most once, by whichever of the extensions
\* that share it: after that only a new registration makes it valid again.
AcceptedOnce == \A s \in States : Accepts(s) => s \in open

\* The owner of a state changes only when its request goes: registering a
\* shared challenge never takes a callback away from the extension it is for.
OwnerStays ==
    [][\A s \in States : owner[s] # NoExt =>
          (owner'[s] = owner[s] \/ req'[owner[s]] # s)]_vars

=============================================================================
