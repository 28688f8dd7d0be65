---------------------------- MODULE SignedSession ----------------------------
(***************************************************************************)
(* The signed-session coordinator of the Go backend                        *)
(* (src/go_backend/extension_signed_session.go).                           *)
(*                                                                         *)
(* Several extension runtimes share ONE persisted session record and ONE   *)
(* in-memory coordinator.  Each runtime runs at most one script call at a  *)
(* time: a signed request (signedSession.fetch), a download preflight, the *)
(* exchange of a verification grant (signedSession.completeGrant) or an    *)
(* explicit clear.  The coordinator mutex is released during every HTTP    *)
(* exchange, so each reply is applied to a state that other runtimes may   *)
(* have changed in the meantime.                                           *)
(*                                                                         *)
(* A stretch of code between taking and releasing the mutex is one action. *)
(* Only the verification subroutine, which is entered with the mutex held  *)
(* and releases it half-way, names the holder in `mu'.  A session is the   *)
(* number of the server reply that issued it: equal numbers are equal      *)
(* (SessionID, SessionSecret) pairs.                                       *)
(***************************************************************************)
EXTENDS Integers, FiniteSets

CONSTANTS
    Runtimes,            \* extension runtimes: the concurrent callers
    Extensions,          \* extension ids
    ExtOf,               \* the extension each runtime executes
    Grants, NoGrant,     \* one-time grants handed over by the callback
    Nobody,              \* `mu' when the mutex is free
    MaxExchangeAttempts, \* signedSessionExchangeMaxAttempts
    MaxSessionRetries,   \* signedSessionMaxSessionRetries
    MaxProviderRetries,  \* signedSessionMaxProviderRetries
    MaxOps,              \* bound: script calls, over all runtimes
    MaxSessions,         \* bound: sessions the server issues
    MaxChallenges,       \* bound: challenges (and OAuth requests) created
    MaxClears,           \* bound: explicit clears
    MaxEvents            \* bound: failing saves, restarts, clock and host events

ASSUME ConstantsOK ==
    /\ ExtOf \in [Runtimes -> Extensions]
    /\ NoGrant \notin Grants
    /\ Nobody \notin Runtimes
    /\ MaxExchangeAttempts \in Nat \ {0}
    /\ MaxSessionRetries \in Nat
    /\ MaxProviderRetries \in Nat
    /\ MaxOps \in Nat
    /\ MaxSessions \in Nat \ {0}
    /\ MaxChallenges \in Nat
    /\ MaxClears \in Nat
    /\ MaxEvents \in Nat

None == 0   \* no session, no challenge

VARIABLES
    \* The persisted record and the coordinator that all runtimes share.
    file,            \* [gen |-> session or None, exp |-> its age]
    mu,              \* holder of coordinator.mu across the verification steps
    clearGeneration,
    completedGrant,  \* completedGrantHash
    blocked,         \* blockedGeneration
    challenge,       \* authURL / callbackState / challengeCreatedAt
    holders,         \* pendingExtensionIDs
    exchangeBusy,    \* exchangeInFlight
    bootstrap,       \* bootstrapInFlight, bootstrapDone (a number), bootstrapErr
    refresh,         \* the same three fields of the coalesced refresh
    \* Process-wide registries with locks of their own.
    pendingAuth,     \* pendingAuthRequests: extension -> challenge
    pendingGrant,    \* pendingSignedSessionGrants: extension -> grant
    lapsed,          \* challenges older than pendingAuthRequestTTL
    \* What each runtime is executing.
    pc, call,
    \* Numbers handed out so far, and the budgets that bound the model.
    issued, challenges, ops, events,
    \* History: what really happened.  Only properties read these.
    clears,          \* explicit clears that took effect
    origin,          \* session -> call[r].asked of the call that obtained it
    revoked,         \* sessions the gateway answered SESSION_INVALID for
    redeemed,        \* grant -> the session stored for it by this process
    oauth            \* pending requests registered by the OAuth flow

coordVars   == <<clearGeneration, completedGrant, blocked>>
chalVars    == <<challenge, holders, pendingAuth>>
flightVars  == <<exchangeBusy, bootstrap, refresh>>
idVars      == <<lapsed, challenges, oauth>>
issueVars   == <<issued, origin>>
budgetVars  == <<ops, events>>
truthVars   == <<clears, revoked, redeemed>>

vars == <<file, mu, coordVars, chalVars, flightVars, pendingGrant, idVars, pc,
          call, issueVars, budgetVars, truthVars>>

Sessions   == 0 .. MaxSessions
Challenges == 0 .. MaxChallenges
Ages       == {"fresh", "due", "expired"}  \* ExpiresAt far, within the skew, past
NoSession  == [gen |-> None, exp |-> "fresh"]

Idle        == "idle"
ExchangePCs == {"exchange_check", "exchange_http", "exchange_release"}
VerifyPCs   == {"verify", "verified"}      \* the runtime holds mu
PCs == {Idle, "exchange_wait", "grant_forget", "grant_clear", "bootstrap_http",
        "bootstrap_wait", "refresh", "refresh_http", "refresh_wait",
        "refreshed", "request"} \cup ExchangePCs \cup VerifyPCs

\* Return points of the verification subroutine, and what it returned.
Returns == {"ensure", "blocked", "refresh", "response", "preflight"}
Results == {"none", "url", "err"}

NoCall == [grant |-> NoGrant, rec |-> None, base |-> None, began |-> 0,
           ret |-> "ensure", result |-> "none", waitOn |-> 0, tries |-> 0,
           session |-> 0, provider |-> 0, auth |-> FALSE,
           asked |-> [clears |-> 0, over |-> None]]

Knowledge == [clears : Nat, over : Sessions]

\* The locals of a call: the grant it exchanges; the session it signed with
\* (fetch) or read before its HTTP phase (rec, base); the clearGeneration it read
\* (began); where verification returns to and what it returned; the flight it
\* waits for; its retry counters; and, as history, what it knew when it left.
Call == [grant : Grants \cup {NoGrant}, rec : Sessions, base : Sessions,
         began : Nat, ret : Returns, result : Results, waitOn : Nat,
         tries : 0 .. MaxExchangeAttempts, session : 0 .. MaxSessionRetries,
         provider : 0 .. MaxProviderRetries, auth : BOOLEAN,
         asked : Knowledge]

Flight == [busy : BOOLEAN, num : Nat, err : BOOLEAN]
Record == [gen : Sessions, exp : Ages]

CoordinatorTypeOK ==
    /\ file \in Record
    /\ mu \in Runtimes \cup {Nobody}
    /\ clearGeneration \in Nat
    /\ completedGrant \in Grants \cup {NoGrant}
    /\ blocked \in Sessions
    /\ exchangeBusy \in BOOLEAN
    /\ bootstrap \in Flight
    /\ refresh \in Flight

ChallengeTypeOK ==
    /\ challenge \in Challenges
    /\ holders \subseteq Extensions
    /\ pendingAuth \in [Extensions -> Challenges]
    /\ pendingGrant \in [Extensions -> Grants \cup {NoGrant}]
    /\ lapsed \subseteq Challenges
    /\ challenges \in Challenges
    /\ oauth \subseteq Challenges

CallTypeOK ==
    /\ pc \in [Runtimes -> PCs]
    /\ call \in [Runtimes -> Call]

CountTypeOK ==
    /\ issued \in Sessions
    /\ ops \in 0 .. MaxOps
    /\ events \in 0 .. MaxEvents
    /\ clears \in Nat
    /\ origin \in [Sessions -> Knowledge]
    /\ revoked \subseteq Sessions
    /\ redeemed \in [Grants -> Sessions]

TypeOK == CoordinatorTypeOK /\ ChallengeTypeOK /\ CallTypeOK /\ CountTypeOK

-----------------------------------------------------------------------------
(* Predicates and updates the operations share.  An operator whose name ends in
   "_Bug" is a deliberate mistake that no specification uses: replacing the
   definition after it by that mistake makes a property fail. *)

\* signedSessionRecordIsUsable
Usable(f) == f.gen # None /\ f.exp # "expired"

\* generationIsBlocked
IsBlocked(f) == f.gen # None /\ f.gen = blocked

\* signedSessionRefreshDue (the refresh endpoint is configured)
RefreshDue(f) == f.gen # None /\ f.exp = "due"

\* activeChallenge
ActiveChallenge == challenge # None /\ challenge \notin lapsed
DroppedPending_Bug == pendingAuth   \* forgets pendingExtensionIDs

\* ClearPendingAuthRequest for every member of pendingExtensionIDs
DroppedPending ==
    [e \in Extensions |-> IF e \in holders THEN None ELSE pendingAuth[e]]

ClearChallenge ==
    /\ challenge' = None
    /\ holders' = {}
    /\ pendingAuth' = DroppedPending

\* saveSignedSession: os.WriteFile truncates in place, so a failing save leaves
\* the old record or an unreadable file, which loads as a record without session.
Save(f) == file' = f /\ UNCHANGED events
SaveFails ==
    /\ events < MaxEvents
    /\ events' = events + 1
    /\ file' \in {file, NoSession}

\* The server's reply to runtime r issues a new session.
Issued == [gen |-> issued + 1, exp |-> "fresh"]
ServerIssues(r) ==
    /\ issued < MaxSessions
    /\ issued' = issued + 1
    /\ origin' = [origin EXCEPT ![issued + 1] = call[r].asked]

\* History: what a call knows as it leaves the mutex for an HTTP exchange whose
\* reply it will apply.
Asking == [clears |-> clears, over |-> file.gen]

GoTo(r, label) == pc' = [pc EXCEPT ![r] = label]
Finish(r) == GoTo(r, Idle) /\ call' = [call EXCEPT ![r] = NoCall]

MutexFree == mu = Nobody
Lock(r) == mu' = r
Unlock == mu' = Nobody

Begins(r) ==
    /\ pc[r] = Idle
    /\ ops < MaxOps
    /\ ops' = ops + 1

-----------------------------------------------------------------------------
(* signedSession.completeGrant: exchange a one-time grant for a session. *)

\* The script passes the grant, or takes the one the host left for it.
StartCompleteGrant(r) ==
    LET e == ExtOf[r] IN
    /\ Begins(r)
    /\ MutexFree
    /\ \E g \in Grants :
        /\ \/ pendingGrant' = [pendingGrant EXCEPT ![e] = g]
           \/ pendingGrant[e] = g /\ UNCHANGED pendingGrant
        /\ call' = [call EXCEPT ![r].grant = g, ![r].began = clearGeneration]
    /\ GoTo(r, "exchange_wait")
    /\ UNCHANGED <<file, mu, coordVars, chalVars, flightVars, idVars, issueVars,
                   events, truthVars>>

BeginExchange_Bug(r) ==              \* does not wait for the owner
    /\ pc[r] = "exchange_wait"
    /\ MutexFree
    /\ exchangeBusy' = TRUE
    /\ GoTo(r, "exchange_check")
    /\ UNCHANGED <<file, mu, coordVars, chalVars, bootstrap, refresh,
                   pendingGrant, idVars, call, issueVars, budgetVars,
                   truthVars>>

BeginExchange(r) ==
    /\ pc[r] = "exchange_wait"
    /\ MutexFree
    /\ ~exchangeBusy
    /\ exchangeBusy' = TRUE
    /\ GoTo(r, "exchange_check")
    /\ UNCHANGED <<file, mu, coordVars, chalVars, bootstrap, refresh,
                   pendingGrant, idVars, call, issueVars, budgetVars,
                   truthVars>>

\* The exchange context expires, or the operation is cancelled, in the queue.
ExchangeWaitCancelled(r) ==
    /\ pc[r] = "exchange_wait"
    /\ exchangeBusy
    /\ Finish(r)
    /\ UNCHANGED <<file, mu, coordVars, chalVars, flightVars, pendingGrant,
                   idVars, issueVars, budgetVars, truthVars>>

ExchangeEnds(r, res) ==
    /\ GoTo(r, "exchange_release")
    /\ call' = [call EXCEPT ![r].result = res]

\* The shared state already holds what this call would obtain: adopt it.
AdoptShared(r) ==
    /\ blocked' = None
    /\ ClearChallenge
    /\ ExchangeEnds(r, "none")
    /\ UNCHANGED <<clearGeneration, completedGrant>>

\* The reply answers a request that was sent before the last clear.
Superseded_Bug(r) == FALSE           \* does not compare the generations
Superseded(r) == clearGeneration # call[r].began

AlreadyCompleted_Bug(r) == FALSE     \* does not remember the grant
AlreadyCompleted(r) == completedGrant = call[r].grant /\ Usable(file)

\* First critical section of exchangeSignedSessionGrantLocked.
ExchangeCheck(r) ==
    /\ pc[r] = "exchange_check"
    /\ MutexFree
    /\ \/ /\ Superseded(r)
          /\ ExchangeEnds(r, "err")
          /\ UNCHANGED <<coordVars, chalVars>>
       \/ /\ ~Superseded(r)
          /\ AlreadyCompleted(r)
          /\ AdoptShared(r)
       \/ /\ ~Superseded(r)
          /\ ~AlreadyCompleted(r)
          /\ call' = [call EXCEPT ![r].rec = file.gen, ![r].tries = 1,
                                  ![r].asked = Asking]
          /\ GoTo(r, "exchange_http")
          /\ UNCHANGED <<coordVars, chalVars>>
    /\ UNCHANGED <<file, mu, flightVars, pendingGrant, idVars, issueVars,
                   budgetVars, truthVars>>

ExchangeRateLimited_Bug(r) ==        \* attempt <= max
    /\ pc[r] = "exchange_http"
    /\ call[r].tries <= MaxExchangeAttempts
    /\ call' = [call EXCEPT ![r].tries = @ + 1]
    /\ UNCHANGED <<file, mu, coordVars, chalVars, flightVars, pendingGrant,
                   idVars, pc, issueVars, budgetVars, truthVars>>

\* HTTP 429: wait for Retry-After and post the same grant again.
ExchangeRateLimited(r) ==
    /\ pc[r] = "exchange_http"
    /\ call[r].tries < MaxExchangeAttempts
    /\ call' = [call EXCEPT ![r].tries = @ + 1]
    /\ UNCHANGED <<file, mu, coordVars, chalVars, flightVars, pendingGrant,
                   idVars, pc, issueVars, budgetVars, truthVars>>

\* Network error, refused grant, incomplete reply, last 429, or cancellation.
ExchangeFails(r) ==
    /\ pc[r] = "exchange_http"
    /\ ExchangeEnds(r, "err")
    /\ UNCHANGED <<file, mu, coordVars, chalVars, flightVars, pendingGrant,
                   idVars, issueVars, budgetVars, truthVars>>

\* Second critical section: the server issued a session for the grant.
StoreExchanged(r) ==
    \/ /\ Save(Issued)
       /\ completedGrant' = call[r].grant
       /\ blocked' = None
       /\ ClearChallenge
       /\ ExchangeEnds(r, "none")
       /\ redeemed' = [redeemed EXCEPT ![call[r].grant] = issued + 1]
       /\ UNCHANGED clearGeneration
    \/ /\ SaveFails
       /\ ExchangeEnds(r, "err")
       /\ UNCHANGED <<coordVars, chalVars, redeemed>>

NewerThan_Bug(gen) == FALSE          \* does not reload the record
NewerThan(gen) == Usable(file) /\ file.gen # gen

ExchangeReply(r) ==
    /\ pc[r] = "exchange_http"
    /\ MutexFree
    /\ ServerIssues(r)
    /\ \/ /\ Superseded(r)
          /\ ExchangeEnds(r, "err")
          /\ UNCHANGED <<file, events, coordVars, chalVars, redeemed>>
       \/ /\ ~Superseded(r)
          /\ AlreadyCompleted(r) \/ NewerThan(call[r].rec)
          /\ AdoptShared(r)
          /\ UNCHANGED <<file, events, redeemed>>
       \/ /\ ~Superseded(r)
          /\ ~AlreadyCompleted(r)
          /\ ~NewerThan(call[r].rec)
          /\ StoreExchanged(r)
    /\ UNCHANGED <<mu, flightVars, pendingGrant, idVars, ops, clears,
                   revoked>>

\* The deferred release: let the next queued exchange in.
ExchangeRelease(r) ==
    /\ pc[r] = "exchange_release"
    /\ MutexFree
    /\ exchangeBusy' = FALSE
    /\ IF call[r].result = "none"
       THEN GoTo(r, "grant_forget") /\ UNCHANGED call
       ELSE Finish(r)
    /\ UNCHANGED <<file, mu, coordVars, chalVars, bootstrap, refresh,
                   pendingGrant, idVars, issueVars, budgetVars,
                   truthVars>>

ForgetGrant(r) ==
    /\ pc[r] = "grant_forget"
    /\ pendingGrant' = [pendingGrant EXCEPT ![ExtOf[r]] = NoGrant]
    /\ GoTo(r, "grant_clear")
    /\ UNCHANGED <<file, mu, coordVars, chalVars, flightVars, idVars, call,
                   issueVars, budgetVars, truthVars>>

ForgetPendingAuth(r) ==
    /\ pc[r] = "grant_clear"
    /\ pendingAuth' = [pendingAuth EXCEPT ![ExtOf[r]] = None]
    /\ Finish(r)
    /\ UNCHANGED <<file, mu, coordVars, challenge, holders, flightVars,
                   pendingGrant, idVars, issueVars, budgetVars,
                   truthVars>>

-----------------------------------------------------------------------------
(* signedSession.clear *)

ClearSession(r) ==
    /\ clears < MaxClears
    /\ Begins(r)
    /\ MutexFree
    /\ \/ /\ Save(NoSession)
          /\ clearGeneration' = clearGeneration + 1
          /\ completedGrant' = NoGrant
          /\ blocked' = None
          /\ challenge' = None
          /\ holders' = {}
          /\ pendingAuth' = [DroppedPending EXCEPT ![ExtOf[r]] = None]
          /\ clears' = clears + 1
       \/ /\ SaveFails
          /\ UNCHANGED <<coordVars, chalVars, clears>>
    /\ UNCHANGED <<mu, flightVars, pendingGrant, idVars, pc, call, issueVars,
                   revoked, redeemed>>

-----------------------------------------------------------------------------
(* startSignedSessionVerificationLocked: entered and left with mu held. *)

Verify(r, point) ==
    /\ Lock(r)
    /\ GoTo(r, "verify")
    /\ call' = [call EXCEPT ![r].ret = point]

Verified(r, res) ==
    /\ GoTo(r, "verified")
    /\ call' = [call EXCEPT ![r].result = res]

\* A live shared challenge is registered for this extension as well.
VerifyReuse(r) ==
    /\ pc[r] = "verify"
    /\ ActiveChallenge
    /\ pendingAuth' = [pendingAuth EXCEPT ![ExtOf[r]] = challenge]
    /\ holders' = holders \cup {ExtOf[r]}
    /\ Verified(r, "url")
    /\ UNCHANGED <<file, mu, coordVars, challenge, flightVars, pendingGrant,
                   idVars, issueVars, budgetVars, truthVars>>

\* The extension has a live pending request the coordinator does not know.
VerifyAdopt(r) ==
    LET e == ExtOf[r]  p == DroppedPending[e] IN
    /\ pc[r] = "verify"
    /\ ~ActiveChallenge
    /\ p # None /\ p \notin lapsed
    /\ challenge' = p
    /\ holders' = {e}
    /\ pendingAuth' = DroppedPending
    /\ Verified(r, "url")
    /\ UNCHANGED <<file, mu, coordVars, flightVars, pendingGrant, idVars,
                   issueVars, budgetVars, truthVars>>

\* No challenge to show: the session is good, or someone is bootstrapping, or
\* this call starts a bootstrap and releases the mutex for its HTTP exchange.
VerifyFresh(r) ==
    LET e == ExtOf[r]
        p == DroppedPending[e]
        good == Usable(file) /\ ~IsBlocked(file)
    IN
    /\ pc[r] = "verify"
    /\ ~ActiveChallenge
    /\ p = None \/ p \in lapsed
    /\ challenge' = None
    /\ holders' = {}
    /\ pendingAuth' = [DroppedPending EXCEPT ![e] = None]
    /\ \/ /\ good
          /\ Verified(r, "none")
          /\ UNCHANGED <<mu, bootstrap>>
       \/ /\ ~good
          /\ bootstrap.busy
          /\ call' = [call EXCEPT ![r].waitOn = bootstrap.num]
          /\ GoTo(r, "bootstrap_wait")
          /\ Unlock
          /\ UNCHANGED <<bootstrap>>
       \/ /\ ~good
          /\ ~bootstrap.busy
          /\ bootstrap' = [busy |-> TRUE, num |-> bootstrap.num + 1, err |-> FALSE]
          /\ call' = [call EXCEPT ![r].base = file.gen,
                                  ![r].began = clearGeneration,
                                  ![r].asked = Asking]
          /\ GoTo(r, "bootstrap_http")
          /\ Unlock
    /\ UNCHANGED <<file, coordVars, exchangeBusy, refresh, pendingGrant, idVars,
                   issueVars, budgetVars, truthVars>>

BootstrapLands_Bug(r, failed) ==     \* a failed bootstrap is never closed
    /\ pc[r] = "bootstrap_http"
    /\ MutexFree
    /\ Lock(r)
    /\ bootstrap' = [bootstrap EXCEPT !.busy = failed, !.err = failed]
    /\ UNCHANGED <<clearGeneration, completedGrant, exchangeBusy, refresh,
                   pendingGrant, ops, truthVars>>

\* The bootstrap owner takes the mutex again; every outcome closes the flight.
BootstrapLands(r, failed) ==
    /\ pc[r] = "bootstrap_http"
    /\ MutexFree
    /\ Lock(r)
    /\ bootstrap' = [bootstrap EXCEPT !.busy = FALSE, !.err = failed]
    /\ UNCHANGED <<clearGeneration, completedGrant, exchangeBusy, refresh,
                   pendingGrant, ops, truthVars>>

BootstrapFails(r) ==
    /\ BootstrapLands(r, TRUE)
    /\ Verified(r, "err")
    /\ UNCHANGED <<file, events, blocked, chalVars, idVars, issueVars>>

\* Another call stored a good session while this one was bootstrapping.
Overtaken(r) == NewerThan(call[r].base) /\ ~IsBlocked(file)

\* The reply carries a session, issued without asking the user.
BootstrapSession(r) ==
    /\ ServerIssues(r)
    /\ \/ /\ Superseded(r)
          /\ BootstrapLands(r, TRUE)
          /\ Verified(r, "err")
          /\ UNCHANGED <<file, events, blocked, chalVars>>
       \/ /\ ~Superseded(r)
          /\ Overtaken(r)
          /\ BootstrapLands(r, FALSE)
          /\ ClearChallenge
          /\ Verified(r, "none")
          /\ UNCHANGED <<file, events, blocked>>
       \/ /\ ~Superseded(r)
          /\ ~Overtaken(r)
          /\ Save(Issued)
          /\ BootstrapLands(r, FALSE)
          /\ blocked' = None
          /\ ClearChallenge
          /\ Verified(r, "none")
       \/ /\ ~Superseded(r)
          /\ ~Overtaken(r)
          /\ SaveFails
          /\ BootstrapLands(r, TRUE)
          /\ Verified(r, "err")
          /\ UNCHANGED <<blocked, chalVars>>
    /\ UNCHANGED idVars

\* The reply carries a challenge the user has to solve.
BootstrapChallenge(r) ==
    /\ challenges < MaxChallenges
    /\ challenges' = challenges + 1
    /\ \/ /\ Superseded(r)
          /\ BootstrapLands(r, TRUE)
          /\ Verified(r, "err")
          /\ UNCHANGED chalVars
       \/ /\ ~Superseded(r)
          /\ Overtaken(r)
          /\ BootstrapLands(r, FALSE)
          /\ ClearChallenge
          /\ Verified(r, "none")
       \/ /\ ~Superseded(r)
          /\ ~Overtaken(r)
          /\ BootstrapLands(r, FALSE)
          /\ pendingAuth' = [pendingAuth EXCEPT ![ExtOf[r]] = challenges + 1]
          /\ challenge' = challenges + 1
          /\ holders' = holders \cup {ExtOf[r]}
          /\ Verified(r, "url")
    /\ UNCHANGED <<file, events, blocked, issueVars, lapsed, oauth>>

\* The bootstrap this call waits for has ended: share its error, or look again.
BootstrapWake(r) ==
    /\ pc[r] = "bootstrap_wait"
    /\ ~(bootstrap.busy /\ bootstrap.num = call[r].waitOn)
    /\ MutexFree
    /\ Lock(r)
    /\ IF bootstrap.num = call[r].waitOn /\ bootstrap.err
       THEN Verified(r, "err")
       ELSE GoTo(r, "verify") /\ UNCHANGED call
    /\ UNCHANGED <<file, coordVars, chalVars, flightVars, pendingGrant, idVars,
                   issueVars, budgetVars, truthVars>>

BootstrapWaitCancelled(r) ==
    /\ pc[r] = "bootstrap_wait"
    /\ MutexFree
    /\ Lock(r)
    /\ Verified(r, "err")
    /\ UNCHANGED <<file, coordVars, chalVars, flightVars, pendingGrant, idVars,
                   issueVars, budgetVars, truthVars>>

-----------------------------------------------------------------------------
(* signedSession.fetch and the download preflight. *)

\* The next HTTP request of the call is signed with the stored session.
SignWith(r, change) ==
    /\ call' = [call EXCEPT ![r] = change]
    /\ GoTo(r, "request")

Preflight(r) ==
    /\ Begins(r)
    /\ MutexFree
    /\ \/ /\ Usable(file) /\ ~IsBlocked(file)
          /\ UNCHANGED <<mu, pc, call>>
       \/ /\ ~(Usable(file) /\ ~IsBlocked(file))
          /\ Verify(r, "preflight")
    /\ UNCHANGED <<file, coordVars, chalVars, flightVars, pendingGrant, idVars,
                   issueVars, events, truthVars>>

\* ensureSignedSession erases an expired session, then the blocked check.
StartFetch(r) ==
    /\ Begins(r)
    /\ MutexFree
    /\ \/ /\ ~Usable(file)
          /\ IF file.gen = None THEN UNCHANGED <<file, events>>
                                ELSE Save(NoSession) \/ SaveFails
          /\ Verify(r, "ensure")
       \/ /\ Usable(file) /\ IsBlocked(file)
          /\ Verify(r, "blocked")
          /\ UNCHANGED <<file, events>>
       \/ /\ Usable(file) /\ ~IsBlocked(file)
          /\ IF RefreshDue(file)
             THEN GoTo(r, "refresh") /\ UNCHANGED call
             ELSE SignWith(r, [call[r] EXCEPT !.rec = file.gen])
          /\ UNCHANGED <<file, events, mu>>
    /\ UNCHANGED <<coordVars, chalVars, flightVars, pendingGrant, idVars,
                   issueVars, truthVars>>

\* The verification subroutine returns to its caller, which releases mu.
AfterVerify(r) ==
    LET c == call[r]
        silent == c.result = "none" /\ Usable(file)
    IN
    /\ pc[r] = "verified"
    /\ Unlock
    /\ \/ /\ c.ret = "blocked" /\ silent /\ ~IsBlocked(file)
          /\ IF RefreshDue(file)
             THEN GoTo(r, "refresh") /\ UNCHANGED call
             ELSE SignWith(r, [c EXCEPT !.rec = file.gen])
       \/ /\ c.ret = "response" /\ silent /\ file.gen # c.rec
          /\ c.session < MaxSessionRetries
          /\ SignWith(r, [c EXCEPT !.rec = file.gen, !.session = @ + 1])
       \/ /\ ~(c.ret = "blocked" /\ silent /\ ~IsBlocked(file))
          /\ ~(c.ret = "response" /\ silent /\ file.gen # c.rec
               /\ c.session < MaxSessionRetries)
          /\ Finish(r)
    /\ UNCHANGED <<file, coordVars, chalVars, flightVars, pendingGrant, idVars,
                   issueVars, budgetVars, truthVars>>

\* A reply that leaves the session alone: success, an ordinary error, a network
\* error, or a provider error after the last retry (or a cancelled wait).
RequestDone(r) ==
    /\ pc[r] = "request"
    /\ Finish(r)
    /\ UNCHANGED <<file, mu, coordVars, chalVars, flightVars, pendingGrant,
                   idVars, issueVars, budgetVars, truthVars>>

\* 503 PROVIDER_UNAVAILABLE with retry_mode same_operation.
ProviderUnavailable(r) ==
    /\ pc[r] = "request"
    /\ call[r].provider < MaxProviderRetries
    /\ SignWith(r, [call[r] EXCEPT !.provider = @ + 1])
    /\ UNCHANGED <<file, mu, coordVars, chalVars, flightVars, pendingGrant,
                   idVars, issueVars, budgetVars, truthVars>>

\* 403 REQUEST_AUTH_INVALID: retry once if a newer session is stored.
RequestAuthInvalid(r) ==
    LET c == call[r] IN
    /\ pc[r] = "request"
    /\ MutexFree
    /\ IF ~c.auth /\ NewerThan(c.rec)
       THEN SignWith(r, [c EXCEPT !.rec = file.gen, !.auth = TRUE])
       ELSE Finish(r)
    /\ UNCHANGED <<file, mu, coordVars, chalVars, flightVars, pendingGrant,
                   idVars, issueVars, budgetVars, truthVars>>

\* 401 SESSION_INVALID or 428 VERIFY_REQUIRED for a session that has been
\* replaced: retry with its replacement, within the session budget.
StaleReply(r) ==
    LET c == call[r] IN
    /\ NewerThan(c.rec)
    /\ IF c.session < MaxSessionRetries
       THEN SignWith(r, [c EXCEPT !.rec = file.gen, !.session = @ + 1])
       ELSE Finish(r)
    /\ UNCHANGED <<file, mu, blocked, events>>

StoredIs(gen) == file.gen # None /\ file.gen = gen

SessionInvalid(r) ==
    /\ pc[r] = "request"
    /\ MutexFree
    /\ revoked' = revoked \cup {call[r].rec}
    /\ \/ StaleReply(r)
       \/ /\ ~NewerThan(call[r].rec)
          /\ StoredIs(call[r].rec)
          /\ blocked' = None
          /\ \/ Save(NoSession) /\ Verify(r, "response")
             \/ SaveFails /\ Finish(r) /\ UNCHANGED mu
       \/ /\ ~NewerThan(call[r].rec)
          /\ ~StoredIs(call[r].rec)
          /\ Verify(r, "response")
          /\ UNCHANGED <<file, events, blocked>>
    /\ UNCHANGED <<clearGeneration, completedGrant, chalVars, flightVars,
                   pendingGrant, idVars, issueVars, ops, clears, redeemed>>

VerifyRequired_Bug(r) ==             \* takes the demand for a revocation
    /\ pc[r] = "request"
    /\ MutexFree
    /\ \/ StaleReply(r)
       \/ /\ ~NewerThan(call[r].rec)
          /\ Save(NoSession)
          /\ Verify(r, "response")
          /\ UNCHANGED blocked
    /\ UNCHANGED <<clearGeneration, completedGrant, chalVars, flightVars,
                   pendingGrant, idVars, issueVars, ops, truthVars>>

VerifyRequired(r) ==
    /\ pc[r] = "request"
    /\ MutexFree
    /\ \/ StaleReply(r)
       \/ /\ ~NewerThan(call[r].rec)
          /\ blocked' = IF StoredIs(call[r].rec) THEN call[r].rec ELSE blocked
          /\ Verify(r, "response")
          /\ UNCHANGED <<file, events>>
    /\ UNCHANGED <<clearGeneration, completedGrant, chalVars, flightVars,
                   pendingGrant, idVars, issueVars, ops, truthVars>>

-----------------------------------------------------------------------------
(* refreshSignedSessionCoalesced and the check after it. *)

StartRefresh(r) ==
    /\ pc[r] = "refresh"
    /\ MutexFree
    /\ \/ /\ ~RefreshDue(file)
          /\ GoTo(r, "refreshed")
          /\ UNCHANGED <<call, refresh>>
       \/ /\ RefreshDue(file) /\ refresh.busy
          /\ call' = [call EXCEPT ![r].waitOn = refresh.num]
          /\ GoTo(r, "refresh_wait")
          /\ UNCHANGED <<refresh>>
       \/ /\ RefreshDue(file) /\ ~refresh.busy
          /\ refresh' = [busy |-> TRUE, num |-> refresh.num + 1, err |-> FALSE]
          /\ call' = [call EXCEPT ![r].base = file.gen,
                                  ![r].began = clearGeneration,
                                  ![r].asked = Asking]
          /\ GoTo(r, "refresh_http")
    /\ UNCHANGED <<file, mu, coordVars, chalVars, exchangeBusy, bootstrap,
                   pendingGrant, idVars, issueVars, budgetVars, truthVars>>

RefreshLands(r, failed) ==
    /\ pc[r] = "refresh_http"
    /\ MutexFree
    /\ refresh' = [refresh EXCEPT !.busy = FALSE, !.err = failed]
    /\ GoTo(r, "refreshed")
    /\ UNCHANGED <<mu, coordVars, chalVars, exchangeBusy, bootstrap,
                   pendingGrant, idVars, call, ops, truthVars>>

RefreshFails(r) ==
    /\ RefreshLands(r, TRUE)
    /\ UNCHANGED <<file, events, issueVars>>

\* The record a successful refresh would store over the one it refreshed: a
\* new session, or the same one with a later expiry.
RefreshStores(r, new) ==
    \/ /\ Superseded(r)
       /\ RefreshLands(r, TRUE)
       /\ UNCHANGED <<file, events>>
    \/ /\ ~Superseded(r)
       /\ ~StoredIs(call[r].base)
       /\ RefreshLands(r, FALSE)
       /\ UNCHANGED <<file, events>>
    \/ /\ ~Superseded(r)
       /\ StoredIs(call[r].base)
       /\ Save(new)
       /\ RefreshLands(r, FALSE)
    \/ /\ ~Superseded(r)
       /\ StoredIs(call[r].base)
       /\ SaveFails
       /\ RefreshLands(r, TRUE)

RefreshRotates(r) == ServerIssues(r) /\ RefreshStores(r, Issued)

RefreshExtends(r) ==
    /\ RefreshStores(r, [gen |-> call[r].base, exp |-> "fresh"])
    /\ UNCHANGED issueVars

RefreshWake(r) ==
    /\ pc[r] = "refresh_wait"
    /\ ~(refresh.busy /\ refresh.num = call[r].waitOn)
    /\ MutexFree
    /\ GoTo(r, IF refresh.num = call[r].waitOn /\ refresh.err
               THEN "refreshed" ELSE "refresh")
    /\ UNCHANGED <<file, mu, coordVars, chalVars, flightVars, pendingGrant,
                   idVars, call, issueVars, budgetVars, truthVars>>

RefreshWaitCancelled(r) ==
    /\ pc[r] = "refresh_wait"
    /\ GoTo(r, "refreshed")
    /\ UNCHANGED <<file, mu, coordVars, chalVars, flightVars, pendingGrant,
                   idVars, call, issueVars, budgetVars, truthVars>>

\* A failed refresh is only logged: what counts is the record stored now.
AfterRefresh(r) ==
    /\ pc[r] = "refreshed"
    /\ MutexFree
    /\ IF Usable(file) /\ ~IsBlocked(file)
       THEN /\ SignWith(r, [call[r] EXCEPT !.rec = file.gen])
            /\ UNCHANGED mu
       ELSE Verify(r, "refresh")
    /\ UNCHANGED <<file, coordVars, chalVars, flightVars, pendingGrant, idVars,
                   issueVars, budgetVars, truthVars>>

-----------------------------------------------------------------------------
(* The host application, the clock and process restarts. *)

Event == events < MaxEvents /\ events' = events + 1

\* SetExtensionSessionGrantByID
HostSetsGrant(e, g) ==
    /\ Event
    /\ pendingGrant[e] # g
    /\ pendingGrant' = [pendingGrant EXCEPT ![e] = g]
    /\ UNCHANGED <<file, mu, coordVars, chalVars, flightVars, idVars, pc, call,
                   issueVars, ops, truthVars>>

\* ClearExtensionPendingAuthByID
HostClearsPendingAuth(e) ==
    /\ Event
    /\ pendingAuth[e] # None
    /\ pendingAuth' = [pendingAuth EXCEPT ![e] = None]
    /\ UNCHANGED <<file, mu, coordVars, challenge, holders, flightVars,
                   pendingGrant, idVars, pc, call, issueVars, ops,
                   truthVars>>

\* auth.openAuthUrl and the PKCE flow register in the same table.
RegisterOAuth(e) ==
    /\ Event
    /\ challenges < MaxChallenges
    /\ challenges' = challenges + 1
    /\ oauth' = oauth \cup {challenges + 1}
    /\ pendingAuth' = [pendingAuth EXCEPT ![e] = challenges + 1]
    /\ UNCHANGED <<file, mu, coordVars, challenge, holders, flightVars,
                   pendingGrant, lapsed, pc, call, issueVars, ops,
                   truthVars>>

AgeSession ==
    /\ Event
    /\ file.gen # None
    /\ \/ file.exp = "fresh" /\ file' = [file EXCEPT !.exp = "due"]
       \/ file.exp = "due" /\ file' = [file EXCEPT !.exp = "expired"]
    /\ UNCHANGED <<mu, coordVars, chalVars, flightVars, pendingGrant, idVars,
                   pc, call, issueVars, ops, truthVars>>

LapseChallenge(c) ==
    /\ Event
    /\ c \in {challenge} \cup {pendingAuth[e] : e \in Extensions}
    /\ c # None /\ c \notin lapsed
    /\ lapsed' = lapsed \cup {c}
    /\ UNCHANGED <<file, mu, coordVars, chalVars, flightVars, pendingGrant,
                   challenges, oauth, pc, call, issueVars, ops,
                   truthVars>>

\* The process dies, perhaps while it rewrites the file, and starts again.
Restart ==
    /\ SaveFails
    /\ mu' = Nobody
    /\ clearGeneration' = 0
    /\ completedGrant' = NoGrant
    /\ blocked' = None
    /\ challenge' = None
    /\ holders' = {}
    /\ exchangeBusy' = FALSE
    /\ bootstrap' = [busy |-> FALSE, num |-> 0, err |-> FALSE]
    /\ refresh' = [busy |-> FALSE, num |-> 0, err |-> FALSE]
    /\ pendingAuth' = [e \in Extensions |-> None]
    /\ pendingGrant' = [e \in Extensions |-> NoGrant]
    /\ pc' = [r \in Runtimes |-> Idle]
    /\ call' = [r \in Runtimes |-> NoCall]
    /\ redeemed' = [g \in Grants |-> None]
    /\ UNCHANGED <<idVars, issueVars, ops, clears, revoked>>

-----------------------------------------------------------------------------
Init ==
    /\ \/ file = NoSession /\ issued = 0
       \/ \E age \in Ages : file = [gen |-> 1, exp |-> age] /\ issued = 1
    /\ mu = Nobody
    /\ clearGeneration = 0
    /\ completedGrant = NoGrant
    /\ blocked = None
    /\ challenge = None
    /\ holders = {}
    /\ exchangeBusy = FALSE
    /\ bootstrap = [busy |-> FALSE, num |-> 0, err |-> FALSE]
    /\ refresh = [busy |-> FALSE, num |-> 0, err |-> FALSE]
    /\ pendingAuth = [e \in Extensions |-> None]
    /\ pendingGrant = [e \in Extensions |-> NoGrant]
    /\ lapsed = {}
    /\ pc = [r \in Runtimes |-> Idle]
    /\ call = [r \in Runtimes |-> NoCall]
    /\ challenges = 0
    /\ ops = 0
    /\ events = 0
    /\ clears = 0
    /\ origin = [s \in Sessions |-> [clears |-> 0, over |-> None]]
    /\ revoked = {}
    /\ redeemed = [g \in Grants |-> None]
    /\ oauth = {}

Starts(r) ==
    StartCompleteGrant(r) \/ ClearSession(r) \/ Preflight(r) \/ StartFetch(r)

Cancels(r) ==
    \/ ExchangeWaitCancelled(r) \/ BootstrapWaitCancelled(r)
    \/ RefreshWaitCancelled(r)

\* What a started call does next, on its own or when its HTTP reply arrives.
Proceeds(r) ==
    \/ BeginExchange(r) \/ ExchangeCheck(r) \/ ExchangeRateLimited(r)
    \/ ExchangeFails(r) \/ ExchangeReply(r) \/ ExchangeRelease(r)
    \/ ForgetGrant(r) \/ ForgetPendingAuth(r)
    \/ VerifyReuse(r) \/ VerifyAdopt(r) \/ VerifyFresh(r)
    \/ BootstrapFails(r) \/ BootstrapSession(r) \/ BootstrapChallenge(r)
    \/ BootstrapWake(r) \/ AfterVerify(r)
    \/ RequestDone(r) \/ ProviderUnavailable(r) \/ RequestAuthInvalid(r)
    \/ SessionInvalid(r) \/ VerifyRequired(r)
    \/ StartRefresh(r) \/ RefreshFails(r) \/ RefreshRotates(r)
    \/ RefreshExtends(r) \/ RefreshWake(r) \/ AfterRefresh(r)

HostOf(e) ==
    \/ HostClearsPendingAuth(e) \/ RegisterOAuth(e)
    \/ \E g \in Grants : HostSetsGrant(e, g)

Next ==
    \/ \E r \in Runtimes : Starts(r) \/ Cancels(r) \/ Proceeds(r)
    \/ \E e \in Extensions : HostOf(e)
    \/ AgeSession
    \/ \E c \in Challenges : LapseChallenge(c)
    \/ Restart

Spec == Init /\ [][Next]_vars

\* HTTP clients have timeouts and sync.Mutex is starvation-free: every started
\* call keeps proceeding.  Nothing obliges a call to begin, the clock to run, or
\* a wait to be cancelled.
FairSpec == Spec /\ \A r \in Runtimes : WF_vars(Proceeds(r))

-----------------------------------------------------------------------------
(* Properties *)

\* Parallel runtimes never run two exchanges, two bootstraps or two refreshes
\* at once (beginExchange, bootstrapInFlight, refreshInFlight), and the flag
\* that keeps the others out is up for as long as the owner is out on HTTP.
SingleFlight ==
    /\ \A r \in Runtimes :
        /\ pc[r] \in ExchangePCs => exchangeBusy
        /\ pc[r] = "bootstrap_http" => bootstrap.busy
        /\ pc[r] = "refresh_http" => refresh.busy
    /\ \A r, s \in Runtimes :
        \/ r = s
        \/ /\ ~(pc[r] \in ExchangePCs /\ pc[s] \in ExchangePCs)
           /\ ~(pc[r] = "bootstrap_http" /\ pc[s] = "bootstrap_http")
           /\ ~(pc[r] = "refresh_http" /\ pc[s] = "refresh_http")

\* "A response that started before this explicit clear must never resurrect the
\* just-cleared credentials": whichever call obtained the stored session went
\* out to the server after the last clear.
NoResurrection == file.gen # None => origin[file.gen].clears = clears

\* "Never overwrite that newer shared session with a stale response": a usable,
\* unblocked session is replaced only by a call that saw that very session
\* when it went out to the server.
NewerSessionKept ==
    [][ (Usable(file) /\ ~IsBlocked(file) /\ file'.gen \notin {None, file.gen})
        => origin'[file'.gen].over = file.gen ]_vars

\* "Only SESSION_INVALID is allowed to clear the current gateway session": the
\* stored session is erased only by a clear, by its expiry, by a failing save or
\* after the gateway has declared that same session invalid, never by a reply
\* about a session it has replaced.
OnlyInvalidErased ==
    [][ (file.gen # None /\ file'.gen = None)
        => \/ file.exp = "expired"
           \/ file.gen \in revoked'
           \/ clears' # clears
           \/ events' # events ]_vars

\* "Reusers must register the exact same challenge identity": a verification
\* request pending for an extension is the coordinator's current challenge, so a
\* user is never left solving one that the coordinator has dropped or replaced.
ChallengeShared ==
    \A e \in Extensions :
        pendingAuth[e] \notin oauth \cup {None}
            => e \in holders /\ pendingAuth[e] = challenge

\* "Treat that exact shared result as completed instead of consuming the grant
\* again": no call posts a grant whose session is stored and usable.
GrantNotReplayed ==
    [][ \A r \in Runtimes :
            (pc[r] = "exchange_check" /\ pc'[r] = "exchange_http")
            => ~(Usable(file) /\ file.gen = redeemed[call[r].grant]) ]_vars

\* Every call ends: nobody waits for a flight that was never closed or for a
\* mutex that was never released, and no retry loop goes on for ever.
CallsFinish == \A r \in Runtimes : pc[r] # Idle ~> pc[r] = Idle

\* "Stop subsequent requests from repeatedly hitting the gateway with a
\* generation that is known to require human verification": a call that switches
\* to another stored session does not switch to the blocked one.
NoRetryWithBlocked ==
    [][ \A r \in Runtimes :
            (/\ pc[r] = "request" /\ pc'[r] = "request"
             /\ call'[r].rec # call[r].rec)
            => call'[r].rec # blocked ]_vars

=============================================================================
