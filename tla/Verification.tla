---------------------------- MODULE Verification ----------------------------
(***************************************************************************)
(* The app's side of signed-session verification (GoBackend.kt, Extension- *)
(* VerificationActivity.kt, OnlineDownloadResolver.kt).  A download whose  *)
(* extension demands verification waits on a latch, its own or that of a   *)
(* verification already pending for the extension, while the user solves   *)
(* the page in a WebView.  The page's callback, on the main thread, hands  *)
(* the grant to Go, has it exchanged, asks Go whether the extension is     *)
(* authenticated, and releases the latch.                                  *)
(*                                                                         *)
(* The main thread handles one callback at a time, but the downloads time  *)
(* out, and others begin to wait, in the middle of it.                     *)
(***************************************************************************)
EXTENDS Naturals

CONSTANTS
    Waiters,   \* downloads that wait for a verification, once each
    Exts,      \* extensions
    Scripted,  \* the extensions that define a completeGrant of their own
    States,    \* callback states
    NoState,   \* no state in the callback URL
    NoWaiter   \* no pending verification

VARIABLES
    at,         \* where the thread of each download is
    ext,        \* the extension that each download uses
    latchOf,    \* the download whose latch each download waits on
    expected,   \* the state that each verification expects
    latch,      \* is the latch of each verification released?
    result,     \* what awaitVerification returned
    pending,    \* the verification pending for each extension
    page,       \* the page of each verification
    main,       \* what the main thread does: a callback of which verification
    granted,    \* extensions with a grant in Go's pending-grant store
    loggedIn,   \* extensions that Go's OAuth state calls authenticated
    exchanged   \* history: verifications whose grant was exchanged

waiting == <<at, ext, latchOf, expected, result, pending>>
go == <<granted, loggedIn, exchanged>>
vars == <<at, ext, latchOf, expected, latch, result, pending, page, main,
          granted, loggedIn, exchanged>>

Idle == [step |-> "idle", target |-> NoWaiter]

TypeOK ==
    /\ at \in [Waiters -> {"idle", "asking", "putting", "starting", "waiting",
                           "done"}]
    /\ ext \in [Waiters -> Exts]
    /\ latchOf \in [Waiters -> Waiters \cup {NoWaiter}]
    /\ \A w \in Waiters : at[w] \in {"starting", "waiting"} => latchOf[w] \in Waiters
    /\ expected \in [Waiters -> States \cup {NoState}]
    /\ latch \in [Waiters -> BOOLEAN]
    /\ result \in [Waiters -> {"none", "true", "false"}]
    /\ pending \in [Exts -> Waiters \cup {NoWaiter}]
    /\ page \in [Waiters -> {"none", "open", "closed"}]
    /\ main \in [step : {"granted", "exchanging", "completed"}, target : Waiters]
                   \cup {Idle}
    /\ granted \in SUBSET Exts
    /\ loggedIn \in SUBSET Exts
    /\ exchanged \in SUBSET Waiters

(***************************************************************************)
(* awaitVerification.                                                      *)
(***************************************************************************)
\* Joins the verification that is pending for the extension, if there is one.
Await(w) ==
    /\ at[w] = "idle"
    /\ latchOf' = [latchOf EXCEPT ![w] = pending[ext[w]]]
    /\ at' = [at EXCEPT ![w] =
                  IF pending[ext[w]] = NoWaiter THEN "asking" ELSE "waiting"]
    /\ UNCHANGED <<ext, expected, latch, result, pending, page, main>>
    /\ UNCHANGED go

\* Faulty variant: a verification takes out whatever is pending by now.
Return_Bug(w, r) ==
    /\ at' = [at EXCEPT ![w] = "done"]
    /\ result' = [result EXCEPT ![w] = r]
    /\ pending' = [pending EXCEPT ![ext[w]] =
                       IF latchOf[w] = w THEN NoWaiter ELSE @]

\* awaitVerification returns; a verification that is still registered under
\* its extension is taken out by the download that made it.
Return(w, r) ==
    /\ at' = [at EXCEPT ![w] = "done"]
    /\ result' = [result EXCEPT ![w] = r]
    /\ pending' = [pending EXCEPT ![ext[w]] = IF @ = w THEN NoWaiter ELSE @]

\* Go has no pending request for the extension, or fails to give one.
AskFails(w) ==
    /\ at[w] = "asking"
    /\ Return(w, "false")
    /\ UNCHANGED <<ext, latchOf, expected, latch, page, main>> /\ UNCHANGED go

\* Go's pending request, whose callback URL may carry a state.
Ask(w) ==
    /\ at[w] = "asking"
    /\ \E s \in States \cup {NoState} : expected' = [expected EXCEPT ![w] = s]
    /\ at' = [at EXCEPT ![w] = "putting"]
    /\ UNCHANGED <<ext, latchOf, latch, result, pending, page, main>>
    /\ UNCHANGED go

\* Faulty variant: the new verification waits on the latch it looked up before.
Put_Bug(w) ==
    /\ at[w] = "putting"
    /\ pending' = [pending EXCEPT ![ext[w]] = w]
    /\ at' = [at EXCEPT ![w] = "starting"]
    /\ UNCHANGED <<ext, latchOf, expected, latch, result, page, main>>
    /\ UNCHANGED go

\* The new verification takes the place of any that is pending by now.
Put(w) ==
    /\ at[w] = "putting"
    /\ pending' = [pending EXCEPT ![ext[w]] = w]
    /\ latchOf' = [latchOf EXCEPT ![w] = w]
    /\ at' = [at EXCEPT ![w] = "starting"]
    /\ UNCHANGED <<ext, expected, latch, result, page, main>> /\ UNCHANGED go

StartPage(w) ==
    /\ at[w] = "starting"
    /\ page' = [page EXCEPT ![w] = "open"]
    /\ at' = [at EXCEPT ![w] = "waiting"]
    /\ UNCHANGED <<ext, latchOf, expected, latch, result, pending, main>>
    /\ UNCHANGED go

\* Faulty variant: the verification stays registered.
StartFails_Bug(w) ==
    /\ at[w] = "starting"
    /\ at' = [at EXCEPT ![w] = "done"]
    /\ result' = [result EXCEPT ![w] = "false"]
    /\ UNCHANGED <<ext, latchOf, expected, latch, pending, page, main>>
    /\ UNCHANGED go

StartFails(w) ==
    /\ at[w] = "starting"
    /\ Return(w, "false")
    /\ UNCHANGED <<ext, latchOf, expected, latch, page, main>> /\ UNCHANGED go

Released(w) ==
    /\ at[w] = "waiting"
    /\ latch[latchOf[w]]
    /\ Return(w, "true")
    /\ UNCHANGED <<ext, latchOf, expected, latch, page, main>> /\ UNCHANGED go

\* Faulty variant: a download that joined waits without a timeout.
TimesOut_Bug(w) ==
    /\ at[w] = "waiting"
    /\ latchOf[w] = w
    /\ ~latch[latchOf[w]]
    /\ Return(w, "false")
    /\ UNCHANGED <<ext, latchOf, expected, latch, page, main>> /\ UNCHANGED go

\* The latch was not released within TIMEOUT_SECONDS.
TimesOut(w) ==
    /\ at[w] = "waiting"
    /\ ~latch[latchOf[w]]
    /\ Return(w, "false")
    /\ UNCHANGED <<ext, latchOf, expected, latch, page, main>> /\ UNCHANGED go

(***************************************************************************)
(* The page and its callbacks.                                             *)
(***************************************************************************)
\* The user leaves the page, or it has finished after a callback.
ClosePage(w) ==
    /\ page[w] = "open"
    /\ page' = [page EXCEPT ![w] = "closed"]
    /\ UNCHANGED <<latch, main>> /\ UNCHANGED waiting /\ UNCHANGED go

\* handleCallback: a verification that expects the callback's state or none.
Matches(s) ==
    {v \in Waiters : /\ \E e \in Exts : pending[e] = v
                     /\ expected[v] \in {s, NoState}}

\* Faulty variant: the latch is released when the grant has been handed over.
Callback_Bug(p) ==
    /\ page[p] = "open"
    /\ main = Idle
    /\ \E v \in Matches(expected[p]) :
          /\ granted' = granted \cup {ext[v]}
          /\ main' = [step |-> "granted", target |-> v]
          /\ latch' = [latch EXCEPT ![v] = TRUE]
    /\ UNCHANGED <<page, loggedIn, exchanged>> /\ UNCHANGED waiting

\* shouldOverrideUrlLoading and onPageStarted may both report one navigation.
Callback(p) ==
    /\ page[p] = "open"
    /\ main = Idle
    /\ \E v \in Matches(expected[p]) :
          /\ granted' = granted \cup {ext[v]}
          /\ main' = [step |-> "granted", target |-> v]
    /\ UNCHANGED <<latch, page, loggedIn, exchanged>> /\ UNCHANGED waiting

\* Go calls the extension's own completeGrant.  An extension without one
\* answers null, and the grant stays where it is.
CompleteGrant ==
    /\ main.step = "granted"
    /\ main' = IF ext[main.target] \in Scripted
               THEN [main EXCEPT !.step = "exchanging"] ELSE Idle
    /\ UNCHANGED <<latch, page>> /\ UNCHANGED waiting /\ UNCHANGED go

\* The script's exchange succeeds and uses up the grant, or it fails.
ExchangeEnds ==
    /\ main.step = "exchanging"
    /\ \/ /\ granted' = granted \ {ext[main.target]}
          /\ exchanged' = exchanged \cup {main.target}
          /\ main' = [main EXCEPT !.step = "completed"]
       \/ main' = Idle /\ UNCHANGED <<granted, exchanged>>
    /\ UNCHANGED <<latch, page, loggedIn>> /\ UNCHANGED waiting

\* isExtensionAuthenticatedByID reads the OAuth state of the extension.
Confirm ==
    /\ main.step = "completed"
    /\ latch' = IF ext[main.target] \in loggedIn
                THEN [latch EXCEPT ![main.target] = TRUE] ELSE latch
    /\ main' = Idle
    /\ UNCHANGED page /\ UNCHANGED waiting /\ UNCHANGED go

\* A script sets or clears the OAuth tokens of its extension, or they expire.
LogInOrOut(e) ==
    /\ \/ loggedIn' = loggedIn \cup {e}
       \/ loggedIn' = loggedIn \ {e}
    /\ UNCHANGED <<latch, page, main, granted, exchanged>> /\ UNCHANGED waiting

(***************************************************************************)
(* The specification.                                                      *)
(***************************************************************************)
Init ==
    /\ at = [w \in Waiters |-> "idle"]
    /\ ext \in [Waiters -> Exts]
    /\ latchOf = [w \in Waiters |-> NoWaiter]
    /\ expected = [w \in Waiters |-> NoState]
    /\ latch = [w \in Waiters |-> FALSE]
    /\ result = [w \in Waiters |-> "none"]
    /\ pending = [e \in Exts |-> NoWaiter]
    /\ page = [w \in Waiters |-> "none"]
    /\ main = Idle
    /\ granted = {}
    /\ loggedIn = {}
    /\ exchanged = {}

Waiter(w) ==
    \/ Await(w)
    \/ AskFails(w)
    \/ Ask(w)
    \/ Put(w)
    \/ StartPage(w)
    \/ StartFails(w)
    \/ Released(w)
    \/ TimesOut(w)

Next ==
    \/ \E w \in Waiters : Waiter(w) \/ ClosePage(w) \/ Callback(w)
    \/ CompleteGrant
    \/ ExchangeEnds
    \/ Confirm
    \/ \E e \in Exts : LogInOrOut(e)

Spec == Init /\ [][Next]_vars

\* The threads of the downloads are scheduled, and a latch is waited for with
\* a timeout; nothing is assumed of the user, the page or the gateway.
FairSpec == Spec /\ \A w \in Waiters : WF_vars(Waiter(w))

(***************************************************************************)
(* Properties.                                                             *)
(***************************************************************************)
\* A verification is pending only while the download that made it starts its
\* page or waits for it, so that no later download waits for a latch that
\* nobody will release.
PendingAlive ==
    \A e \in Exts : pending[e] # NoWaiter =>
        /\ at[pending[e]] \in {"starting", "waiting"}
        /\ latchOf[pending[e]] = pending[e]
        /\ ext[pending[e]] = e

\* Of two verifications of an extension that were started together, the later
\* one stays pending until its own download gives up: the end of the other
\* does not withdraw it.
OnlyOwnerWithdraws ==
    [][\A e \in Exts :
          pending[e] # NoWaiter /\ pending'[e] = NoWaiter =>
              at'[pending[e]] = "done"]_vars

\* A download is told that its extension is verified only if a grant was
\* exchanged for the verification that it waited on.
TrueMeansExchanged ==
    \A w \in Waiters : result[w] = "true" => latchOf[w] \in exchanged

\* No download waits for ever, also if its verification was overwritten, its
\* page closed or its grant refused.
WaitersEnd == \A w \in Waiters : at[w] # "idle" ~> at[w] = "done"

\* A download is released when the grant of its verification was exchanged
\* for a session.
ExchangeReleases ==
    [][main.step = "completed" /\ main' = Idle => latch'[main.target]]_vars

=============================================================================
