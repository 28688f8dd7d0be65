----------------------------- MODULE MCRuntimes -----------------------------
(***************************************************************************)
(* TLC: the runtimes of an extension and, by themselves, the downloads     *)
(* that wait for a verification.  `which` names the part that runs in a    *)
(* behaviour; the other stays where it begins.                             *)
(***************************************************************************)
EXTENDS ExtensionRuntime

CONSTANTS Waiters, Exts, Scripted, States, None

\* No download is the mark for none.
ASSUME WaitersAssumption == None \notin Waiters

VARIABLES
    which,
    place, ext, latchOf, expected, latch, result, pending, page, main, granted,
    loggedIn, exchanged

Verifying == INSTANCE Verification WITH NoState <- None, NoWaiter <- None, at <- place

verifying == <<place, ext, latchOf, expected, latch, result, pending, page, main, granted,
               loggedIn, exchanged>>

MCInit ==
    /\ which \in {"runtimes", "verifying"}
    /\ Init /\ Verifying!Init
    /\ which = "verifying" => enabled
    /\ which = "runtimes" => ext = CHOOSE f \in [Waiters -> Exts] : TRUE

MCNext ==
    \/ which = "runtimes" /\ Next /\ UNCHANGED <<which, verifying>>
    \/ which = "verifying" /\ Verifying!Next /\ UNCHANGED <<which, vars>>

\* The fairness of each part, for the behaviours that are its own.
MCSpec ==
    /\ MCInit /\ [][MCNext]_<<which, vars, verifying>>
    /\ \A t \in Threads :
         /\ WF_vars(which = "runtimes" /\ (JavaScriptEnds(t) \/ Continues(t)))
         /\ SF_vars(which = "runtimes" /\ Locks(t))
    /\ \A w \in Waiters : WF_verifying(which = "verifying" /\ Verifying!Waiter(w))

\* What is pending is a verification that some download waits for, and none
\* goes on unless its grant was exchanged (GoBackend.kt).
VerificationSound ==
    Verifying!TypeOK /\ Verifying!PendingAlive /\ Verifying!TrueMeansExchanged

\* Every download that waits for a verification is told in the end.
WaitersEnd == Verifying!WaitersEnd

\* A completed exchange releases the download that waits for it.
ExchangeReleases == Verifying!ExchangeReleases
=============================================================================
