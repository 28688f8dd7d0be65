------------------------- MODULE SignedSessionProofs --------------------------
(***************************************************************************)
(* The safety properties of the signed-session coordinator as theorems.    *)
(*                                                                         *)
(* A reply is applied long after its request left, so none of the          *)
(* properties is inductive: each needs to know what a call in flight still *)
(* remembers.  CallFresh and SawInv say so: a call whose clear generation  *)
(* is current has seen every clear, and the session it remembers is the    *)
(* one it saw.  Two lemmas then reduce a step to what it does to the       *)
(* record (StoreStep) and to the redeemed grants (RedeemStep), and the     *)
(* theorems follow from those without looking at the actions again.        *)
(*                                                                         *)
(* Type correctness comes first: what each helper of the model returns, so *)
(* that the proof of an action can leave the helpers folded, and that each *)
(* action preserves TypeOK.                                                *)
(***************************************************************************)
EXTENDS SignedSession, TLAPS

\* The locals of a call that has not begun.
LEMMA NoCallTyped == NoCall \in Call
  BY ConstantsOK DEF NoCall, Call, Sessions, Returns, Results, None, Knowledge

\* The record without a session.
LEMMA NoSessionTyped == NoSession \in Record
  BY ConstantsOK DEF NoSession, Record, Sessions, Ages, None

\* No session and no challenge are numbers of their ranges.
LEMMA NoneTyped == None \in Sessions /\ None \in Challenges
  BY ConstantsOK DEF None, Sessions, Challenges

\* Assigning one local of a call a value of its type leaves a call.
LEMMA FieldTyped ==
    ASSUME NEW c \in Call
    PROVE  /\ \A v \in Grants \cup {NoGrant} : [c EXCEPT !.grant = v] \in Call
           /\ \A v \in Sessions : [c EXCEPT !.rec = v] \in Call
           /\ \A v \in Sessions : [c EXCEPT !.base = v] \in Call
           /\ \A v \in Nat : [c EXCEPT !.began = v] \in Call
           /\ \A v \in Returns : [c EXCEPT !.ret = v] \in Call
           /\ \A v \in Results : [c EXCEPT !.result = v] \in Call
           /\ \A v \in Nat : [c EXCEPT !.waitOn = v] \in Call
           /\ \A v \in 0 .. MaxExchangeAttempts : [c EXCEPT !.tries = v] \in Call
           /\ \A v \in 0 .. MaxSessionRetries : [c EXCEPT !.session = v] \in Call
           /\ \A v \in 0 .. MaxProviderRetries : [c EXCEPT !.provider = v] \in Call
           /\ \A v \in BOOLEAN : [c EXCEPT !.auth = v] \in Call
           /\ \A v \in Knowledge : [c EXCEPT !.asked = v] \in Call
  BY DEF Call

\* The locals of a call that later steps read.
LEMMA CallFields ==
    ASSUME NEW c \in Call
    PROVE  /\ c.grant \in Grants \cup {NoGrant}
           /\ c.rec \in Sessions /\ c.base \in Sessions
           /\ c.tries \in 0 .. MaxExchangeAttempts
           /\ c.session \in 0 .. MaxSessionRetries
           /\ c.provider \in 0 .. MaxProviderRetries
           /\ c.asked \in Knowledge
  BY DEF Call

\* A save, successful or failing, leaves a record (saveSignedSession).
LEMMA SaveTyped ==
    ASSUME file \in Record, events \in 0 .. MaxEvents,
           NEW f \in Record, Save(f) \/ SaveFails
    PROVE  file' \in Record /\ events' \in 0 .. MaxEvents
  BY NoSessionTyped, ConstantsOK DEF Save, SaveFails

\* A session the server issues is within the bound.
LEMMA IssuedTyped ==
    ASSUME issued \in Sessions, origin \in [Sessions -> Knowledge], call \in [Runtimes -> Call],
           NEW r \in Runtimes, ServerIssues(r)
    PROVE  /\ issued + 1 \in Sessions
           /\ Issued \in Record
           /\ issued' \in Sessions
           /\ origin' \in [Sessions -> Knowledge]
  <1>1. issued + 1 \in Sessions
    BY ConstantsOK DEF ServerIssues, Sessions
  <1>2. call[r].asked \in Knowledge
    BY CallFields
  <1> QED
    BY <1>1, <1>2 DEF ServerIssues, Issued, Record, Ages

\* Moving a call to a label of PCs.
LEMMA GoToTyped ==
    ASSUME pc \in [Runtimes -> PCs], NEW r \in Runtimes, NEW label \in PCs,
           GoTo(r, label)
    PROVE  pc' \in [Runtimes -> PCs]
  BY DEF GoTo

\* Replacing the locals of one call.
LEMMA CallTyped ==
    ASSUME call \in [Runtimes -> Call], NEW r \in Runtimes, NEW c \in Call,
           call' = [call EXCEPT ![r] = c]
    PROVE  call' \in [Runtimes -> Call]
  OBVIOUS

\* The end of a call.
LEMMA FinishTyped ==
    ASSUME CallTypeOK, NEW r \in Runtimes, Finish(r)
    PROVE  CallTypeOK'
  BY NoCallTyped DEF Finish, CallTypeOK, GoTo, PCs

\* An exchange that ends, with or without an error.
LEMMA ExchangeEndsTyped ==
    ASSUME CallTypeOK, NEW r \in Runtimes, NEW res \in Results, ExchangeEnds(r, res)
    PROVE  CallTypeOK'
  <1>1. "exchange_release" \in PCs
    BY DEF PCs, ExchangePCs
  <1>2. [call[r] EXCEPT !.result = res] \in Call
    BY FieldTyped DEF CallTypeOK
  <1> QED
    BY <1>1, <1>2 DEF ExchangeEnds, CallTypeOK, GoTo

\* The end of the verification subroutine.
LEMMA VerifiedTyped ==
    ASSUME CallTypeOK, NEW r \in Runtimes, NEW res \in Results, Verified(r, res)
    PROVE  CallTypeOK'
  <1>1. "verified" \in PCs
    BY DEF PCs, VerifyPCs
  <1>2. [call[r] EXCEPT !.result = res] \in Call
    BY FieldTyped DEF CallTypeOK
  <1> QED
    BY <1>1, <1>2 DEF Verified, CallTypeOK, GoTo

\* The call of the verification subroutine, which takes the mutex.
LEMMA VerifyTyped ==
    ASSUME CallTypeOK, NEW r \in Runtimes, NEW point \in Returns, Verify(r, point)
    PROVE  CallTypeOK' /\ mu' \in Runtimes \cup {Nobody}
  <1>1. "verify" \in PCs
    BY DEF PCs, VerifyPCs
  <1>2. [call[r] EXCEPT !.ret = point] \in Call
    BY FieldTyped DEF CallTypeOK
  <1> QED
    BY <1>1, <1>2 DEF Verify, Lock, CallTypeOK, GoTo

\* Signing the next request of a call.
LEMMA SignWithTyped ==
    ASSUME CallTypeOK, NEW r \in Runtimes, NEW change \in Call, SignWith(r, change)
    PROVE  CallTypeOK'
  BY DEF SignWith, CallTypeOK, GoTo, PCs

\* Dropping the shared challenge (clearChallenge).
LEMMA ClearChallengeTyped ==
    ASSUME ChallengeTypeOK, ClearChallenge
    PROVE  /\ challenge' \in Challenges
           /\ holders' \subseteq Extensions
           /\ pendingAuth' \in [Extensions -> Challenges]
  BY NoneTyped DEF ChallengeTypeOK, ClearChallenge, DroppedPending

\* The pending requests that remain when the holders' are dropped.
LEMMA DroppedTyped ==
    ASSUME ChallengeTypeOK PROVE DroppedPending \in [Extensions -> Challenges]
  BY NoneTyped DEF ChallengeTypeOK, DroppedPending
\* What a call knows as it leaves for the server.
LEMMA AskingTyped ==
    ASSUME file \in Record, clears \in Nat
    PROVE  file.gen \in Sessions /\ Asking \in Knowledge
  BY DEF Record, Asking, Knowledge

\* The retries stay within their budgets.
LEMMA ResignedTyped ==
    ASSUME file \in Record, NEW c \in Call
    PROVE  /\ [c EXCEPT !.rec = file.gen] \in Call
           /\ [c EXCEPT !.rec = file.gen, !.auth = TRUE] \in Call
           /\ c.session < MaxSessionRetries
                => [c EXCEPT !.rec = file.gen, !.session = @ + 1] \in Call
           /\ c.provider < MaxProviderRetries
                => [c EXCEPT !.provider = @ + 1] \in Call
           /\ c.tries < MaxExchangeAttempts
                => [c EXCEPT !.tries = @ + 1] \in Call
  <1>1. file.gen \in Sessions
    BY DEF Record
  <1>2. /\ c.session < MaxSessionRetries => c.session + 1 \in 0 .. MaxSessionRetries
        /\ c.provider < MaxProviderRetries => c.provider + 1 \in 0 .. MaxProviderRetries
        /\ c.tries < MaxExchangeAttempts => c.tries + 1 \in 0 .. MaxExchangeAttempts
    BY CallFields, ConstantsOK
  <1>3. [c EXCEPT !.rec = file.gen] \in Call
    BY <1>1, FieldTyped
  <1>4. [[c EXCEPT !.rec = file.gen] EXCEPT !.auth = TRUE] \in Call
    BY <1>3, FieldTyped
  <1>5. [c EXCEPT !.rec = file.gen].session = c.session
    BY DEF Call
  <1>6. ASSUME c.session < MaxSessionRetries
        PROVE  [[c EXCEPT !.rec = file.gen] EXCEPT !.session = @ + 1] \in Call
    BY <1>2, <1>3, <1>5, <1>6, FieldTyped
  <1> QED
    BY <1>2, <1>3, <1>4, <1>6, FieldTyped

\* A flight that starts (bootstrapDone, refreshDone).
LEMMA FlightTyped ==
    ASSUME NEW f \in Flight
    PROVE  [busy |-> TRUE, num |-> f.num + 1, err |-> FALSE] \in Flight
  BY DEF Flight

\* A reply about a session that has been replaced.
LEMMA StaleTyped ==
    ASSUME TypeOK, NEW r \in Runtimes, StaleReply(r)
    PROVE  CallTypeOK' /\ UNCHANGED <<file, mu, blocked, events>>
  <1>1. call[r].session < MaxSessionRetries
          => [call[r] EXCEPT !.rec = file.gen, !.session = @ + 1] \in Call
    BY ResignedTyped DEF TypeOK, CallTypeOK, CoordinatorTypeOK
  <1> QED
    BY <1>1, SignWithTyped, FinishTyped DEF StaleReply, TypeOK

\* The results, return points and labels the actions name.
LEMMA Constants ==
    /\ {"none", "url", "err"} \subseteq Results
    /\ {"ensure", "blocked", "refresh", "response", "preflight"} \subseteq Returns
    /\ {Idle, "exchange_wait", "grant_forget", "grant_clear", "bootstrap_http",
        "bootstrap_wait", "refresh", "refresh_http", "refresh_wait", "refreshed",
        "request", "exchange_check", "exchange_http", "exchange_release",
        "verify", "verified"} \subseteq PCs
  BY DEF Results, Returns, PCs, ExchangePCs, VerifyPCs

-----------------------------------------------------------------------------
(* The actions, by section of the model. *)

\* The exchange of a grant (signedSession.completeGrant) preserves the types.
LEMMA ExchangeTyped ==
    ASSUME TypeOK, NEW r \in Runtimes,
           \/ StartCompleteGrant(r) \/ BeginExchange(r)
           \/ ExchangeWaitCancelled(r) \/ ExchangeCheck(r)
           \/ ExchangeRateLimited(r) \/ ExchangeFails(r)
           \/ ExchangeReply(r) \/ ExchangeRelease(r) \/ ForgetGrant(r)
           \/ ForgetPendingAuth(r)
    PROVE  TypeOK'
<1>1. ASSUME StartCompleteGrant(r) PROVE TypeOK'
  <2>1. pc' \in [Runtimes -> PCs]
    BY <1>1, Constants
       DEF StartCompleteGrant, Begins, GoTo, coordVars, chalVars, flightVars,
          idVars, issueVars, truthVars, TypeOK, CallTypeOK
  <2>2. call' \in [Runtimes -> Call]
    <3>1. PICK g \in Grants :
            call' = [call EXCEPT ![r].grant = g, ![r].began = clearGeneration]
      BY <1>1 DEF StartCompleteGrant
    <3>2. [call[r] EXCEPT !.grant = g] \in Call
      BY FieldTyped DEF TypeOK, CallTypeOK
    <3>3. [[call[r] EXCEPT !.grant = g] EXCEPT !.began = clearGeneration] \in Call
      BY <3>2, <1>1, FieldTyped DEF TypeOK, CoordinatorTypeOK
    <3>4. call' = [call EXCEPT ![r] = [[call[r] EXCEPT !.grant = g]
                                           EXCEPT !.began = clearGeneration]]
      BY <3>1, <1>1 DEF TypeOK, CallTypeOK
    <3> QED
      BY <3>3, <3>4, <1>1, CallTyped DEF TypeOK, CallTypeOK
  <2>3. CoordinatorTypeOK'
    BY <1>1, NoneTyped, CallFields
       DEF StartCompleteGrant, Begins, GoTo, coordVars, chalVars, flightVars,
          idVars, issueVars, truthVars, Flight, TypeOK, CoordinatorTypeOK,
          ChallengeTypeOK, CallTypeOK, CountTypeOK
  <2>4. ChallengeTypeOK'
    BY <1>1, NoneTyped
       DEF StartCompleteGrant, Begins, GoTo, coordVars, chalVars, flightVars,
          idVars, issueVars, truthVars, TypeOK, CoordinatorTypeOK,
          ChallengeTypeOK, CallTypeOK, CountTypeOK
  <2>5. CountTypeOK'
    <3>1. UNCHANGED <<issueVars, events, truthVars>>
      BY <1>1 DEF StartCompleteGrant
    <3>2. ops < MaxOps /\ ops' = ops + 1
      BY <1>1 DEF StartCompleteGrant, Begins
    <3> QED
      BY <3>1, <3>2, ConstantsOK DEF issueVars, truthVars, TypeOK, CountTypeOK
  <2> QED
    BY <2>1, <2>2, <2>3, <2>4, <2>5 DEF TypeOK, CallTypeOK
<1>2. ASSUME BeginExchange(r) PROVE TypeOK'
  BY <1>2, Constants, FieldTyped, CallFields, ConstantsOK
     DEF BeginExchange, GoTo, coordVars, chalVars, idVars, issueVars,
          budgetVars, truthVars, Flight, TypeOK, CoordinatorTypeOK,
          ChallengeTypeOK, CallTypeOK, CountTypeOK
<1>3. ASSUME ExchangeWaitCancelled(r) PROVE TypeOK'
  BY <1>3, Constants, FinishTyped, ConstantsOK
     DEF ExchangeWaitCancelled, coordVars, chalVars, flightVars, idVars,
          issueVars, budgetVars, truthVars, Flight, TypeOK, CoordinatorTypeOK,
          ChallengeTypeOK, CallTypeOK, CountTypeOK
<1>4. ASSUME ExchangeCheck(r) PROVE TypeOK'
  <2>1. pc' \in [Runtimes -> PCs]
    BY <1>4, Constants, ExchangeEndsTyped
       DEF ExchangeCheck, coordVars, chalVars, AdoptShared, Asking, GoTo,
          flightVars, idVars, issueVars, budgetVars, truthVars, TypeOK,
          CallTypeOK
  <2>2. call' \in [Runtimes -> Call]
    <3>1. CASE \E res \in Results : ExchangeEnds(r, res)
      BY <1>4, <3>1, ExchangeEndsTyped DEF TypeOK, CallTypeOK
    <3>2. CASE call' = [call EXCEPT ![r].rec = file.gen, ![r].tries = 1,
                                    ![r].asked = Asking]
      <4>1. /\ file.gen \in Sessions
            /\ Asking \in Knowledge
            /\ 1 \in 0 .. MaxExchangeAttempts
        BY <1>4, AskingTyped, ConstantsOK DEF TypeOK, CoordinatorTypeOK, CountTypeOK
      <4>2. [call[r] EXCEPT !.rec = file.gen] \in Call
        BY <1>4, <4>1, FieldTyped DEF TypeOK, CallTypeOK
      <4>3. [[call[r] EXCEPT !.rec = file.gen] EXCEPT !.tries = 1] \in Call
        BY <4>1, <4>2, FieldTyped
      <4>4. [[[call[r] EXCEPT !.rec = file.gen] EXCEPT !.tries = 1]
               EXCEPT !.asked = Asking] \in Call
        BY <4>1, <4>3, FieldTyped
      <4>5. call' = [call EXCEPT ![r] =
                       [[[call[r] EXCEPT !.rec = file.gen] EXCEPT !.tries = 1]
                          EXCEPT !.asked = Asking]]
        BY <1>4, <3>2 DEF TypeOK, CallTypeOK
      <4> QED
        BY <1>4, <4>4, <4>5, CallTyped DEF TypeOK, CallTypeOK
    <3> QED
      BY <1>4, <3>1, <3>2, Constants DEF ExchangeCheck, AdoptShared
  <2>3. CoordinatorTypeOK'
    BY <1>4, NoneTyped, CallFields
       DEF ExchangeCheck, coordVars, chalVars, AdoptShared, Asking, GoTo,
          flightVars, idVars, issueVars, budgetVars, truthVars, Flight,
          TypeOK, CoordinatorTypeOK, ChallengeTypeOK, CallTypeOK, CountTypeOK
  <2>4. ChallengeTypeOK'
    BY <1>4, NoneTyped, ClearChallengeTyped
       DEF ExchangeCheck, coordVars, chalVars, AdoptShared, Asking, GoTo,
          flightVars, idVars, issueVars, budgetVars, truthVars, TypeOK,
          CoordinatorTypeOK, ChallengeTypeOK, CallTypeOK, CountTypeOK
  <2>5. CountTypeOK'
    BY <1>4, ConstantsOK
       DEF ExchangeCheck, coordVars, chalVars, AdoptShared, Asking, GoTo,
          flightVars, idVars, issueVars, budgetVars, truthVars, TypeOK,
          CoordinatorTypeOK, ChallengeTypeOK, CallTypeOK, CountTypeOK
  <2> QED
    BY <2>1, <2>2, <2>3, <2>4, <2>5 DEF TypeOK, CallTypeOK
<1>5. ASSUME ExchangeRateLimited(r) PROVE TypeOK'
  <2>1. pc' \in [Runtimes -> PCs]
    BY <1>5, Constants
       DEF ExchangeRateLimited, coordVars, chalVars, flightVars, idVars,
          issueVars, budgetVars, truthVars, TypeOK, CallTypeOK
  <2>2. call' \in [Runtimes -> Call]
    BY <1>5, ResignedTyped, CallTyped
       DEF ExchangeRateLimited, TypeOK, CallTypeOK, CoordinatorTypeOK
  <2>3. CoordinatorTypeOK'
    BY <1>5, NoneTyped, CallFields
       DEF ExchangeRateLimited, coordVars, chalVars, flightVars, idVars,
          issueVars, budgetVars, truthVars, Flight, TypeOK, CoordinatorTypeOK,
          ChallengeTypeOK, CallTypeOK, CountTypeOK
  <2>4. ChallengeTypeOK'
    BY <1>5, NoneTyped
       DEF ExchangeRateLimited, coordVars, chalVars, flightVars, idVars,
          issueVars, budgetVars, truthVars, TypeOK, CoordinatorTypeOK,
          ChallengeTypeOK, CallTypeOK, CountTypeOK
  <2>5. CountTypeOK'
    BY <1>5, ConstantsOK
       DEF ExchangeRateLimited, coordVars, chalVars, flightVars, idVars,
          issueVars, budgetVars, truthVars, TypeOK, CoordinatorTypeOK,
          ChallengeTypeOK, CallTypeOK, CountTypeOK
  <2> QED
    BY <2>1, <2>2, <2>3, <2>4, <2>5 DEF TypeOK, CallTypeOK
<1>6. ASSUME ExchangeFails(r) PROVE TypeOK'
  BY <1>6, Constants, ExchangeEndsTyped, ConstantsOK
     DEF ExchangeFails, coordVars, chalVars, flightVars, idVars, issueVars,
          budgetVars, truthVars, Flight, TypeOK, CoordinatorTypeOK,
          ChallengeTypeOK, CallTypeOK, CountTypeOK
<1>7. ASSUME ExchangeReply(r) PROVE TypeOK'
  <2>1. /\ Issued \in Record
        /\ issued + 1 \in Sessions
        /\ issued' \in Sessions
        /\ origin' \in [Sessions -> Knowledge]
    BY <1>7, IssuedTyped DEF ExchangeReply, TypeOK, CallTypeOK, CountTypeOK
  <2>2. CallTypeOK'
    BY <1>7, Constants, ExchangeEndsTyped
       DEF ExchangeReply, AdoptShared, StoreExchanged, TypeOK
  <2>3. file' \in Record /\ events' \in 0 .. MaxEvents
    BY <1>7, <2>1, SaveTyped
       DEF ExchangeReply, StoreExchanged, TypeOK, CoordinatorTypeOK,
           CountTypeOK
  <2>4. CoordinatorTypeOK'
    BY <1>7, <2>3, NoneTyped, CallFields
       DEF ExchangeReply, AdoptShared, StoreExchanged, coordVars, flightVars,
           TypeOK, CoordinatorTypeOK, CallTypeOK
  <2>5. ChallengeTypeOK'
    BY <1>7, ClearChallengeTyped
       DEF ExchangeReply, AdoptShared, StoreExchanged, chalVars, idVars,
           TypeOK, ChallengeTypeOK
  <2>6. CountTypeOK'
    BY <1>7, <2>1, <2>3
       DEF ExchangeReply, AdoptShared, StoreExchanged, idVars, TypeOK,
           CountTypeOK
  <2> QED
    BY <2>2, <2>4, <2>5, <2>6 DEF TypeOK
<1>8. ASSUME ExchangeRelease(r) PROVE TypeOK'
  <2>1. pc' \in [Runtimes -> PCs]
    BY <1>8, Constants, FinishTyped
       DEF ExchangeRelease, GoTo, coordVars, chalVars, idVars, issueVars,
          budgetVars, truthVars, TypeOK, CallTypeOK
  <2>2. call' \in [Runtimes -> Call]
    BY <1>8, Constants, FieldTyped, CallFields, FinishTyped
       DEF ExchangeRelease, GoTo, coordVars, chalVars, idVars, issueVars,
          budgetVars, truthVars, TypeOK, CallTypeOK
  <2>3. CoordinatorTypeOK'
    BY <1>8, NoneTyped, CallFields
       DEF ExchangeRelease, GoTo, coordVars, chalVars, idVars, issueVars,
          budgetVars, truthVars, Flight, TypeOK, CoordinatorTypeOK,
          ChallengeTypeOK, CallTypeOK, CountTypeOK
  <2>4. ChallengeTypeOK'
    BY <1>8, NoneTyped
       DEF ExchangeRelease, GoTo, coordVars, chalVars, idVars, issueVars,
          budgetVars, truthVars, TypeOK, CoordinatorTypeOK, ChallengeTypeOK,
          CallTypeOK, CountTypeOK
  <2>5. CountTypeOK'
    BY <1>8, ConstantsOK
       DEF ExchangeRelease, GoTo, coordVars, chalVars, idVars, issueVars,
          budgetVars, truthVars, TypeOK, CoordinatorTypeOK, ChallengeTypeOK,
          CallTypeOK, CountTypeOK
  <2> QED
    BY <2>1, <2>2, <2>3, <2>4, <2>5 DEF TypeOK, CallTypeOK
<1>9. ASSUME ForgetGrant(r) PROVE TypeOK'
  BY <1>9, Constants, FieldTyped, CallFields, ConstantsOK
     DEF ForgetGrant, GoTo, coordVars, chalVars, flightVars, idVars,
          issueVars, budgetVars, truthVars, Flight, TypeOK, CoordinatorTypeOK,
          ChallengeTypeOK, CallTypeOK, CountTypeOK
<1>10. ASSUME ForgetPendingAuth(r) PROVE TypeOK'
  BY <1>10, Constants, FinishTyped, NoneTyped, ConstantsOK
     DEF ForgetPendingAuth, coordVars, flightVars, idVars, issueVars,
          budgetVars, truthVars, Flight, TypeOK, CoordinatorTypeOK,
          ChallengeTypeOK, CallTypeOK, CountTypeOK
<1> QED
  BY <1>1, <1>2, <1>3, <1>4, <1>5, <1>6, <1>7, <1>8, <1>9, <1>10

\* An explicit clear and the verification subroutine preserve the types.
LEMMA VerificationTyped ==
    ASSUME TypeOK, NEW r \in Runtimes,
           \/ ClearSession(r) \/ VerifyReuse(r) \/ VerifyAdopt(r)
           \/ VerifyFresh(r) \/ BootstrapFails(r) \/ BootstrapSession(r)
           \/ BootstrapChallenge(r) \/ BootstrapWake(r)
           \/ BootstrapWaitCancelled(r)
    PROVE  TypeOK'
<1>1. ASSUME ClearSession(r) PROVE TypeOK'
  <2>1. file' \in Record /\ events' \in 0 .. MaxEvents
    BY <1>1, SaveTyped, NoSessionTyped
       DEF ClearSession, TypeOK, CoordinatorTypeOK, CountTypeOK
  <2>2. CallTypeOK'
    BY <1>1 DEF ClearSession, TypeOK, CallTypeOK
  <2>3. CoordinatorTypeOK'
    BY <1>1, <2>1, NoneTyped
       DEF ClearSession, coordVars, flightVars, TypeOK, CoordinatorTypeOK
  <2>4. ChallengeTypeOK'
    BY <1>1, DroppedTyped, NoneTyped
       DEF ClearSession, chalVars, idVars, TypeOK, ChallengeTypeOK
  <2>5. CountTypeOK'
    BY <1>1, <2>1, ConstantsOK
       DEF ClearSession, Begins, issueVars, TypeOK, CountTypeOK
  <2> QED
    BY <2>2, <2>3, <2>4, <2>5 DEF TypeOK
<1>2. ASSUME VerifyReuse(r) PROVE TypeOK'
  <2>1. pc' \in [Runtimes -> PCs]
    BY <1>2, Constants, VerifiedTyped
       DEF VerifyReuse, coordVars, flightVars, idVars, issueVars, budgetVars,
          truthVars, TypeOK, CallTypeOK
  <2>2. call' \in [Runtimes -> Call]
    BY <1>2, Constants, FieldTyped, CallFields, VerifiedTyped
       DEF VerifyReuse, coordVars, flightVars, idVars, issueVars, budgetVars,
          truthVars, TypeOK, CallTypeOK
  <2>3. CoordinatorTypeOK'
    BY <1>2, NoneTyped, CallFields
       DEF VerifyReuse, coordVars, flightVars, idVars, issueVars, budgetVars,
          truthVars, Flight, TypeOK, CoordinatorTypeOK, ChallengeTypeOK,
          CallTypeOK, CountTypeOK
  <2>4. ChallengeTypeOK'
    BY <1>2, ConstantsOK DEF VerifyReuse, TypeOK, ChallengeTypeOK, idVars
  <2>5. CountTypeOK'
    BY <1>2, ConstantsOK
       DEF VerifyReuse, coordVars, flightVars, idVars, issueVars, budgetVars,
          truthVars, TypeOK, CoordinatorTypeOK, ChallengeTypeOK, CallTypeOK,
          CountTypeOK
  <2> QED
    BY <2>1, <2>2, <2>3, <2>4, <2>5 DEF TypeOK, CallTypeOK
<1>3. ASSUME VerifyAdopt(r) PROVE TypeOK'
  <2>1. pc' \in [Runtimes -> PCs]
    BY <1>3, Constants, VerifiedTyped
       DEF VerifyAdopt, coordVars, flightVars, idVars, issueVars, budgetVars,
          truthVars, TypeOK, CallTypeOK
  <2>2. call' \in [Runtimes -> Call]
    BY <1>3, Constants, FieldTyped, CallFields, VerifiedTyped
       DEF VerifyAdopt, coordVars, flightVars, idVars, issueVars, budgetVars,
          truthVars, TypeOK, CallTypeOK
  <2>3. CoordinatorTypeOK'
    BY <1>3, NoneTyped, CallFields
       DEF VerifyAdopt, coordVars, flightVars, idVars, issueVars, budgetVars,
          truthVars, Flight, TypeOK, CoordinatorTypeOK, ChallengeTypeOK,
          CallTypeOK, CountTypeOK
  <2>4. ChallengeTypeOK'
    BY <1>3, ConstantsOK, DroppedTyped DEF VerifyAdopt, TypeOK, ChallengeTypeOK, idVars
  <2>5. CountTypeOK'
    BY <1>3, ConstantsOK
       DEF VerifyAdopt, coordVars, flightVars, idVars, issueVars, budgetVars,
          truthVars, TypeOK, CoordinatorTypeOK, ChallengeTypeOK, CallTypeOK,
          CountTypeOK
  <2> QED
    BY <2>1, <2>2, <2>3, <2>4, <2>5 DEF TypeOK, CallTypeOK
<1>4. ASSUME VerifyFresh(r) PROVE TypeOK'
  <2>1. pc' \in [Runtimes -> PCs]
    BY <1>4, Constants, VerifiedTyped
       DEF VerifyFresh, GoTo, Unlock, Asking, coordVars, idVars, issueVars,
          budgetVars, truthVars, TypeOK, CallTypeOK
  <2>2. call' \in [Runtimes -> Call]
    <3>1. CASE Verified(r, "none")
      BY <1>4, <3>1, VerifiedTyped, Constants DEF TypeOK, CallTypeOK
    <3>2. CASE call' = [call EXCEPT ![r].waitOn = bootstrap.num]
      <4>1. bootstrap.num \in Nat
        BY <1>4 DEF TypeOK, CoordinatorTypeOK, Flight
      <4>2. [call[r] EXCEPT !.waitOn = bootstrap.num] \in Call
        BY <1>4, <4>1, FieldTyped DEF TypeOK, CallTypeOK
      <4> QED
        BY <1>4, <3>2, <4>2, CallTyped DEF TypeOK, CallTypeOK
    <3>3. CASE call' = [call EXCEPT ![r].base = file.gen,
                                    ![r].began = clearGeneration,
                                    ![r].asked = Asking]
      <4>1. /\ file.gen \in Sessions
            /\ Asking \in Knowledge
            /\ clearGeneration \in Nat
        BY <1>4, AskingTyped DEF TypeOK, CoordinatorTypeOK, CountTypeOK
      <4>2. [call[r] EXCEPT !.base = file.gen] \in Call
        BY <1>4, <4>1, FieldTyped DEF TypeOK, CallTypeOK
      <4>3. [[call[r] EXCEPT !.base = file.gen] EXCEPT !.began = clearGeneration] \in Call
        BY <4>1, <4>2, FieldTyped
      <4>4. [[[call[r] EXCEPT !.base = file.gen] EXCEPT !.began = clearGeneration]
               EXCEPT !.asked = Asking] \in Call
        BY <4>1, <4>3, FieldTyped
      <4>5. call' = [call EXCEPT ![r] =
                       [[[call[r] EXCEPT !.base = file.gen]
                           EXCEPT !.began = clearGeneration]
                             EXCEPT !.asked = Asking]]
        BY <1>4, <3>3 DEF TypeOK, CallTypeOK
      <4> QED
        BY <1>4, <4>4, <4>5, CallTyped DEF TypeOK, CallTypeOK
    <3> QED
      BY <1>4, <3>1, <3>2, <3>3 DEF VerifyFresh
  <2>3. CoordinatorTypeOK'
    <3>1. mu' \in Runtimes \cup {Nobody} /\ bootstrap' \in Flight
      BY <1>4, FlightTyped DEF VerifyFresh, Unlock, TypeOK, CoordinatorTypeOK
    <3> QED
      BY <1>4, <3>1 DEF VerifyFresh, TypeOK, CoordinatorTypeOK, coordVars
  <2>4. ChallengeTypeOK'
    BY <1>4, NoneTyped, DroppedTyped
       DEF VerifyFresh, GoTo, Unlock, Asking, coordVars, idVars, issueVars,
          budgetVars, truthVars, TypeOK, CoordinatorTypeOK, ChallengeTypeOK,
          CallTypeOK, CountTypeOK
  <2>5. CountTypeOK'
    BY <1>4, ConstantsOK
       DEF VerifyFresh, GoTo, Unlock, Asking, coordVars, idVars, issueVars,
          budgetVars, truthVars, TypeOK, CoordinatorTypeOK, ChallengeTypeOK,
          CallTypeOK, CountTypeOK
  <2> QED
    BY <2>1, <2>2, <2>3, <2>4, <2>5 DEF TypeOK, CallTypeOK
<1>5. ASSUME BootstrapFails(r) PROVE TypeOK'
  BY <1>5, Constants, VerifiedTyped, ConstantsOK
     DEF BootstrapFails, BootstrapLands, chalVars, idVars, issueVars, Lock,
          truthVars, Flight, TypeOK, CoordinatorTypeOK, ChallengeTypeOK,
          CallTypeOK, CountTypeOK
<1>6. ASSUME BootstrapSession(r) PROVE TypeOK'
  <2>1. /\ Issued \in Record
        /\ issued' \in Sessions
        /\ origin' \in [Sessions -> Knowledge]
    BY <1>6, IssuedTyped DEF BootstrapSession, TypeOK, CallTypeOK, CountTypeOK
  <2>2. CallTypeOK'
    BY <1>6, Constants, VerifiedTyped DEF BootstrapSession, TypeOK
  <2>3. file' \in Record /\ events' \in 0 .. MaxEvents
    BY <1>6, <2>1, SaveTyped
       DEF BootstrapSession, TypeOK, CoordinatorTypeOK, CountTypeOK
  <2>4. CoordinatorTypeOK'
    BY <1>6, <2>3, NoneTyped
       DEF BootstrapSession, BootstrapLands, Lock, Flight, TypeOK,
           CoordinatorTypeOK
  <2>5. ChallengeTypeOK'
    BY <1>6, ClearChallengeTyped
       DEF BootstrapSession, BootstrapLands, chalVars, idVars, TypeOK,
           ChallengeTypeOK
  <2>6. CountTypeOK'
    BY <1>6, <2>1, <2>3
       DEF BootstrapSession, BootstrapLands, truthVars, TypeOK, CountTypeOK
  <2> QED
    BY <2>2, <2>4, <2>5, <2>6 DEF TypeOK
<1>7. ASSUME BootstrapChallenge(r) PROVE TypeOK'
  <2>1. pc' \in [Runtimes -> PCs]
    BY <1>7, Constants, VerifiedTyped
       DEF BootstrapChallenge, BootstrapLands, chalVars, issueVars, Lock,
          truthVars, TypeOK, CallTypeOK
  <2>2. call' \in [Runtimes -> Call]
    BY <1>7, Constants, FieldTyped, CallFields, VerifiedTyped
       DEF BootstrapChallenge, BootstrapLands, chalVars, issueVars, Lock,
          truthVars, TypeOK, CallTypeOK
  <2>3. CoordinatorTypeOK'
    BY <1>7, NoneTyped, CallFields
       DEF BootstrapChallenge, BootstrapLands, chalVars, issueVars, Lock,
          truthVars, Flight, TypeOK, CoordinatorTypeOK, ChallengeTypeOK,
          CallTypeOK, CountTypeOK
  <2>4. ChallengeTypeOK'
    <3>1. challenges + 1 \in Challenges
      BY <1>7, ConstantsOK DEF BootstrapChallenge, Challenges, TypeOK, ChallengeTypeOK
    <3>2. /\ challenge' \in Challenges
          /\ holders' \subseteq Extensions
          /\ pendingAuth' \in [Extensions -> Challenges]
      <4>1. CASE ClearChallenge
        BY <1>7, <4>1, ClearChallengeTyped DEF TypeOK
      <4>2. CASE UNCHANGED chalVars
        BY <1>7, <4>2 DEF TypeOK, ChallengeTypeOK, chalVars
      <4>3. CASE /\ pendingAuth' = [pendingAuth EXCEPT ![ExtOf[r]] = challenges + 1]
                 /\ challenge' = challenges + 1
                 /\ holders' = holders \cup {ExtOf[r]}
        BY <1>7, <3>1, <4>3, ConstantsOK DEF TypeOK, ChallengeTypeOK
      <4> QED
        BY <1>7, <4>1, <4>2, <4>3 DEF BootstrapChallenge
    <3> QED
      BY <1>7, <3>1, <3>2 DEF BootstrapChallenge, BootstrapLands, TypeOK, ChallengeTypeOK
  <2>5. CountTypeOK'
    BY <1>7, ConstantsOK
       DEF BootstrapChallenge, BootstrapLands, chalVars, issueVars, Lock,
          truthVars, TypeOK, CoordinatorTypeOK, ChallengeTypeOK, CallTypeOK,
          CountTypeOK
  <2> QED
    BY <2>1, <2>2, <2>3, <2>4, <2>5 DEF TypeOK, CallTypeOK
<1>8. ASSUME BootstrapWake(r) PROVE TypeOK'
  <2>1. CallTypeOK'
    <3>1. CASE Verified(r, "err")
      BY <3>1, Constants, VerifiedTyped DEF TypeOK
    <3>2. CASE GoTo(r, "verify") /\ UNCHANGED call
      BY <3>2 DEF GoTo, TypeOK, CallTypeOK, PCs, VerifyPCs
    <3> QED
      BY <1>8, <3>1, <3>2 DEF BootstrapWake
  <2>2. CoordinatorTypeOK'
    BY <1>8 DEF BootstrapWake, Lock, coordVars, flightVars, issueVars,
                TypeOK, CoordinatorTypeOK
  <2>3. ChallengeTypeOK'
    BY <1>8 DEF BootstrapWake, chalVars, idVars, TypeOK, ChallengeTypeOK
  <2>4. CountTypeOK'
    BY <1>8 DEF BootstrapWake, issueVars, budgetVars, truthVars, idVars,
                TypeOK, CountTypeOK
  <2> QED
    BY <2>1, <2>2, <2>3, <2>4 DEF TypeOK
<1>9. ASSUME BootstrapWaitCancelled(r) PROVE TypeOK'
  BY <1>9, Constants, VerifiedTyped, ConstantsOK
     DEF BootstrapWaitCancelled, Lock, coordVars, chalVars, flightVars,
          idVars, issueVars, budgetVars, truthVars, Flight, TypeOK,
          CoordinatorTypeOK, ChallengeTypeOK, CallTypeOK, CountTypeOK
<1> QED
  BY <1>1, <1>2, <1>3, <1>4, <1>5, <1>6, <1>7, <1>8, <1>9

\* A signed request and the download preflight preserve the types.
LEMMA FetchTyped ==
    ASSUME TypeOK, NEW r \in Runtimes,
           \/ Preflight(r) \/ StartFetch(r) \/ AfterVerify(r)
           \/ RequestDone(r) \/ ProviderUnavailable(r)
           \/ RequestAuthInvalid(r) \/ SessionInvalid(r)
           \/ VerifyRequired(r)
    PROVE  TypeOK'
<1>1. ASSUME Preflight(r) PROVE TypeOK'
  <2>1. pc' \in [Runtimes -> PCs]
    BY <1>1, Constants, VerifyTyped
       DEF Preflight, Begins, coordVars, chalVars, flightVars, idVars,
          issueVars, truthVars, TypeOK, CallTypeOK
  <2>2. call' \in [Runtimes -> Call]
    BY <1>1, Constants, FieldTyped, CallFields, VerifyTyped
       DEF Preflight, Begins, coordVars, chalVars, flightVars, idVars,
          issueVars, truthVars, TypeOK, CallTypeOK
  <2>3. CoordinatorTypeOK'
    <3>1. mu' \in Runtimes \cup {Nobody}
      BY <1>1, VerifyTyped, Constants DEF Preflight, TypeOK, CoordinatorTypeOK
    <3> QED
      BY <1>1, <3>1 DEF Preflight, TypeOK, CoordinatorTypeOK, coordVars, flightVars
  <2>4. ChallengeTypeOK'
    BY <1>1, NoneTyped
       DEF Preflight, Begins, coordVars, chalVars, flightVars, idVars,
          issueVars, truthVars, TypeOK, CoordinatorTypeOK, ChallengeTypeOK,
          CallTypeOK, CountTypeOK
  <2>5. CountTypeOK'
    BY <1>1, ConstantsOK
       DEF Preflight, Begins, coordVars, chalVars, flightVars, idVars,
          issueVars, truthVars, TypeOK, CoordinatorTypeOK, ChallengeTypeOK,
          CallTypeOK, CountTypeOK
  <2> QED
    BY <2>1, <2>2, <2>3, <2>4, <2>5 DEF TypeOK, CallTypeOK
<1>2. ASSUME StartFetch(r) PROVE TypeOK'
  <2>1. CallTypeOK' /\ mu' \in Runtimes \cup {Nobody}
    <3>1. [call[r] EXCEPT !.rec = file.gen] \in Call
      BY <1>2, ResignedTyped DEF TypeOK, CallTypeOK, CoordinatorTypeOK
    <3>2. CASE \E point \in Returns : Verify(r, point)
      BY <1>2, <3>2, VerifyTyped DEF TypeOK
    <3>3. CASE GoTo(r, "refresh") /\ UNCHANGED <<call, mu>>
      BY <1>2, <3>3, Constants, GoToTyped DEF TypeOK, CallTypeOK, CoordinatorTypeOK
    <3>4. CASE SignWith(r, [call[r] EXCEPT !.rec = file.gen]) /\ UNCHANGED mu
      BY <1>2, <3>1, <3>4, SignWithTyped DEF TypeOK, CoordinatorTypeOK
    <3> QED
      BY <1>2, <3>2, <3>3, <3>4, Constants DEF StartFetch
  <2>2. file' \in Record /\ events' \in 0 .. MaxEvents
    BY <1>2, SaveTyped, NoSessionTyped DEF StartFetch, TypeOK, CoordinatorTypeOK, CountTypeOK
  <2>3. CoordinatorTypeOK'
    BY <1>2, <2>1, <2>2 DEF StartFetch, TypeOK, CoordinatorTypeOK, coordVars, flightVars
  <2>4. ChallengeTypeOK'
    BY <1>2, NoneTyped
       DEF StartFetch, Begins, GoTo, coordVars, chalVars, flightVars, idVars,
          issueVars, truthVars, TypeOK, CoordinatorTypeOK, ChallengeTypeOK,
          CallTypeOK, CountTypeOK
  <2>5. CountTypeOK'
    BY <1>2, ConstantsOK, SaveTyped, NoSessionTyped
       DEF StartFetch, Begins, GoTo, coordVars, chalVars, flightVars, idVars,
          issueVars, truthVars, TypeOK, CoordinatorTypeOK, ChallengeTypeOK,
          CallTypeOK, CountTypeOK
  <2> QED
    BY <2>1, <2>2, <2>3, <2>4, <2>5 DEF TypeOK
<1>3. ASSUME AfterVerify(r) PROVE TypeOK'
  <2>1. CallTypeOK'
    <3>1. /\ [call[r] EXCEPT !.rec = file.gen] \in Call
          /\ call[r].session < MaxSessionRetries
               => [call[r] EXCEPT !.rec = file.gen, !.session = @ + 1] \in Call
      BY <1>3, ResignedTyped DEF TypeOK, CallTypeOK, CoordinatorTypeOK
    <3>2. CASE GoTo(r, "refresh") /\ UNCHANGED call
      BY <1>3, <3>2, Constants, GoToTyped DEF TypeOK, CallTypeOK
    <3>3. CASE SignWith(r, [call[r] EXCEPT !.rec = file.gen])
      BY <1>3, <3>1, <3>3, SignWithTyped DEF TypeOK
    <3>4. CASE /\ call[r].session < MaxSessionRetries
               /\ SignWith(r, [call[r] EXCEPT !.rec = file.gen, !.session = @ + 1])
      BY <1>3, <3>1, <3>4, SignWithTyped DEF TypeOK
    <3>5. CASE Finish(r)
      BY <1>3, <3>5, FinishTyped DEF TypeOK
    <3> QED
      BY <1>3, <3>2, <3>3, <3>4, <3>5 DEF AfterVerify
  <2>3. CoordinatorTypeOK'
    BY <1>3, NoneTyped, CallFields
       DEF AfterVerify, Unlock, GoTo, coordVars, chalVars, flightVars, idVars,
          issueVars, budgetVars, truthVars, Flight, TypeOK, CoordinatorTypeOK,
          ChallengeTypeOK, CallTypeOK, CountTypeOK
  <2>4. ChallengeTypeOK'
    BY <1>3, NoneTyped
       DEF AfterVerify, Unlock, GoTo, coordVars, chalVars, flightVars, idVars,
          issueVars, budgetVars, truthVars, TypeOK, CoordinatorTypeOK,
          ChallengeTypeOK, CallTypeOK, CountTypeOK
  <2>5. CountTypeOK'
    BY <1>3, ConstantsOK
       DEF AfterVerify, Unlock, GoTo, coordVars, chalVars, flightVars, idVars,
          issueVars, budgetVars, truthVars, TypeOK, CoordinatorTypeOK,
          ChallengeTypeOK, CallTypeOK, CountTypeOK
  <2> QED
    BY <2>1, <2>3, <2>4, <2>5 DEF TypeOK
<1>4. ASSUME RequestDone(r) PROVE TypeOK'
  BY <1>4, Constants, FinishTyped, ConstantsOK
     DEF RequestDone, coordVars, chalVars, flightVars, idVars, issueVars,
          budgetVars, truthVars, Flight, TypeOK, CoordinatorTypeOK,
          ChallengeTypeOK, CallTypeOK, CountTypeOK
<1>5. ASSUME ProviderUnavailable(r) PROVE TypeOK'
  <2>1. CallTypeOK'
    <3>1. [call[r] EXCEPT !.provider = @ + 1] \in Call
      BY <1>5, ResignedTyped DEF ProviderUnavailable, TypeOK, CallTypeOK, CoordinatorTypeOK
    <3> QED
      BY <1>5, <3>1, SignWithTyped DEF ProviderUnavailable, TypeOK
  <2>3. CoordinatorTypeOK'
    BY <1>5, NoneTyped, CallFields
       DEF ProviderUnavailable, coordVars, chalVars, flightVars, idVars,
          issueVars, budgetVars, truthVars, Flight, TypeOK, CoordinatorTypeOK,
          ChallengeTypeOK, CallTypeOK, CountTypeOK
  <2>4. ChallengeTypeOK'
    BY <1>5, NoneTyped
       DEF ProviderUnavailable, coordVars, chalVars, flightVars, idVars,
          issueVars, budgetVars, truthVars, TypeOK, CoordinatorTypeOK,
          ChallengeTypeOK, CallTypeOK, CountTypeOK
  <2>5. CountTypeOK'
    BY <1>5, ConstantsOK
       DEF ProviderUnavailable, coordVars, chalVars, flightVars, idVars,
          issueVars, budgetVars, truthVars, TypeOK, CoordinatorTypeOK,
          ChallengeTypeOK, CallTypeOK, CountTypeOK
  <2> QED
    BY <2>1, <2>3, <2>4, <2>5 DEF TypeOK
<1>6. ASSUME RequestAuthInvalid(r) PROVE TypeOK'
  <2>1. CallTypeOK'
    <3>1. [call[r] EXCEPT !.rec = file.gen, !.auth = TRUE] \in Call
      BY <1>6, ResignedTyped DEF TypeOK, CallTypeOK, CoordinatorTypeOK
    <3> QED
      BY <1>6, <3>1, SignWithTyped, FinishTyped DEF RequestAuthInvalid, TypeOK
  <2>3. CoordinatorTypeOK'
    BY <1>6, NoneTyped, CallFields
       DEF RequestAuthInvalid, coordVars, chalVars, flightVars, idVars,
          issueVars, budgetVars, truthVars, Flight, TypeOK, CoordinatorTypeOK,
          ChallengeTypeOK, CallTypeOK, CountTypeOK
  <2>4. ChallengeTypeOK'
    BY <1>6, NoneTyped
       DEF RequestAuthInvalid, coordVars, chalVars, flightVars, idVars,
          issueVars, budgetVars, truthVars, TypeOK, CoordinatorTypeOK,
          ChallengeTypeOK, CallTypeOK, CountTypeOK
  <2>5. CountTypeOK'
    BY <1>6, ConstantsOK
       DEF RequestAuthInvalid, coordVars, chalVars, flightVars, idVars,
          issueVars, budgetVars, truthVars, TypeOK, CoordinatorTypeOK,
          ChallengeTypeOK, CallTypeOK, CountTypeOK
  <2> QED
    BY <2>1, <2>3, <2>4, <2>5 DEF TypeOK
<1>7. ASSUME SessionInvalid(r) PROVE TypeOK'
  <2>1. CallTypeOK' /\ mu' \in Runtimes \cup {Nobody}
    BY <1>7, StaleTyped, VerifyTyped, FinishTyped, Constants
       DEF SessionInvalid, TypeOK, CoordinatorTypeOK
  <2>2. /\ file' \in Record
        /\ events' \in 0 .. MaxEvents
        /\ blocked' \in Sessions
    BY <1>7, SaveTyped, NoSessionTyped, StaleTyped, NoneTyped
       DEF SessionInvalid, TypeOK, CoordinatorTypeOK, CountTypeOK
  <2>3. CoordinatorTypeOK'
    BY <1>7, <2>1, <2>2 DEF SessionInvalid, TypeOK, CoordinatorTypeOK, flightVars
  <2>4. ChallengeTypeOK'
    BY <1>7, NoneTyped
       DEF SessionInvalid, StaleReply, chalVars, flightVars, idVars,
          issueVars, TypeOK, CoordinatorTypeOK, ChallengeTypeOK, CallTypeOK,
          CountTypeOK
  <2>5. CountTypeOK'
    <3>1. revoked' \subseteq Sessions
      BY <1>7, CallFields DEF SessionInvalid, TypeOK, CallTypeOK, CountTypeOK
    <3> QED
      BY <1>7, <2>2, <3>1 DEF SessionInvalid, TypeOK, CountTypeOK, issueVars
  <2> QED
    BY <2>1, <2>2, <2>3, <2>4, <2>5 DEF TypeOK
<1>8. ASSUME VerifyRequired(r) PROVE TypeOK'
  <2>1. CallTypeOK' /\ mu' \in Runtimes \cup {Nobody}
    BY <1>8, StaleTyped, VerifyTyped, Constants
       DEF VerifyRequired, TypeOK, CoordinatorTypeOK
  <2>2. /\ file' \in Record
        /\ events' \in 0 .. MaxEvents
        /\ blocked' \in Sessions
    BY <1>8, StaleTyped, CallFields
       DEF VerifyRequired, TypeOK, CallTypeOK, CoordinatorTypeOK, CountTypeOK
  <2>3. CoordinatorTypeOK'
    BY <1>8, <2>1, <2>2 DEF VerifyRequired, TypeOK, CoordinatorTypeOK, flightVars
  <2>4. ChallengeTypeOK'
    BY <1>8, NoneTyped
       DEF VerifyRequired, StaleReply, chalVars, flightVars, idVars,
          issueVars, truthVars, TypeOK, CoordinatorTypeOK, ChallengeTypeOK,
          CallTypeOK, CountTypeOK
  <2>5. CountTypeOK'
    BY <1>8, ConstantsOK
       DEF VerifyRequired, StaleReply, chalVars, flightVars, idVars,
          issueVars, truthVars, TypeOK, CoordinatorTypeOK, ChallengeTypeOK,
          CallTypeOK, CountTypeOK
  <2> QED
    BY <2>1, <2>2, <2>3, <2>4, <2>5 DEF TypeOK
<1> QED
  BY <1>1, <1>2, <1>3, <1>4, <1>5, <1>6, <1>7, <1>8

\* The coalesced refresh preserves the types.
LEMMA RefreshTyped ==
    ASSUME TypeOK, NEW r \in Runtimes,
           \/ StartRefresh(r) \/ RefreshFails(r) \/ RefreshRotates(r)
           \/ RefreshExtends(r) \/ RefreshWake(r)
           \/ RefreshWaitCancelled(r) \/ AfterRefresh(r)
    PROVE  TypeOK'
<1>1. ASSUME StartRefresh(r) PROVE TypeOK'
  <2>1. pc' \in [Runtimes -> PCs]
    BY <1>1, Constants
       DEF StartRefresh, GoTo, Asking, coordVars, chalVars, idVars, issueVars,
          budgetVars, truthVars, TypeOK, CallTypeOK
  <2>2. call' \in [Runtimes -> Call]
    <3>1. CASE UNCHANGED call
      BY <1>1, <3>1 DEF TypeOK, CallTypeOK
    <3>2. CASE call' = [call EXCEPT ![r].waitOn = refresh.num]
      <4>1. refresh.num \in Nat
        BY <1>1 DEF TypeOK, CoordinatorTypeOK, Flight
      <4>2. [call[r] EXCEPT !.waitOn = refresh.num] \in Call
        BY <1>1, <4>1, FieldTyped DEF TypeOK, CallTypeOK
      <4> QED
        BY <1>1, <3>2, <4>2, CallTyped DEF TypeOK, CallTypeOK
    <3>3. CASE call' = [call EXCEPT ![r].base = file.gen,
                                    ![r].began = clearGeneration,
                                    ![r].asked = Asking]
      <4>1. /\ file.gen \in Sessions
            /\ Asking \in Knowledge
            /\ clearGeneration \in Nat
        BY <1>1, AskingTyped DEF TypeOK, CoordinatorTypeOK, CountTypeOK
      <4>2. [call[r] EXCEPT !.base = file.gen] \in Call
        BY <1>1, <4>1, FieldTyped DEF TypeOK, CallTypeOK
      <4>3. [[call[r] EXCEPT !.base = file.gen] EXCEPT !.began = clearGeneration] \in Call
        BY <4>1, <4>2, FieldTyped
      <4>4. [[[call[r] EXCEPT !.base = file.gen] EXCEPT !.began = clearGeneration]
               EXCEPT !.asked = Asking] \in Call
        BY <4>1, <4>3, FieldTyped
      <4>5. call' = [call EXCEPT ![r] =
                       [[[call[r] EXCEPT !.base = file.gen]
                           EXCEPT !.began = clearGeneration]
                             EXCEPT !.asked = Asking]]
        BY <1>1, <3>3 DEF TypeOK, CallTypeOK
      <4> QED
        BY <1>1, <4>4, <4>5, CallTyped DEF TypeOK, CallTypeOK
    <3> QED
      BY <1>1, <3>1, <3>2, <3>3 DEF StartRefresh
  <2>3. CoordinatorTypeOK'
    <3>1. refresh' \in Flight
      BY <1>1, FlightTyped DEF StartRefresh, TypeOK, CoordinatorTypeOK
    <3> QED
      BY <1>1, <3>1 DEF StartRefresh, TypeOK, CoordinatorTypeOK, coordVars
  <2>4. ChallengeTypeOK'
    BY <1>1, NoneTyped
       DEF StartRefresh, GoTo, Asking, coordVars, chalVars, idVars, issueVars,
          budgetVars, truthVars, TypeOK, CoordinatorTypeOK, ChallengeTypeOK,
          CallTypeOK, CountTypeOK
  <2>5. CountTypeOK'
    BY <1>1, ConstantsOK
       DEF StartRefresh, GoTo, Asking, coordVars, chalVars, idVars, issueVars,
          budgetVars, truthVars, TypeOK, CoordinatorTypeOK, ChallengeTypeOK,
          CallTypeOK, CountTypeOK
  <2> QED
    BY <2>1, <2>2, <2>3, <2>4, <2>5 DEF TypeOK, CallTypeOK
<1>2. ASSUME RefreshFails(r) PROVE TypeOK'
  BY <1>2, Constants, FieldTyped, CallFields, ConstantsOK
     DEF RefreshFails, RefreshLands, issueVars, GoTo, coordVars, chalVars,
          idVars, truthVars, Flight, TypeOK, CoordinatorTypeOK,
          ChallengeTypeOK, CallTypeOK, CountTypeOK
<1>3. ASSUME RefreshRotates(r) PROVE TypeOK'
  <2>1. pc' \in [Runtimes -> PCs]
    BY <1>3, Constants, SaveTyped, IssuedTyped
       DEF RefreshRotates, RefreshStores, RefreshLands, GoTo, coordVars,
          chalVars, idVars, truthVars, TypeOK, CallTypeOK
  <2>2. call' \in [Runtimes -> Call]
    BY <1>3, Constants, FieldTyped, CallFields, SaveTyped, IssuedTyped
       DEF RefreshRotates, RefreshStores, RefreshLands, GoTo, coordVars,
          chalVars, idVars, truthVars, TypeOK, CallTypeOK
  <2>3. CoordinatorTypeOK'
    BY <1>3, NoneTyped, CallFields, SaveTyped, IssuedTyped
       DEF RefreshRotates, RefreshStores, RefreshLands, GoTo, coordVars,
          chalVars, idVars, truthVars, Flight, TypeOK, CoordinatorTypeOK,
          ChallengeTypeOK, CallTypeOK, CountTypeOK
  <2>4. ChallengeTypeOK'
    BY <1>3, NoneTyped
       DEF RefreshRotates, RefreshStores, RefreshLands, GoTo, coordVars,
          chalVars, idVars, truthVars, TypeOK, CoordinatorTypeOK,
          ChallengeTypeOK, CallTypeOK, CountTypeOK
  <2>5. CountTypeOK'
    BY <1>3, ConstantsOK, SaveTyped, IssuedTyped
       DEF RefreshRotates, RefreshStores, RefreshLands, GoTo, coordVars,
          chalVars, idVars, truthVars, TypeOK, CoordinatorTypeOK,
          ChallengeTypeOK, CallTypeOK, CountTypeOK
  <2> QED
    BY <2>1, <2>2, <2>3, <2>4, <2>5 DEF TypeOK, CallTypeOK
<1>4. ASSUME RefreshExtends(r) PROVE TypeOK'
  <2>1. pc' \in [Runtimes -> PCs]
    BY <1>4, Constants, SaveTyped
       DEF RefreshExtends, RefreshStores, issueVars, RefreshLands, GoTo,
          coordVars, chalVars, idVars, truthVars, TypeOK, CallTypeOK
  <2>2. call' \in [Runtimes -> Call]
    BY <1>4, Constants, FieldTyped, CallFields, SaveTyped
       DEF RefreshExtends, RefreshStores, issueVars, RefreshLands, GoTo,
          coordVars, chalVars, idVars, truthVars, TypeOK, CallTypeOK
  <2>3. CoordinatorTypeOK' /\ events' \in 0 .. MaxEvents
    <3>1. [gen |-> call[r].base, exp |-> "fresh"] \in Record
      BY <1>4, CallFields DEF TypeOK, CallTypeOK, Record, Ages
    <3>2. file' \in Record /\ events' \in 0 .. MaxEvents
      BY <1>4, <3>1, SaveTyped
         DEF RefreshExtends, RefreshStores, TypeOK, CoordinatorTypeOK, CountTypeOK
    <3>3. refresh' \in Flight
      BY <1>4 DEF RefreshExtends, RefreshStores, RefreshLands, Flight, TypeOK,
               CoordinatorTypeOK
    <3>4. UNCHANGED <<mu, coordVars, exchangeBusy, bootstrap>>
      BY <1>4 DEF RefreshExtends, RefreshStores, RefreshLands
    <3> QED
      BY <1>4, <3>2, <3>3, <3>4 DEF TypeOK, CoordinatorTypeOK, coordVars
  <2>4. ChallengeTypeOK'
    BY <1>4, NoneTyped
       DEF RefreshExtends, RefreshStores, issueVars, RefreshLands, GoTo,
          coordVars, chalVars, idVars, truthVars, TypeOK, CoordinatorTypeOK,
          ChallengeTypeOK, CallTypeOK, CountTypeOK
  <2>5. CountTypeOK'
    <3>1. UNCHANGED <<ops, truthVars>>
      BY <1>4 DEF RefreshExtends, RefreshStores, RefreshLands
    <3> QED
      BY <1>4, <2>3, <3>1 DEF RefreshExtends, TypeOK, CountTypeOK, issueVars, truthVars
  <2> QED
    BY <2>1, <2>2, <2>3, <2>4, <2>5 DEF TypeOK, CallTypeOK
<1>5. ASSUME RefreshWake(r) PROVE TypeOK'
  BY <1>5, Constants, FieldTyped, CallFields, ConstantsOK
     DEF RefreshWake, GoTo, coordVars, chalVars, flightVars, idVars,
          issueVars, budgetVars, truthVars, Flight, TypeOK, CoordinatorTypeOK,
          ChallengeTypeOK, CallTypeOK, CountTypeOK
<1>6. ASSUME RefreshWaitCancelled(r) PROVE TypeOK'
  BY <1>6, Constants, FieldTyped, CallFields, ConstantsOK
     DEF RefreshWaitCancelled, GoTo, coordVars, chalVars, flightVars, idVars,
          issueVars, budgetVars, truthVars, Flight, TypeOK, CoordinatorTypeOK,
          ChallengeTypeOK, CallTypeOK, CountTypeOK
<1>7. ASSUME AfterRefresh(r) PROVE TypeOK'
  <2>1. CallTypeOK' /\ mu' \in Runtimes \cup {Nobody}
    <3>1. [call[r] EXCEPT !.rec = file.gen] \in Call
      BY <1>7, ResignedTyped DEF TypeOK, CallTypeOK, CoordinatorTypeOK
    <3> QED
      BY <1>7, <3>1, SignWithTyped, VerifyTyped, Constants
         DEF AfterRefresh, TypeOK, CoordinatorTypeOK
  <2>3. CoordinatorTypeOK'
    BY <1>7, <2>1 DEF AfterRefresh, TypeOK, CoordinatorTypeOK, coordVars, flightVars
  <2>4. ChallengeTypeOK'
    BY <1>7, NoneTyped
       DEF AfterRefresh, coordVars, chalVars, flightVars, idVars, issueVars,
          budgetVars, truthVars, TypeOK, CoordinatorTypeOK, ChallengeTypeOK,
          CallTypeOK, CountTypeOK
  <2>5. CountTypeOK'
    BY <1>7, ConstantsOK
       DEF AfterRefresh, coordVars, chalVars, flightVars, idVars, issueVars,
          budgetVars, truthVars, TypeOK, CoordinatorTypeOK, ChallengeTypeOK,
          CallTypeOK, CountTypeOK
  <2> QED
    BY <2>1, <2>3, <2>4, <2>5 DEF TypeOK
<1> QED
  BY <1>1, <1>2, <1>3, <1>4, <1>5, <1>6, <1>7

\* The host application, the clock and a restart preserve the types.
LEMMA HostTyped ==
    ASSUME TypeOK,
           \/ \E e \in Extensions : HostOf(e)
           \/ AgeSession
           \/ \E c \in Challenges : LapseChallenge(c)
           \/ Restart
    PROVE  TypeOK'
<1>1. ASSUME NEW e \in Extensions, NEW g \in Grants, HostSetsGrant(e, g)
      PROVE  TypeOK'
  BY <1>1, ConstantsOK
     DEF HostSetsGrant, Event, coordVars, chalVars, flightVars, idVars,
         issueVars, truthVars, TypeOK, CoordinatorTypeOK, ChallengeTypeOK,
         CallTypeOK, CountTypeOK
<1>2. ASSUME NEW e \in Extensions, HostClearsPendingAuth(e) PROVE TypeOK'
  BY <1>2, NoneTyped, ConstantsOK
     DEF HostClearsPendingAuth, Event, coordVars, flightVars, idVars, issueVars,
         truthVars, TypeOK, CoordinatorTypeOK, ChallengeTypeOK, CallTypeOK,
         CountTypeOK
<1>3. ASSUME NEW e \in Extensions, RegisterOAuth(e) PROVE TypeOK'
  <2>1. challenges + 1 \in Challenges
    BY <1>3, ConstantsOK DEF RegisterOAuth, Challenges, TypeOK, ChallengeTypeOK
  <2> QED
    BY <1>3, <2>1, ConstantsOK
       DEF RegisterOAuth, Event, coordVars, flightVars, issueVars, truthVars,
           TypeOK, CoordinatorTypeOK, ChallengeTypeOK, CallTypeOK, CountTypeOK
<1>4. ASSUME AgeSession PROVE TypeOK'
  BY <1>4, ConstantsOK
     DEF AgeSession, Event, Record, Ages, coordVars, chalVars, flightVars, idVars,
         issueVars, truthVars, TypeOK, CoordinatorTypeOK, ChallengeTypeOK,
         CallTypeOK, CountTypeOK
<1>5. ASSUME NEW c \in Challenges, LapseChallenge(c) PROVE TypeOK'
  BY <1>5, ConstantsOK
     DEF LapseChallenge, Event, coordVars, chalVars, flightVars, issueVars,
         truthVars, TypeOK, CoordinatorTypeOK, ChallengeTypeOK, CallTypeOK,
         CountTypeOK
<1>6. ASSUME Restart PROVE TypeOK'
  <2>1. CallTypeOK'
    BY <1>6, NoCallTyped, Constants DEF Restart, CallTypeOK
  <2>2. CoordinatorTypeOK'
    BY <1>6, SaveTyped, NoSessionTyped, NoneTyped
       DEF Restart, Flight, TypeOK, CoordinatorTypeOK, CountTypeOK
  <2>3. ChallengeTypeOK'
    BY <1>6, NoneTyped DEF Restart, idVars, TypeOK, ChallengeTypeOK
  <2>4. CountTypeOK'
    BY <1>6, SaveTyped, NoSessionTyped, NoneTyped
       DEF Restart, issueVars, TypeOK, CoordinatorTypeOK, CountTypeOK
  <2> QED
    BY <2>1, <2>2, <2>3, <2>4 DEF TypeOK
<1> QED
  BY <1>1, <1>2, <1>3, <1>4, <1>5, <1>6 DEF HostOf

\* Every step of the coordinator, or a stutter, preserves the types.
LEMMA TypeStep == ASSUME TypeOK, [Next]_vars PROVE TypeOK'
<1>1. CASE UNCHANGED vars
  BY <1>1 DEF vars, coordVars, chalVars, flightVars, idVars, issueVars,
              budgetVars, truthVars, TypeOK, CoordinatorTypeOK,
              ChallengeTypeOK, CallTypeOK, CountTypeOK
<1>2. ASSUME NEW r \in Runtimes, Starts(r) \/ Cancels(r) \/ Proceeds(r)
      PROVE  TypeOK'
  BY <1>2, ExchangeTyped, VerificationTyped, FetchTyped, RefreshTyped
     DEF Starts, Cancels, Proceeds
<1> QED
  BY <1>1, <1>2, HostTyped DEF Next

\* The initial states.
LEMMA TypeInit == Init => TypeOK
<1> SUFFICES ASSUME Init PROVE TypeOK
  OBVIOUS
<1>1. /\ file \in Record
      /\ issued \in Sessions
  BY ConstantsOK DEF Init, NoSession, Record, Sessions, Ages, None
<1>2. CoordinatorTypeOK
  BY <1>1, NoneTyped DEF Init, CoordinatorTypeOK, Flight
<1>3. ChallengeTypeOK
  BY NoneTyped, ConstantsOK DEF Init, ChallengeTypeOK, Challenges
<1>4. CallTypeOK
  BY NoCallTyped, Constants DEF Init, CallTypeOK
<1>5. CountTypeOK
  BY <1>1, NoneTyped, ConstantsOK DEF Init, CountTypeOK, Knowledge
<1> QED
  BY <1>2, <1>3, <1>4, <1>5 DEF TypeOK

-----------------------------------------------------------------------------
\* The type invariant of the coordinator: every field of the shared record, of
\* the coordinator and of every call in progress stays within its type, the
\* retry counters within their budgets.
THEOREM TypeCorrect == Spec => []TypeOK
  BY TypeInit, TypeStep, PTL DEF Spec

-----------------------------------------------------------------------------
\* The labels at which a call waits for a reply that can carry a session.
AskingPCs == {"exchange_http", "bootstrap_http", "refresh_http"}

\* A call whose clear generation is current went out after the last clear.
CallFresh ==
    \A r \in Runtimes :
        /\ call[r].began <= clearGeneration
        /\ (pc[r] \in AskingPCs /\ call[r].began = clearGeneration)
             => call[r].asked.clears = clears

\* A call remembers the session that was stored when it went out.
SawInv ==
    \A r \in Runtimes :
        /\ pc[r] = "exchange_http" => call[r].asked.over = call[r].rec
        /\ pc[r] \in {"bootstrap_http", "refresh_http"}
             => call[r].asked.over = call[r].base

\* An exchange that has not ended holds the grant it exchanges.
GrantHeld ==
    \A r \in Runtimes :
        pc[r] \in ExchangePCs \cup {"exchange_wait"} => call[r].grant \in Grants

\* While a bootstrap may still create a challenge, no other is on display.
BootstrapAlone ==
    (\E r \in Runtimes : pc[r] = "bootstrap_http")
        => /\ challenge \in oauth \cup {None}
           /\ \A e \in Extensions : pendingAuth[e] \in oauth \cup {None}

\* What a step does to the record: call r stores the session it was issued, over
\* the session it saw if that is good ...
Stores(r) ==
    /\ pc[r] \in AskingPCs
    /\ call[r].began = clearGeneration
    /\ ServerIssues(r)
    /\ file' = Issued
    /\ UNCHANGED clears
    /\ (Usable(file) /\ ~IsBlocked(file))
         => file.gen = IF pc[r] = "exchange_http" THEN call[r].rec ELSE call[r].base

\* ... or the step keeps the stored session or leaves none.
KeepsSession ==
    /\ file'.gen \in {file.gen, None}
    /\ UNCHANGED clears \/ file'.gen = None
    /\ UNCHANGED issueVars \/ \E r \in Runtimes : ServerIssues(r)

\* What a step does to the redeemed grants: it adds one with its session ...
Redeems(r) ==
    /\ redeemed' = [redeemed EXCEPT ![call[r].grant] = issued + 1]
    /\ completedGrant' = call[r].grant
    /\ ServerIssues(r)
    /\ file' = Issued

\* ... or keeps them, and the coordinator's memory of the last one.
KeepsGrants == UNCHANGED redeemed /\ (UNCHANGED completedGrant \/ file'.gen = None)

\* The four causes for which the stored session may go.
EraseCause ==
    (file.gen # None /\ file'.gen = None)
        => \/ file.exp = "expired"
           \/ file.gen \in revoked'
           \/ clears' # clears
           \/ events' # events

-----------------------------------------------------------------------------
(* The steps of a call. *)

\* No step of a call breaks the single flight of exchange, bootstrap or refresh.
LEMMA FlightStep ==
    ASSUME TypeOK, SingleFlight,
           NEW r \in Runtimes, Starts(r) \/ Cancels(r) \/ Proceeds(r)
    PROVE  SingleFlight'
<1>1. ASSUME \/ StartCompleteGrant(r) \/ ExchangeWaitCancelled(r)
             \/ ExchangeCheck(r) \/ ExchangeRateLimited(r)
             \/ ExchangeFails(r) \/ ExchangeReply(r) \/ ForgetGrant(r)
             \/ ForgetPendingAuth(r)
      PROVE  SingleFlight'
  BY <1>1
     DEF StartCompleteGrant, GoTo, coordVars, chalVars, flightVars, idVars,
          issueVars, truthVars, ExchangeWaitCancelled, Finish, budgetVars,
          Idle, ExchangeCheck, ExchangeEnds, AdoptShared, ExchangeRateLimited,
          ExchangeFails, ExchangeReply, StoreExchanged, ForgetGrant,
          ForgetPendingAuth, SingleFlight, ExchangePCs, TypeOK, CallTypeOK
<1>2. ASSUME BeginExchange(r) PROVE SingleFlight'
  BY <1>2
     DEF BeginExchange, GoTo, coordVars, chalVars, idVars, issueVars,
          budgetVars, truthVars, SingleFlight, ExchangePCs, TypeOK, CallTypeOK
<1>3. ASSUME ExchangeRelease(r) PROVE SingleFlight'
  BY <1>3
     DEF ExchangeRelease, GoTo, Finish, coordVars, chalVars, idVars,
          issueVars, budgetVars, truthVars, Idle, SingleFlight, ExchangePCs,
          TypeOK, CallTypeOK
<1>4. ASSUME \/ ClearSession(r) \/ VerifyReuse(r) \/ VerifyAdopt(r)
             \/ BootstrapWake(r) \/ BootstrapWaitCancelled(r)
      PROVE  SingleFlight'
  BY <1>4
     DEF ClearSession, coordVars, chalVars, flightVars, idVars, issueVars,
          VerifyReuse, Verified, budgetVars, truthVars, GoTo, VerifyAdopt,
          BootstrapWake, Lock, BootstrapWaitCancelled, SingleFlight,
          ExchangePCs, TypeOK, CallTypeOK
<1>5. ASSUME VerifyFresh(r) PROVE SingleFlight'
  BY <1>5
     DEF VerifyFresh, Verified, GoTo, Unlock, coordVars, idVars, issueVars,
          budgetVars, truthVars, SingleFlight, ExchangePCs, TypeOK, CallTypeOK
<1>6. ASSUME BootstrapFails(r) PROVE SingleFlight'
  BY <1>6
     DEF BootstrapFails, BootstrapLands, Verified, chalVars, idVars,
          issueVars, Lock, truthVars, GoTo, SingleFlight, ExchangePCs, TypeOK,
          CallTypeOK
<1>7. ASSUME BootstrapSession(r) PROVE SingleFlight'
  BY <1>7
     DEF BootstrapSession, BootstrapLands, Verified, chalVars, idVars, Lock,
          truthVars, GoTo, SingleFlight, ExchangePCs, TypeOK, CallTypeOK
<1>8. ASSUME BootstrapChallenge(r) PROVE SingleFlight'
  BY <1>8
     DEF BootstrapChallenge, BootstrapLands, Verified, chalVars, issueVars,
          Lock, truthVars, GoTo, SingleFlight, ExchangePCs, TypeOK, CallTypeOK
<1>9. ASSUME \/ Preflight(r) \/ StartFetch(r) \/ AfterVerify(r)
             \/ RequestDone(r) \/ ProviderUnavailable(r)
             \/ RequestAuthInvalid(r) \/ SessionInvalid(r)
             \/ VerifyRequired(r)
      PROVE  SingleFlight'
  BY <1>9
     DEF Preflight, Verify, coordVars, chalVars, flightVars, idVars,
          issueVars, truthVars, Lock, GoTo, StartFetch, SignWith, AfterVerify,
          Unlock, Finish, budgetVars, Idle, RequestDone, ProviderUnavailable,
          RequestAuthInvalid, SessionInvalid, StaleReply, VerifyRequired,
          SingleFlight, ExchangePCs, TypeOK, CallTypeOK
<1>10. ASSUME RefreshWake(r) \/ RefreshWaitCancelled(r) \/ AfterRefresh(r)
       PROVE  SingleFlight'
  BY <1>10
     DEF RefreshWake, GoTo, coordVars, chalVars, flightVars, idVars,
          issueVars, budgetVars, truthVars, RefreshWaitCancelled,
          AfterRefresh, SignWith, Verify, Lock, SingleFlight, ExchangePCs,
          TypeOK, CallTypeOK
<1>11. ASSUME StartRefresh(r) PROVE SingleFlight'
  BY <1>11
     DEF StartRefresh, GoTo, coordVars, chalVars, idVars, issueVars,
          budgetVars, truthVars, SingleFlight, ExchangePCs, TypeOK, CallTypeOK
<1>12. ASSUME RefreshFails(r) PROVE SingleFlight'
  BY <1>12
     DEF RefreshFails, RefreshLands, issueVars, GoTo, coordVars, chalVars,
          idVars, truthVars, SingleFlight, ExchangePCs, TypeOK, CallTypeOK
<1>13. ASSUME RefreshRotates(r) PROVE SingleFlight'
  BY <1>13
     DEF RefreshRotates, RefreshStores, RefreshLands, GoTo, coordVars,
          chalVars, idVars, truthVars, SingleFlight, ExchangePCs, TypeOK,
          CallTypeOK
<1>14. ASSUME RefreshExtends(r) PROVE SingleFlight'
  BY <1>14
     DEF RefreshExtends, RefreshStores, issueVars, RefreshLands, GoTo,
          coordVars, chalVars, idVars, truthVars, SingleFlight, ExchangePCs,
          TypeOK, CallTypeOK
<1> QED
  BY <1>1, <1>2, <1>3, <1>4, <1>5, <1>6, <1>7, <1>8, <1>9, <1>10, <1>11,
          <1>12, <1>13, <1>14 DEF Starts, Cancels, Proceeds

\* A step of a call stores the session it obtained, or keeps the stored one, or
\* leaves no session.
LEMMA StoreStep ==
    ASSUME TypeOK,
           NEW r \in Runtimes, Starts(r) \/ Cancels(r) \/ Proceeds(r)
    PROVE  Stores(r) \/ KeepsSession
<1>1. ASSUME \/ StartCompleteGrant(r) \/ BeginExchange(r)
             \/ ExchangeWaitCancelled(r) \/ ExchangeCheck(r)
             \/ ExchangeRateLimited(r) \/ ExchangeFails(r)
             \/ ExchangeRelease(r) \/ ForgetGrant(r) \/ ForgetPendingAuth(r)
      PROVE  Stores(r) \/ KeepsSession
  BY <1>1
     DEF StartCompleteGrant, GoTo, coordVars, chalVars, flightVars, idVars,
          issueVars, truthVars, BeginExchange, budgetVars,
          ExchangeWaitCancelled, ExchangeCheck, Superseded, AdoptShared,
          Asking, ExchangeRateLimited, ExchangeFails, ExchangeRelease,
          ForgetGrant, ForgetPendingAuth, Stores, KeepsSession, AskingPCs,
          Record, None, NoSession, TypeOK, CoordinatorTypeOK, CallTypeOK,
          CountTypeOK
<1>2. ASSUME ExchangeReply(r) PROVE Stores(r) \/ KeepsSession
  BY <1>2
     DEF ExchangeReply, Superseded, coordVars, chalVars, NewerThan,
          AdoptShared, StoreExchanged, flightVars, idVars, Save, SaveFails,
          NoSession, Stores, KeepsSession, AskingPCs, Record, None, TypeOK,
          CoordinatorTypeOK, CallTypeOK, CountTypeOK
<1>3. ASSUME \/ VerifyReuse(r) \/ VerifyAdopt(r) \/ VerifyFresh(r)
             \/ BootstrapFails(r) \/ BootstrapChallenge(r)
             \/ BootstrapWake(r) \/ BootstrapWaitCancelled(r)
      PROVE  Stores(r) \/ KeepsSession
  BY <1>3
     DEF VerifyReuse, coordVars, flightVars, idVars, issueVars, budgetVars,
          truthVars, VerifyAdopt, VerifyFresh, GoTo, Unlock, Asking,
          BootstrapFails, BootstrapLands, chalVars, Lock, BootstrapChallenge,
          Superseded, Overtaken, NewerThan, BootstrapWake,
          BootstrapWaitCancelled, Stores, KeepsSession, AskingPCs, Record,
          None, NoSession, TypeOK, CoordinatorTypeOK, CallTypeOK, CountTypeOK
<1>4. ASSUME ClearSession(r) PROVE Stores(r) \/ KeepsSession
  BY <1>4
     DEF ClearSession, Save, NoSession, SaveFails, coordVars, chalVars,
          flightVars, idVars, issueVars, Stores, KeepsSession, AskingPCs,
          Record, None, TypeOK, CoordinatorTypeOK, CallTypeOK, CountTypeOK
<1>5. ASSUME BootstrapSession(r) PROVE Stores(r) \/ KeepsSession
  BY <1>5
     DEF BootstrapSession, Superseded, BootstrapLands, chalVars, Overtaken,
          Save, SaveFails, idVars, Lock, truthVars, NewerThan, NoSession,
          Stores, KeepsSession, AskingPCs, Record, None, TypeOK,
          CoordinatorTypeOK, CallTypeOK, CountTypeOK
<1>6. ASSUME \/ Preflight(r) \/ AfterVerify(r) \/ RequestDone(r)
             \/ ProviderUnavailable(r) \/ RequestAuthInvalid(r)
      PROVE  Stores(r) \/ KeepsSession
  BY <1>6
     DEF Preflight, coordVars, chalVars, flightVars, idVars, issueVars,
          truthVars, AfterVerify, Unlock, GoTo, budgetVars, RequestDone,
          ProviderUnavailable, RequestAuthInvalid, NewerThan, Stores,
          KeepsSession, AskingPCs, Record, None, NoSession, TypeOK,
          CoordinatorTypeOK, CallTypeOK, CountTypeOK
<1>7. ASSUME StartFetch(r) PROVE Stores(r) \/ KeepsSession
  BY <1>7
     DEF StartFetch, Save, NoSession, SaveFails, GoTo, coordVars, chalVars,
          flightVars, idVars, issueVars, truthVars, Stores, KeepsSession,
          AskingPCs, Record, None, TypeOK, CoordinatorTypeOK, CallTypeOK,
          CountTypeOK
<1>8. ASSUME SessionInvalid(r) PROVE Stores(r) \/ KeepsSession
  BY <1>8
     DEF SessionInvalid, StaleReply, NewerThan, StoredIs, Save, NoSession,
          SaveFails, chalVars, flightVars, idVars, issueVars, Stores,
          KeepsSession, AskingPCs, Record, None, TypeOK, CoordinatorTypeOK,
          CallTypeOK, CountTypeOK
<1>9. ASSUME VerifyRequired(r) PROVE Stores(r) \/ KeepsSession
  BY <1>9
     DEF VerifyRequired, StaleReply, NewerThan, StoredIs, chalVars,
          flightVars, idVars, issueVars, truthVars, Stores, KeepsSession,
          AskingPCs, Record, None, NoSession, TypeOK, CoordinatorTypeOK,
          CallTypeOK, CountTypeOK
<1>10. ASSUME \/ StartRefresh(r) \/ RefreshFails(r) \/ RefreshWake(r)
              \/ RefreshWaitCancelled(r) \/ AfterRefresh(r)
       PROVE  Stores(r) \/ KeepsSession
  BY <1>10
     DEF StartRefresh, GoTo, Asking, coordVars, chalVars, idVars, issueVars,
          budgetVars, truthVars, RefreshFails, RefreshLands, RefreshWake,
          flightVars, RefreshWaitCancelled, AfterRefresh, Stores,
          KeepsSession, AskingPCs, Record, None, NoSession, TypeOK,
          CoordinatorTypeOK, CallTypeOK, CountTypeOK
<1>11. ASSUME RefreshRotates(r) PROVE Stores(r) \/ KeepsSession
  BY <1>11
     DEF RefreshRotates, RefreshStores, Superseded, RefreshLands, StoredIs,
          Save, SaveFails, GoTo, coordVars, chalVars, idVars, truthVars,
          NoSession, Stores, KeepsSession, AskingPCs, Record, None, TypeOK,
          CoordinatorTypeOK, CallTypeOK, CountTypeOK
<1>12. ASSUME RefreshExtends(r) PROVE Stores(r) \/ KeepsSession
  BY <1>12
     DEF RefreshExtends, RefreshStores, issueVars, Superseded, RefreshLands,
          StoredIs, Save, SaveFails, GoTo, coordVars, chalVars, idVars,
          truthVars, NoSession, Stores, KeepsSession, AskingPCs, Record, None,
          TypeOK, CoordinatorTypeOK, CallTypeOK, CountTypeOK
<1> QED
  BY <1>1, <1>2, <1>3, <1>4, <1>5, <1>6, <1>7, <1>8, <1>9, <1>10, <1>11, <1>12 DEF Starts, Cancels, Proceeds

\* Re-signing a call and entering verification keep the clear generation it read.
LEMMA BeganKept ==
    ASSUME NEW c \in Call
    PROVE  /\ \A v : [c EXCEPT !.rec = v].began = c.began
           /\ \A v : [c EXCEPT !.rec = v, !.session = @ + 1].began = c.began
           /\ \A v : [c EXCEPT !.rec = v, !.auth = TRUE].began = c.began
           /\ \A v : [c EXCEPT !.ret = v].began = c.began
  BY DEF Call

\* A call that ends waits for no reply.
LEMMA FinishFresh ==
    ASSUME TypeOK, CallFresh, NEW r \in Runtimes,
           Finish(r), UNCHANGED <<clearGeneration, clears>>
    PROVE  CallFresh'
  BY DEF Finish, GoTo, Idle, NoCall, CallFresh, AskingPCs, TypeOK,
         CoordinatorTypeOK, CallTypeOK

\* A call that is signed again leaves no exchange, bootstrap or refresh behind.
LEMMA SignWithFresh ==
    ASSUME TypeOK, CallFresh, NEW r \in Runtimes, NEW change,
           SignWith(r, change), change.began = call[r].began,
           UNCHANGED <<clearGeneration, clears>>
    PROVE  CallFresh'
<1>1. call'[r].began = call[r].began
  BY DEF SignWith, TypeOK, CallTypeOK
<1>2. \A s \in Runtimes \ {r} : call'[s] = call[s]
  BY DEF SignWith, TypeOK, CallTypeOK
<1>3. pc' = [pc EXCEPT ![r] = "request"]
  BY DEF SignWith, GoTo
<1> QED
  BY <1>1, <1>2, <1>3 DEF CallFresh, AskingPCs, TypeOK, CallTypeOK

\* Neither does a call that enters verification.
LEMMA VerifyKeepsFresh ==
    ASSUME TypeOK, CallFresh, NEW r \in Runtimes, NEW point \in Returns,
           Verify(r, point), UNCHANGED <<clearGeneration, clears>>
    PROVE  CallFresh'
<1>1. call'[r].began = call[r].began
  BY BeganKept DEF Verify, TypeOK, CallTypeOK
<1>2. \A s \in Runtimes \ {r} : call'[s] = call[s]
  BY DEF Verify, TypeOK, CallTypeOK
<1>3. pc' = [pc EXCEPT ![r] = "verify"]
  BY DEF Verify, GoTo
<1> QED
  BY <1>1, <1>2, <1>3 DEF CallFresh, AskingPCs, TypeOK, CallTypeOK

\* A reply a call waits for is still answered for the credentials of its own
\* clear generation.
LEMMA FreshStep ==
    ASSUME TypeOK, CallFresh,
           NEW r \in Runtimes, Starts(r) \/ Cancels(r) \/ Proceeds(r)
    PROVE  CallFresh'
<1>1. ASSUME \/ BeginExchange(r) \/ ExchangeWaitCancelled(r)
             \/ ExchangeRateLimited(r) \/ ExchangeFails(r)
             \/ ExchangeRelease(r) \/ ForgetGrant(r) \/ ForgetPendingAuth(r)
      PROVE  CallFresh'
  BY SMTT(20), <1>1
     DEF BeginExchange, GoTo, coordVars, chalVars, idVars, issueVars,
          budgetVars, truthVars, ExchangeWaitCancelled, Finish, flightVars,
          Idle, NoCall, ExchangeRateLimited, ExchangeFails, ExchangeEnds,
          ExchangeRelease, ForgetGrant, ForgetPendingAuth, CallFresh,
          AskingPCs, Asking, Call, TypeOK, CoordinatorTypeOK, CallTypeOK,
          CountTypeOK
<1>2. ASSUME StartCompleteGrant(r) PROVE CallFresh'
  BY <1>2
     DEF StartCompleteGrant, Begins, GoTo, coordVars, chalVars, flightVars,
          idVars, issueVars, truthVars, Idle, CallFresh, AskingPCs, Asking,
          Call, NoCall, TypeOK, CoordinatorTypeOK, CallTypeOK, CountTypeOK
<1>3. ASSUME ExchangeCheck(r) PROVE CallFresh'
  BY <1>3
     DEF ExchangeCheck, Superseded, ExchangeEnds, coordVars, chalVars,
          AdoptShared, Asking, GoTo, flightVars, idVars, issueVars,
          budgetVars, truthVars, CallFresh, AskingPCs, Call, NoCall, TypeOK,
          CoordinatorTypeOK, CallTypeOK, CountTypeOK
<1>4. ASSUME ExchangeReply(r) PROVE CallFresh'
  BY SMTT(20), <1>4
     DEF ExchangeReply, Superseded, ExchangeEnds, coordVars, chalVars,
          AdoptShared, StoreExchanged, flightVars, idVars, GoTo, CallFresh,
          AskingPCs, Asking, Call, NoCall, TypeOK, CoordinatorTypeOK,
          CallTypeOK, CountTypeOK
<1>5. ASSUME \/ VerifyReuse(r) \/ VerifyAdopt(r) \/ BootstrapFails(r)
             \/ BootstrapWake(r) \/ BootstrapWaitCancelled(r)
      PROVE  CallFresh'
  BY <1>5
     DEF VerifyReuse, Verified, coordVars, flightVars, idVars, issueVars,
          budgetVars, truthVars, GoTo, VerifyAdopt, BootstrapFails,
          BootstrapLands, chalVars, Lock, BootstrapWake,
          BootstrapWaitCancelled, CallFresh, AskingPCs, Asking, Call, NoCall,
          TypeOK, CoordinatorTypeOK, CallTypeOK, CountTypeOK
<1>6. ASSUME ClearSession(r) PROVE CallFresh'
  BY <1>6
     DEF ClearSession, Begins, coordVars, chalVars, flightVars, idVars,
          issueVars, Idle, CallFresh, AskingPCs, Asking, Call, NoCall, TypeOK,
          CoordinatorTypeOK, CallTypeOK, CountTypeOK
<1>7. ASSUME BootstrapSession(r) PROVE CallFresh'
  BY <1>7
     DEF BootstrapSession, Superseded, BootstrapLands, Verified, chalVars,
          idVars, Lock, truthVars, GoTo, CallFresh, AskingPCs, Asking, Call,
          NoCall, TypeOK, CoordinatorTypeOK, CallTypeOK, CountTypeOK
<1>8. ASSUME BootstrapChallenge(r) PROVE CallFresh'
  BY <1>8
     DEF BootstrapChallenge, Superseded, BootstrapLands, Verified, chalVars,
          issueVars, Lock, truthVars, GoTo, CallFresh, AskingPCs, Asking,
          Call, NoCall, TypeOK, CoordinatorTypeOK, CallTypeOK, CountTypeOK
<1>9. ASSUME VerifyFresh(r) PROVE CallFresh'
  <2>1. /\ \A s \in Runtimes \ {r} : pc'[s] = pc[s] /\ call'[s] = call[s]
        /\ UNCHANGED <<clearGeneration, clears>>
    BY <1>9 DEF VerifyFresh, Verified, GoTo, coordVars, truthVars, TypeOK, CallTypeOK
  <2>2. CASE pc'[r] # "bootstrap_http"
    <3>1. pc'[r] \notin AskingPCs /\ call'[r].began = call[r].began
      BY <1>9, <2>2 DEF VerifyFresh, Verified, GoTo, AskingPCs, Call, TypeOK, CallTypeOK
    <3> QED
      BY <2>1, <3>1 DEF CallFresh
  <2>3. CASE /\ GoTo(r, "bootstrap_http")
             /\ call' = [call EXCEPT ![r].base = file.gen,
                                     ![r].began = clearGeneration,
                                     ![r].asked = Asking]
    <3>1. call'[r].began = clearGeneration /\ call'[r].asked.clears = clears
      BY <2>3 DEF Asking, Call, TypeOK, CallTypeOK
    <3> QED
      BY <2>1, <2>3, <3>1 DEF GoTo, CallFresh, TypeOK, CoordinatorTypeOK, CallTypeOK
  <2> QED
    BY <1>9, <2>2, <2>3 DEF VerifyFresh, Verified, GoTo, TypeOK, CallTypeOK
<1>10. ASSUME RequestDone(r) \/ ProviderUnavailable(r)
       PROVE  CallFresh'
  BY <1>10
     DEF RequestDone, Finish, coordVars, chalVars, flightVars, idVars,
          issueVars, budgetVars, truthVars, GoTo, Idle, NoCall,
          ProviderUnavailable, SignWith, CallFresh, AskingPCs, Asking, Call,
          TypeOK, CoordinatorTypeOK, CallTypeOK, CountTypeOK
<1>11. ASSUME Preflight(r) PROVE CallFresh'
  BY <1>11
     DEF Preflight, Begins, Verify, coordVars, chalVars, flightVars, idVars,
          issueVars, truthVars, Idle, Lock, GoTo, CallFresh, AskingPCs,
          Asking, Call, NoCall, TypeOK, CoordinatorTypeOK, CallTypeOK,
          CountTypeOK
<1>12. ASSUME StartFetch(r) PROVE CallFresh'
  BY <1>12
     DEF StartFetch, Begins, Verify, GoTo, SignWith, coordVars, chalVars,
          flightVars, idVars, issueVars, truthVars, Idle, Lock, CallFresh,
          AskingPCs, Asking, Call, NoCall, TypeOK, CoordinatorTypeOK,
          CallTypeOK, CountTypeOK
<1>13. ASSUME AfterVerify(r) PROVE CallFresh'
  <2>1. UNCHANGED <<clearGeneration, clears>>
    BY <1>13 DEF AfterVerify, coordVars, truthVars
  <2>2. CASE GoTo(r, "refresh") /\ UNCHANGED call
    BY <2>1, <2>2 DEF GoTo, CallFresh, AskingPCs, TypeOK, CallTypeOK
  <2>3. CASE Finish(r)
    BY <2>1, <2>3, FinishFresh
  <2>4. CASE SignWith(r, [call[r] EXCEPT !.rec = file.gen])
    BY <2>1, <2>4, SignWithFresh, BeganKept DEF TypeOK, CallTypeOK
  <2>5. CASE SignWith(r, [call[r] EXCEPT !.rec = file.gen, !.session = @ + 1])
    BY <2>1, <2>5, SignWithFresh, BeganKept DEF TypeOK, CallTypeOK
  <2> QED
    BY <1>13, <2>2, <2>3, <2>4, <2>5 DEF AfterVerify
<1>14. ASSUME RequestAuthInvalid(r) PROVE CallFresh'
  <2>1. UNCHANGED <<clearGeneration, clears>>
    BY <1>14 DEF RequestAuthInvalid, coordVars, truthVars
  <2>2. CASE Finish(r)
    BY <2>1, <2>2, FinishFresh
  <2>3. CASE SignWith(r, [call[r] EXCEPT !.rec = file.gen, !.auth = TRUE])
    BY <2>1, <2>3, SignWithFresh, BeganKept DEF TypeOK, CallTypeOK
  <2> QED
    BY <1>14, <2>2, <2>3 DEF RequestAuthInvalid
<1>15. ASSUME SessionInvalid(r) PROVE CallFresh'
  <2>1. UNCHANGED <<clearGeneration, clears>>
    BY <1>15 DEF SessionInvalid, truthVars
  <2>2. CASE Finish(r)
    BY <2>1, <2>2, FinishFresh
  <2>3. CASE Verify(r, "response")
    BY <2>1, <2>3, VerifyKeepsFresh, Constants
  <2>4. CASE SignWith(r, [call[r] EXCEPT !.rec = file.gen, !.session = @ + 1])
    BY <2>1, <2>4, SignWithFresh, BeganKept DEF TypeOK, CallTypeOK
  <2> QED
    BY <1>15, <2>2, <2>3, <2>4 DEF SessionInvalid, StaleReply
<1>16. ASSUME VerifyRequired(r) PROVE CallFresh'
  <2>1. UNCHANGED <<clearGeneration, clears>>
    BY <1>16 DEF VerifyRequired, truthVars
  <2>2. CASE Finish(r)
    BY <2>1, <2>2, FinishFresh
  <2>3. CASE Verify(r, "response")
    BY <2>1, <2>3, VerifyKeepsFresh, Constants
  <2>4. CASE SignWith(r, [call[r] EXCEPT !.rec = file.gen, !.session = @ + 1])
    BY <2>1, <2>4, SignWithFresh, BeganKept DEF TypeOK, CallTypeOK
  <2> QED
    BY <1>16, <2>2, <2>3, <2>4 DEF VerifyRequired, StaleReply
<1>17. ASSUME RefreshFails(r) \/ RefreshWake(r) \/ RefreshWaitCancelled(r)
       PROVE  CallFresh'
  BY <1>17
     DEF RefreshFails, RefreshLands, issueVars, GoTo, coordVars, chalVars,
          idVars, truthVars, RefreshWake, flightVars, budgetVars,
          RefreshWaitCancelled, CallFresh, AskingPCs, Asking, Call, NoCall,
          TypeOK, CoordinatorTypeOK, CallTypeOK, CountTypeOK
<1>18. ASSUME StartRefresh(r) PROVE CallFresh'
  BY <1>18
     DEF StartRefresh, GoTo, Asking, coordVars, chalVars, idVars, issueVars,
          budgetVars, truthVars, CallFresh, AskingPCs, Call, NoCall, TypeOK,
          CoordinatorTypeOK, CallTypeOK, CountTypeOK
<1>19. ASSUME RefreshRotates(r) PROVE CallFresh'
  BY <1>19
     DEF RefreshRotates, RefreshStores, Superseded, RefreshLands, GoTo,
          coordVars, chalVars, idVars, truthVars, CallFresh, AskingPCs,
          Asking, Call, NoCall, TypeOK, CoordinatorTypeOK, CallTypeOK,
          CountTypeOK
<1>20. ASSUME RefreshExtends(r) PROVE CallFresh'
  BY <1>20
     DEF RefreshExtends, RefreshStores, issueVars, Superseded, RefreshLands,
          GoTo, coordVars, chalVars, idVars, truthVars, CallFresh, AskingPCs,
          Asking, Call, NoCall, TypeOK, CoordinatorTypeOK, CallTypeOK,
          CountTypeOK
<1>21. ASSUME AfterRefresh(r) PROVE CallFresh'
  BY <1>21
     DEF AfterRefresh, SignWith, Verify, coordVars, chalVars, flightVars,
          idVars, issueVars, budgetVars, truthVars, GoTo, Lock, CallFresh,
          AskingPCs, Asking, Call, NoCall, TypeOK, CoordinatorTypeOK,
          CallTypeOK, CountTypeOK
<1> QED
  BY <1>1, <1>2, <1>3, <1>4, <1>5, <1>6, <1>7, <1>8, <1>9, <1>10, <1>11,
          <1>12, <1>13, <1>14, <1>15, <1>16, <1>17, <1>18, <1>19, <1>20, <1>21 DEF Starts, Cancels, Proceeds

\* The session a call remembers to have seen is the one it signed or found when
\* it left for the server.
LEMMA SawStep ==
    ASSUME TypeOK, SawInv,
           NEW r \in Runtimes, Starts(r) \/ Cancels(r) \/ Proceeds(r)
    PROVE  SawInv'
<1>1. ASSUME \/ BeginExchange(r) \/ ExchangeWaitCancelled(r)
             \/ ExchangeRateLimited(r) \/ ExchangeFails(r)
             \/ ExchangeReply(r) \/ ExchangeRelease(r) \/ ForgetGrant(r)
             \/ ForgetPendingAuth(r)
      PROVE  SawInv'
  BY <1>1
     DEF BeginExchange, GoTo, coordVars, chalVars, idVars, issueVars,
          budgetVars, truthVars, ExchangeWaitCancelled, Finish, flightVars,
          Idle, NoCall, ExchangeRateLimited, ExchangeFails, ExchangeEnds,
          ExchangeReply, AdoptShared, StoreExchanged, ExchangeRelease,
          ForgetGrant, ForgetPendingAuth, SawInv, Asking, Call, TypeOK,
          CoordinatorTypeOK, CallTypeOK, CountTypeOK
<1>2. ASSUME StartCompleteGrant(r) PROVE SawInv'
  BY <1>2
     DEF StartCompleteGrant, Begins, GoTo, coordVars, chalVars, flightVars,
          idVars, issueVars, truthVars, Idle, SawInv, Asking, Call, TypeOK,
          CoordinatorTypeOK, CallTypeOK, CountTypeOK
<1>3. ASSUME ExchangeCheck(r) PROVE SawInv'
  BY <1>3
     DEF ExchangeCheck, ExchangeEnds, coordVars, chalVars, AdoptShared,
          Asking, GoTo, flightVars, idVars, issueVars, budgetVars, truthVars,
          SawInv, Call, TypeOK, CoordinatorTypeOK, CallTypeOK, CountTypeOK
<1>4. ASSUME \/ ClearSession(r) \/ VerifyReuse(r) \/ VerifyAdopt(r)
             \/ BootstrapFails(r) \/ BootstrapWake(r)
             \/ BootstrapWaitCancelled(r)
      PROVE  SawInv'
  BY <1>4
     DEF ClearSession, Begins, coordVars, chalVars, flightVars, idVars,
          issueVars, Idle, VerifyReuse, Verified, budgetVars, truthVars, GoTo,
          VerifyAdopt, BootstrapFails, BootstrapLands, Lock, BootstrapWake,
          BootstrapWaitCancelled, SawInv, Asking, Call, TypeOK,
          CoordinatorTypeOK, CallTypeOK, CountTypeOK
<1>5. ASSUME VerifyFresh(r) PROVE SawInv'
  BY <1>5
     DEF VerifyFresh, Verified, GoTo, Unlock, Asking, coordVars, idVars,
          issueVars, budgetVars, truthVars, SawInv, Call, TypeOK,
          CoordinatorTypeOK, CallTypeOK, CountTypeOK
<1>6. ASSUME BootstrapSession(r) PROVE SawInv'
  BY <1>6
     DEF BootstrapSession, BootstrapLands, Verified, chalVars, idVars, Lock,
          truthVars, GoTo, SawInv, Asking, Call, TypeOK, CoordinatorTypeOK,
          CallTypeOK, CountTypeOK
<1>7. ASSUME BootstrapChallenge(r) PROVE SawInv'
  BY <1>7
     DEF BootstrapChallenge, BootstrapLands, Verified, chalVars, issueVars,
          Lock, truthVars, GoTo, SawInv, Asking, Call, TypeOK,
          CoordinatorTypeOK, CallTypeOK, CountTypeOK
<1>8. ASSUME RequestDone(r) \/ ProviderUnavailable(r)
      PROVE  SawInv'
  BY <1>8
     DEF RequestDone, Finish, coordVars, chalVars, flightVars, idVars,
          issueVars, budgetVars, truthVars, GoTo, Idle, NoCall,
          ProviderUnavailable, SignWith, SawInv, Asking, Call, TypeOK,
          CoordinatorTypeOK, CallTypeOK, CountTypeOK
<1>9. ASSUME Preflight(r) PROVE SawInv'
  BY <1>9
     DEF Preflight, Begins, Verify, coordVars, chalVars, flightVars, idVars,
          issueVars, truthVars, Idle, Lock, GoTo, SawInv, Asking, Call,
          TypeOK, CoordinatorTypeOK, CallTypeOK, CountTypeOK
<1>10. ASSUME StartFetch(r) PROVE SawInv'
  BY <1>10
     DEF StartFetch, Begins, Verify, GoTo, SignWith, coordVars, chalVars,
          flightVars, idVars, issueVars, truthVars, Idle, Lock, SawInv,
          Asking, Call, TypeOK, CoordinatorTypeOK, CallTypeOK, CountTypeOK
<1>11. ASSUME AfterVerify(r) PROVE SawInv'
  BY <1>11
     DEF AfterVerify, Unlock, GoTo, SignWith, Finish, coordVars, chalVars,
          flightVars, idVars, issueVars, budgetVars, truthVars, Idle, NoCall,
          SawInv, Asking, Call, TypeOK, CoordinatorTypeOK, CallTypeOK,
          CountTypeOK
<1>12. ASSUME RequestAuthInvalid(r) PROVE SawInv'
  BY <1>12
     DEF RequestAuthInvalid, SignWith, Finish, coordVars, chalVars,
          flightVars, idVars, issueVars, budgetVars, truthVars, GoTo, Idle,
          NoCall, SawInv, Asking, Call, TypeOK, CoordinatorTypeOK, CallTypeOK,
          CountTypeOK
<1>13. ASSUME SessionInvalid(r) PROVE SawInv'
  BY <1>13
     DEF SessionInvalid, StaleReply, Verify, Finish, chalVars, flightVars,
          idVars, issueVars, SignWith, Lock, GoTo, Idle, NoCall, SawInv,
          Asking, Call, TypeOK, CoordinatorTypeOK, CallTypeOK, CountTypeOK
<1>14. ASSUME VerifyRequired(r) PROVE SawInv'
  BY <1>14
     DEF VerifyRequired, StaleReply, Verify, chalVars, flightVars, idVars,
          issueVars, truthVars, SignWith, Finish, Lock, GoTo, Idle, NoCall,
          SawInv, Asking, Call, TypeOK, CoordinatorTypeOK, CallTypeOK,
          CountTypeOK
<1>15. ASSUME \/ RefreshFails(r) \/ RefreshRotates(r) \/ RefreshExtends(r)
              \/ RefreshWake(r) \/ RefreshWaitCancelled(r)
       PROVE  SawInv'
  BY <1>15
     DEF RefreshFails, RefreshLands, issueVars, GoTo, coordVars, chalVars,
          idVars, truthVars, RefreshRotates, RefreshStores, RefreshExtends,
          RefreshWake, flightVars, budgetVars, RefreshWaitCancelled, SawInv,
          Asking, Call, TypeOK, CoordinatorTypeOK, CallTypeOK, CountTypeOK
<1>16. ASSUME AfterRefresh(r) PROVE SawInv'
  BY <1>16
     DEF AfterRefresh, SignWith, Verify, coordVars, chalVars, flightVars,
          idVars, issueVars, budgetVars, truthVars, GoTo, Lock, SawInv,
          Asking, Call, TypeOK, CoordinatorTypeOK, CallTypeOK, CountTypeOK
<1>17. ASSUME StartRefresh(r) PROVE SawInv'
  <2>1. \A s \in Runtimes \ {r} : pc'[s] = pc[s] /\ call'[s] = call[s]
    BY <1>17 DEF StartRefresh, GoTo, TypeOK, CallTypeOK
  <2>2. CASE pc'[r] # "refresh_http"
    BY <1>17, <2>1, <2>2 DEF StartRefresh, GoTo, SawInv, TypeOK, CallTypeOK
  <2>3. CASE /\ GoTo(r, "refresh_http")
             /\ call' = [call EXCEPT ![r].base = file.gen,
                                     ![r].began = clearGeneration,
                                     ![r].asked = Asking]
    <3>1. call'[r].asked.over = call'[r].base
      BY <2>3 DEF Asking, Call, TypeOK, CallTypeOK
    <3> QED
      BY <2>1, <2>3, <3>1 DEF GoTo, SawInv, TypeOK, CallTypeOK
  <2> QED
    BY <1>17, <2>2, <2>3 DEF StartRefresh, GoTo, TypeOK, CallTypeOK
<1> QED
  BY <1>1, <1>2, <1>3, <1>4, <1>5, <1>6, <1>7, <1>8, <1>9, <1>10, <1>11,
          <1>12, <1>13, <1>14, <1>15, <1>16, <1>17 DEF Starts, Cancels, Proceeds

\* A step records a redeemed grant together with the session stored for it, or
\* keeps what is recorded.
LEMMA RedeemStep ==
    ASSUME TypeOK,
           NEW r \in Runtimes, Starts(r) \/ Cancels(r) \/ Proceeds(r)
    PROVE  Redeems(r) \/ KeepsGrants
<1>1. ASSUME \/ StartCompleteGrant(r) \/ BeginExchange(r)
             \/ ExchangeWaitCancelled(r) \/ ExchangeCheck(r)
             \/ ExchangeRateLimited(r) \/ ExchangeFails(r)
             \/ ExchangeRelease(r) \/ ForgetGrant(r) \/ ForgetPendingAuth(r)
      PROVE  Redeems(r) \/ KeepsGrants
  BY <1>1
     DEF StartCompleteGrant, GoTo, coordVars, chalVars, flightVars, idVars,
          issueVars, truthVars, BeginExchange, budgetVars,
          ExchangeWaitCancelled, ExchangeCheck, AdoptShared, Asking,
          ExchangeRateLimited, ExchangeFails, ExchangeRelease, ForgetGrant,
          ForgetPendingAuth, Redeems, KeepsGrants, None, NoSession, TypeOK,
          CoordinatorTypeOK, CallTypeOK, CountTypeOK
<1>2. ASSUME ExchangeReply(r) PROVE Redeems(r) \/ KeepsGrants
  BY <1>2
     DEF ExchangeReply, coordVars, chalVars, AdoptShared, StoreExchanged,
          flightVars, idVars, Save, SaveFails, NoSession, Redeems,
          KeepsGrants, None, TypeOK, CoordinatorTypeOK, CallTypeOK,
          CountTypeOK
<1>3. ASSUME \/ VerifyReuse(r) \/ VerifyAdopt(r) \/ VerifyFresh(r)
             \/ BootstrapFails(r) \/ BootstrapSession(r)
             \/ BootstrapChallenge(r) \/ BootstrapWake(r)
             \/ BootstrapWaitCancelled(r)
      PROVE  Redeems(r) \/ KeepsGrants
  BY <1>3
     DEF VerifyReuse, coordVars, flightVars, idVars, issueVars, budgetVars,
          truthVars, VerifyAdopt, VerifyFresh, GoTo, Unlock, Asking,
          BootstrapFails, BootstrapLands, chalVars, Lock, BootstrapSession,
          Save, SaveFails, NoSession, BootstrapChallenge, BootstrapWake,
          BootstrapWaitCancelled, Redeems, KeepsGrants, None, TypeOK,
          CoordinatorTypeOK, CallTypeOK, CountTypeOK
<1>4. ASSUME ClearSession(r) PROVE Redeems(r) \/ KeepsGrants
  BY <1>4
     DEF ClearSession, Save, NoSession, SaveFails, coordVars, chalVars,
          flightVars, idVars, issueVars, Redeems, KeepsGrants, None, TypeOK,
          CoordinatorTypeOK, CallTypeOK, CountTypeOK
<1>5. ASSUME \/ Preflight(r) \/ StartFetch(r) \/ AfterVerify(r)
             \/ RequestDone(r) \/ ProviderUnavailable(r)
             \/ RequestAuthInvalid(r) \/ SessionInvalid(r)
             \/ VerifyRequired(r)
      PROVE  Redeems(r) \/ KeepsGrants
  BY <1>5
     DEF Preflight, coordVars, chalVars, flightVars, idVars, issueVars,
          truthVars, StartFetch, Save, NoSession, SaveFails, GoTo,
          AfterVerify, Unlock, budgetVars, RequestDone, ProviderUnavailable,
          RequestAuthInvalid, SessionInvalid, StaleReply, VerifyRequired,
          Redeems, KeepsGrants, None, TypeOK, CoordinatorTypeOK, CallTypeOK,
          CountTypeOK
<1>6. ASSUME \/ StartRefresh(r) \/ RefreshFails(r) \/ RefreshRotates(r)
             \/ RefreshExtends(r) \/ RefreshWake(r)
             \/ RefreshWaitCancelled(r) \/ AfterRefresh(r)
      PROVE  Redeems(r) \/ KeepsGrants
  BY <1>6
     DEF StartRefresh, GoTo, Asking, coordVars, chalVars, idVars, issueVars,
          budgetVars, truthVars, RefreshFails, RefreshLands, RefreshRotates,
          RefreshStores, Save, SaveFails, NoSession, RefreshExtends,
          RefreshWake, flightVars, RefreshWaitCancelled, AfterRefresh,
          Redeems, KeepsGrants, None, TypeOK, CoordinatorTypeOK, CallTypeOK,
          CountTypeOK
<1> QED
  BY <1>1, <1>2, <1>3, <1>4, <1>5, <1>6 DEF Starts, Cancels, Proceeds

\* An exchange that has not ended holds a grant.
LEMMA GrantHeldStep ==
    ASSUME TypeOK, GrantHeld,
           NEW r \in Runtimes, Starts(r) \/ Cancels(r) \/ Proceeds(r)
    PROVE  GrantHeld'
<1>1. ASSUME \/ BeginExchange(r) \/ ExchangeWaitCancelled(r)
             \/ ExchangeRateLimited(r) \/ ExchangeFails(r)
             \/ ExchangeReply(r) \/ ExchangeRelease(r) \/ ForgetGrant(r)
             \/ ForgetPendingAuth(r)
      PROVE  GrantHeld'
  BY <1>1
     DEF BeginExchange, GoTo, coordVars, chalVars, idVars, issueVars,
          budgetVars, truthVars, ExchangeWaitCancelled, Finish, flightVars,
          Idle, ExchangeRateLimited, ExchangeFails, ExchangeEnds,
          ExchangeReply, AdoptShared, StoreExchanged, ExchangeRelease,
          ForgetGrant, ForgetPendingAuth, GrantHeld, ExchangePCs, Call,
          TypeOK, CallTypeOK
<1>2. ASSUME StartCompleteGrant(r) PROVE GrantHeld'
  BY <1>2
     DEF StartCompleteGrant, GoTo, coordVars, chalVars, flightVars, idVars,
          issueVars, truthVars, GrantHeld, ExchangePCs, Call, TypeOK,
          CallTypeOK
<1>3. ASSUME ExchangeCheck(r) PROVE GrantHeld'
  BY <1>3
     DEF ExchangeCheck, ExchangeEnds, coordVars, chalVars, AdoptShared,
          Asking, GoTo, flightVars, idVars, issueVars, budgetVars, truthVars,
          GrantHeld, ExchangePCs, Call, TypeOK, CallTypeOK
<1>4. ASSUME \/ ClearSession(r) \/ VerifyReuse(r) \/ VerifyAdopt(r)
             \/ BootstrapFails(r) \/ BootstrapWake(r)
             \/ BootstrapWaitCancelled(r)
      PROVE  GrantHeld'
  BY <1>4
     DEF ClearSession, coordVars, chalVars, flightVars, idVars, issueVars,
          VerifyReuse, Verified, budgetVars, truthVars, GoTo, VerifyAdopt,
          BootstrapFails, BootstrapLands, Lock, BootstrapWake,
          BootstrapWaitCancelled, GrantHeld, ExchangePCs, Call, TypeOK,
          CallTypeOK
<1>5. ASSUME VerifyFresh(r) PROVE GrantHeld'
  BY <1>5
     DEF VerifyFresh, Verified, GoTo, Unlock, Asking, coordVars, idVars,
          issueVars, budgetVars, truthVars, GrantHeld, ExchangePCs, Call,
          TypeOK, CallTypeOK
<1>6. ASSUME BootstrapSession(r) PROVE GrantHeld'
  BY <1>6
     DEF BootstrapSession, BootstrapLands, Verified, chalVars, idVars, Lock,
          truthVars, GoTo, GrantHeld, ExchangePCs, Call, TypeOK, CallTypeOK
<1>7. ASSUME BootstrapChallenge(r) PROVE GrantHeld'
  BY <1>7
     DEF BootstrapChallenge, BootstrapLands, Verified, chalVars, issueVars,
          Lock, truthVars, GoTo, GrantHeld, ExchangePCs, Call, TypeOK,
          CallTypeOK
<1>8. ASSUME RequestDone(r) \/ ProviderUnavailable(r)
      PROVE  GrantHeld'
  BY <1>8
     DEF RequestDone, Finish, coordVars, chalVars, flightVars, idVars,
          issueVars, budgetVars, truthVars, GoTo, Idle, ProviderUnavailable,
          SignWith, GrantHeld, ExchangePCs, Call, TypeOK, CallTypeOK
<1>9. ASSUME Preflight(r) PROVE GrantHeld'
  BY <1>9
     DEF Preflight, Verify, coordVars, chalVars, flightVars, idVars,
          issueVars, truthVars, Lock, GoTo, GrantHeld, ExchangePCs, Call,
          TypeOK, CallTypeOK
<1>10. ASSUME StartFetch(r) PROVE GrantHeld'
  BY <1>10
     DEF StartFetch, Verify, GoTo, SignWith, coordVars, chalVars, flightVars,
          idVars, issueVars, truthVars, Lock, GrantHeld, ExchangePCs, Call,
          TypeOK, CallTypeOK
<1>11. ASSUME AfterVerify(r) PROVE GrantHeld'
  BY <1>11
     DEF AfterVerify, Unlock, GoTo, SignWith, Finish, coordVars, chalVars,
          flightVars, idVars, issueVars, budgetVars, truthVars, Idle,
          GrantHeld, ExchangePCs, Call, TypeOK, CallTypeOK
<1>12. ASSUME RequestAuthInvalid(r) PROVE GrantHeld'
  BY <1>12
     DEF RequestAuthInvalid, SignWith, Finish, coordVars, chalVars,
          flightVars, idVars, issueVars, budgetVars, truthVars, GoTo, Idle,
          GrantHeld, ExchangePCs, Call, TypeOK, CallTypeOK
<1>13. ASSUME SessionInvalid(r) PROVE GrantHeld'
  BY <1>13
     DEF SessionInvalid, StaleReply, Verify, Finish, chalVars, flightVars,
          idVars, issueVars, SignWith, Lock, GoTo, Idle, GrantHeld,
          ExchangePCs, Call, TypeOK, CallTypeOK
<1>14. ASSUME VerifyRequired(r) PROVE GrantHeld'
  BY <1>14
     DEF VerifyRequired, StaleReply, Verify, chalVars, flightVars, idVars,
          issueVars, truthVars, SignWith, Finish, Lock, GoTo, Idle, GrantHeld,
          ExchangePCs, Call, TypeOK, CallTypeOK
<1>15. ASSUME \/ RefreshFails(r) \/ RefreshRotates(r) \/ RefreshExtends(r)
              \/ RefreshWake(r) \/ RefreshWaitCancelled(r)
       PROVE  GrantHeld'
  BY <1>15
     DEF RefreshFails, RefreshLands, issueVars, GoTo, coordVars, chalVars,
          idVars, truthVars, RefreshRotates, RefreshStores, RefreshExtends,
          RefreshWake, flightVars, budgetVars, RefreshWaitCancelled,
          GrantHeld, ExchangePCs, Call, TypeOK, CallTypeOK
<1>16. ASSUME StartRefresh(r) PROVE GrantHeld'
  BY <1>16
     DEF StartRefresh, GoTo, Asking, coordVars, chalVars, idVars, issueVars,
          budgetVars, truthVars, GrantHeld, ExchangePCs, Call, TypeOK,
          CallTypeOK
<1>17. ASSUME AfterRefresh(r) PROVE GrantHeld'
  BY <1>17
     DEF AfterRefresh, SignWith, Verify, coordVars, chalVars, flightVars,
          idVars, issueVars, budgetVars, truthVars, GoTo, Lock, GrantHeld,
          ExchangePCs, Call, TypeOK, CallTypeOK
<1> QED
  BY <1>1, <1>2, <1>3, <1>4, <1>5, <1>6, <1>7, <1>8, <1>9, <1>10, <1>11,
          <1>12, <1>13, <1>14, <1>15, <1>16, <1>17 DEF Starts, Cancels, Proceeds

\* A step of a call that leaves no session has one of the four causes.
LEMMA EraseStep ==
    ASSUME TypeOK,
           NEW r \in Runtimes, Starts(r) \/ Cancels(r) \/ Proceeds(r)
    PROVE  EraseCause
<1>1. ASSUME \/ StartCompleteGrant(r) \/ BeginExchange(r)
             \/ ExchangeWaitCancelled(r) \/ ExchangeCheck(r)
             \/ ExchangeRateLimited(r) \/ ExchangeFails(r)
             \/ ExchangeRelease(r) \/ ForgetGrant(r) \/ ForgetPendingAuth(r)
      PROVE  EraseCause
  BY <1>1, ConstantsOK
     DEF StartCompleteGrant, GoTo, coordVars, chalVars, flightVars, idVars,
          issueVars, truthVars, BeginExchange, budgetVars,
          ExchangeWaitCancelled, ExchangeCheck, AdoptShared, Asking,
          ExchangeRateLimited, ExchangeFails, ExchangeRelease, ForgetGrant,
          ForgetPendingAuth, EraseCause, None, NoSession, Record, Sessions,
          Issued, TypeOK, CoordinatorTypeOK, CallTypeOK, CountTypeOK
<1>2. ASSUME ExchangeReply(r) PROVE EraseCause
  BY <1>2, ConstantsOK
     DEF ExchangeReply, coordVars, chalVars, AdoptShared, StoreExchanged,
          flightVars, idVars, Save, Issued, SaveFails, NoSession, EraseCause,
          None, Record, Sessions, TypeOK, CoordinatorTypeOK, CallTypeOK,
          CountTypeOK
<1>3. ASSUME \/ VerifyReuse(r) \/ VerifyAdopt(r) \/ VerifyFresh(r)
             \/ BootstrapFails(r) \/ BootstrapChallenge(r)
             \/ BootstrapWake(r) \/ BootstrapWaitCancelled(r)
      PROVE  EraseCause
  BY <1>3, ConstantsOK
     DEF VerifyReuse, coordVars, flightVars, idVars, issueVars, budgetVars,
          truthVars, VerifyAdopt, VerifyFresh, Usable, GoTo, Unlock, Asking,
          BootstrapFails, BootstrapLands, chalVars, Lock, BootstrapChallenge,
          BootstrapWake, BootstrapWaitCancelled, EraseCause, None, NoSession,
          Record, Sessions, Issued, TypeOK, CoordinatorTypeOK, CallTypeOK,
          CountTypeOK
<1>4. ASSUME ClearSession(r) PROVE EraseCause
  BY <1>4, ConstantsOK
     DEF ClearSession, Save, NoSession, SaveFails, coordVars, chalVars,
          flightVars, idVars, issueVars, EraseCause, None, Record, Sessions,
          Issued, TypeOK, CoordinatorTypeOK, CallTypeOK, CountTypeOK
<1>5. ASSUME BootstrapSession(r) PROVE EraseCause
  BY SMTT(20), <1>5, ConstantsOK
     DEF BootstrapSession, BootstrapLands, chalVars, Save, Issued, SaveFails,
          idVars, Lock, truthVars, NoSession, EraseCause, None, Record,
          Sessions, TypeOK, CoordinatorTypeOK, CallTypeOK, CountTypeOK
<1>6. ASSUME \/ Preflight(r) \/ AfterVerify(r) \/ RequestDone(r)
             \/ ProviderUnavailable(r) \/ RequestAuthInvalid(r)
      PROVE  EraseCause
  BY <1>6, ConstantsOK
     DEF Preflight, Usable, coordVars, chalVars, flightVars, idVars,
          issueVars, truthVars, AfterVerify, Unlock, GoTo, budgetVars,
          RequestDone, ProviderUnavailable, RequestAuthInvalid, EraseCause,
          None, NoSession, Record, Sessions, Issued, TypeOK,
          CoordinatorTypeOK, CallTypeOK, CountTypeOK
<1>7. ASSUME StartFetch(r) PROVE EraseCause
  BY <1>7, ConstantsOK
     DEF StartFetch, Usable, Save, NoSession, SaveFails, GoTo, coordVars,
          chalVars, flightVars, idVars, issueVars, truthVars, EraseCause,
          None, Record, Sessions, Issued, TypeOK, CoordinatorTypeOK,
          CallTypeOK, CountTypeOK
<1>8. ASSUME SessionInvalid(r) PROVE EraseCause
  BY <1>8, ConstantsOK
     DEF SessionInvalid, StaleReply, StoredIs, Save, NoSession, SaveFails,
          chalVars, flightVars, idVars, issueVars, EraseCause, None, Record,
          Sessions, Issued, TypeOK, CoordinatorTypeOK, CallTypeOK, CountTypeOK
<1>9. ASSUME VerifyRequired(r) PROVE EraseCause
  BY <1>9, ConstantsOK
     DEF VerifyRequired, StaleReply, StoredIs, chalVars, flightVars, idVars,
          issueVars, truthVars, EraseCause, None, NoSession, Record, Sessions,
          Issued, TypeOK, CoordinatorTypeOK, CallTypeOK, CountTypeOK
<1>10. ASSUME \/ StartRefresh(r) \/ RefreshFails(r) \/ RefreshWake(r)
              \/ RefreshWaitCancelled(r) \/ AfterRefresh(r)
       PROVE  EraseCause
  BY <1>10, ConstantsOK
     DEF StartRefresh, GoTo, Asking, coordVars, chalVars, idVars, issueVars,
          budgetVars, truthVars, RefreshFails, RefreshLands, RefreshWake,
          flightVars, RefreshWaitCancelled, AfterRefresh, Usable, EraseCause,
          None, NoSession, Record, Sessions, Issued, TypeOK,
          CoordinatorTypeOK, CallTypeOK, CountTypeOK
<1>11. ASSUME RefreshRotates(r) PROVE EraseCause
  BY SMTT(20), <1>11, ConstantsOK
     DEF RefreshRotates, RefreshStores, Issued, RefreshLands, StoredIs, Save,
          SaveFails, GoTo, coordVars, chalVars, idVars, truthVars, NoSession,
          EraseCause, None, Record, Sessions, TypeOK, CoordinatorTypeOK,
          CallTypeOK, CountTypeOK
<1>12. ASSUME RefreshExtends(r) PROVE EraseCause
  BY SMTT(20), <1>12, ConstantsOK
     DEF RefreshExtends, RefreshStores, issueVars, RefreshLands, StoredIs,
          Save, SaveFails, GoTo, coordVars, chalVars, idVars, truthVars,
          NoSession, EraseCause, None, Record, Sessions, Issued, TypeOK,
          CoordinatorTypeOK, CallTypeOK, CountTypeOK
<1> QED
  BY <1>1, <1>2, <1>3, <1>4, <1>5, <1>6, <1>7, <1>8, <1>9, <1>10, <1>11, <1>12 DEF Starts, Cancels, Proceeds

\* A step of a call leaves no verification request that the coordinator has
\* dropped or replaced.
LEMMA ShareStep ==
    ASSUME TypeOK, SingleFlight, ChallengeShared, BootstrapAlone,
           NEW r \in Runtimes, Starts(r) \/ Cancels(r) \/ Proceeds(r)
    PROVE  ChallengeShared' /\ BootstrapAlone'
<1>1. ASSUME \/ StartCompleteGrant(r) \/ BeginExchange(r)
             \/ ExchangeWaitCancelled(r) \/ ExchangeRateLimited(r)
             \/ ExchangeFails(r) \/ ExchangeRelease(r) \/ ForgetGrant(r)
      PROVE  ChallengeShared' /\ BootstrapAlone'
  BY <1>1, ConstantsOK
     DEF StartCompleteGrant, GoTo, coordVars, chalVars, flightVars, idVars,
          issueVars, truthVars, BeginExchange, budgetVars,
          ExchangeWaitCancelled, Finish, Idle, ExchangeRateLimited,
          ExchangeFails, ExchangeEnds, ExchangeRelease, ForgetGrant,
          ChallengeShared, BootstrapAlone, SingleFlight, TypeOK,
          ChallengeTypeOK, CallTypeOK, None
<1>2. ASSUME ExchangeCheck(r) PROVE ChallengeShared' /\ BootstrapAlone'
  BY <1>2, ConstantsOK
     DEF ExchangeCheck, ExchangeEnds, coordVars, chalVars, AdoptShared, GoTo,
          flightVars, idVars, issueVars, budgetVars, truthVars,
          ClearChallenge, DroppedPending, ChallengeShared, BootstrapAlone,
          SingleFlight, TypeOK, ChallengeTypeOK, CallTypeOK, None
<1>3. ASSUME ExchangeReply(r) PROVE ChallengeShared' /\ BootstrapAlone'
  BY <1>3, ConstantsOK
     DEF ExchangeReply, ExchangeEnds, coordVars, chalVars, AdoptShared,
          StoreExchanged, flightVars, idVars, GoTo, ClearChallenge,
          DroppedPending, ChallengeShared, BootstrapAlone, SingleFlight,
          TypeOK, ChallengeTypeOK, CallTypeOK, None
<1>4. ASSUME ForgetPendingAuth(r) PROVE ChallengeShared' /\ BootstrapAlone'
  BY <1>4, ConstantsOK
     DEF ForgetPendingAuth, Finish, coordVars, flightVars, idVars, issueVars,
          budgetVars, truthVars, GoTo, Idle, ChallengeShared, BootstrapAlone,
          SingleFlight, TypeOK, ChallengeTypeOK, CallTypeOK, None
<1>5. ASSUME BootstrapWake(r) \/ BootstrapWaitCancelled(r)
      PROVE  ChallengeShared' /\ BootstrapAlone'
  BY <1>5, ConstantsOK
     DEF BootstrapWake, Lock, Verified, GoTo, coordVars, chalVars, flightVars,
          idVars, issueVars, budgetVars, truthVars, BootstrapWaitCancelled,
          ChallengeShared, BootstrapAlone, SingleFlight, TypeOK,
          ChallengeTypeOK, CallTypeOK, None
<1>6. ASSUME ClearSession(r) PROVE ChallengeShared' /\ BootstrapAlone'
  BY <1>6, ConstantsOK
     DEF ClearSession, DroppedPending, coordVars, chalVars, flightVars,
          idVars, issueVars, ChallengeShared, BootstrapAlone, SingleFlight,
          TypeOK, ChallengeTypeOK, CallTypeOK, None
<1>7. ASSUME VerifyReuse(r) PROVE ChallengeShared' /\ BootstrapAlone'
  BY <1>7, ConstantsOK
     DEF VerifyReuse, Verified, coordVars, flightVars, idVars, issueVars,
          budgetVars, truthVars, GoTo, ChallengeShared, BootstrapAlone,
          SingleFlight, TypeOK, ChallengeTypeOK, CallTypeOK, None
<1>8. ASSUME VerifyAdopt(r) PROVE ChallengeShared' /\ BootstrapAlone'
  BY <1>8, ConstantsOK
     DEF VerifyAdopt, DroppedPending, Verified, coordVars, flightVars, idVars,
          issueVars, budgetVars, truthVars, GoTo, ChallengeShared,
          BootstrapAlone, SingleFlight, TypeOK, ChallengeTypeOK, CallTypeOK,
          None
<1>9. ASSUME VerifyFresh(r) PROVE ChallengeShared' /\ BootstrapAlone'
  BY <1>9, ConstantsOK
     DEF VerifyFresh, DroppedPending, Verified, GoTo, Unlock, coordVars,
          idVars, issueVars, budgetVars, truthVars, ChallengeShared,
          BootstrapAlone, SingleFlight, TypeOK, ChallengeTypeOK, CallTypeOK,
          None
<1>10. ASSUME BootstrapFails(r) PROVE ChallengeShared' /\ BootstrapAlone'
  BY <1>10, ConstantsOK
     DEF BootstrapFails, BootstrapLands, Verified, chalVars, idVars,
          issueVars, Lock, truthVars, GoTo, ChallengeShared, BootstrapAlone,
          SingleFlight, TypeOK, ChallengeTypeOK, CallTypeOK, None
<1>11. ASSUME BootstrapSession(r) PROVE ChallengeShared' /\ BootstrapAlone'
  BY <1>11, ConstantsOK
     DEF BootstrapSession, BootstrapLands, Verified, chalVars, ClearChallenge,
          idVars, Lock, truthVars, GoTo, DroppedPending, ChallengeShared,
          BootstrapAlone, SingleFlight, TypeOK, ChallengeTypeOK, CallTypeOK,
          None
<1>12. ASSUME BootstrapChallenge(r) PROVE ChallengeShared' /\ BootstrapAlone'
  BY <1>12, ConstantsOK
     DEF BootstrapChallenge, BootstrapLands, Verified, chalVars,
          ClearChallenge, issueVars, Lock, truthVars, GoTo, DroppedPending,
          ChallengeShared, BootstrapAlone, SingleFlight, TypeOK,
          ChallengeTypeOK, CallTypeOK, None
<1>13. ASSUME \/ Preflight(r) \/ StartFetch(r) \/ AfterVerify(r)
              \/ RequestDone(r) \/ ProviderUnavailable(r)
              \/ RequestAuthInvalid(r) \/ SessionInvalid(r)
              \/ VerifyRequired(r)
       PROVE  ChallengeShared' /\ BootstrapAlone'
  BY <1>13, ConstantsOK
     DEF Preflight, Verify, coordVars, chalVars, flightVars, idVars,
          issueVars, truthVars, Lock, GoTo, StartFetch, SignWith, AfterVerify,
          Unlock, Finish, budgetVars, Idle, RequestDone, ProviderUnavailable,
          RequestAuthInvalid, SessionInvalid, StaleReply, VerifyRequired,
          ChallengeShared, BootstrapAlone, SingleFlight, TypeOK,
          ChallengeTypeOK, CallTypeOK, None
<1>14. ASSUME \/ StartRefresh(r) \/ RefreshFails(r) \/ RefreshRotates(r)
              \/ RefreshExtends(r) \/ RefreshWake(r)
              \/ RefreshWaitCancelled(r) \/ AfterRefresh(r)
       PROVE  ChallengeShared' /\ BootstrapAlone'
  BY <1>14, ConstantsOK
     DEF StartRefresh, GoTo, coordVars, chalVars, idVars, issueVars,
          budgetVars, truthVars, RefreshFails, RefreshLands, RefreshRotates,
          RefreshStores, RefreshExtends, RefreshWake, flightVars,
          RefreshWaitCancelled, AfterRefresh, SignWith, Verify, Lock,
          ChallengeShared, BootstrapAlone, SingleFlight, TypeOK,
          ChallengeTypeOK, CallTypeOK, None
<1> QED
  BY <1>1, <1>2, <1>3, <1>4, <1>5, <1>6, <1>7, <1>8, <1>9, <1>10, <1>11,
          <1>12, <1>13, <1>14 DEF Starts, Cancels, Proceeds

-----------------------------------------------------------------------------
(* The host application, the clock and a restart. *)

HostSteps ==
    \/ \E e \in Extensions : HostOf(e)
    \/ AgeSession
    \/ \E c \in Challenges : LapseChallenge(c)
    \/ Restart

\* Outside the calls, only the clock and a restart touch the record, and neither
\* stores a session.
LEMMA HostKeepsSession ==
    ASSUME TypeOK, HostSteps
    PROVE  KeepsSession /\ EraseCause
<1>1. ASSUME NEW e \in Extensions, HostOf(e) PROVE KeepsSession /\ EraseCause
  BY <1>1
     DEF HostOf, HostClearsPendingAuth, RegisterOAuth, HostSetsGrant, issueVars,
         truthVars, KeepsSession, EraseCause
<1>2. ASSUME AgeSession PROVE KeepsSession /\ EraseCause
  BY <1>2
     DEF AgeSession, issueVars, truthVars, KeepsSession, EraseCause, TypeOK,
         CoordinatorTypeOK, Record
<1>3. ASSUME NEW c \in Challenges, LapseChallenge(c)
      PROVE  KeepsSession /\ EraseCause
  BY <1>3 DEF LapseChallenge, issueVars, truthVars, KeepsSession, EraseCause
<1>4. ASSUME Restart PROVE KeepsSession /\ EraseCause
  BY <1>4, ConstantsOK
     DEF Restart, SaveFails, NoSession, KeepsSession, EraseCause, TypeOK,
         CoordinatorTypeOK, CountTypeOK
<1> QED
  BY <1>1, <1>2, <1>3, <1>4 DEF HostSteps

\* They leave the calls in progress alone, or (a restart) end all of them.
LEMMA HostKeepsCalls ==
    ASSUME TypeOK, SingleFlight, CallFresh, SawInv, GrantHeld, HostSteps
    PROVE  SingleFlight' /\ CallFresh' /\ SawInv' /\ GrantHeld'
<1>1. CASE UNCHANGED <<pc, call, exchangeBusy, bootstrap, refresh,
                       clearGeneration, clears>>
  BY <1>1 DEF SingleFlight, CallFresh, SawInv, GrantHeld
<1>2. CASE Restart
  BY <1>2, ConstantsOK
     DEF Restart, Idle, NoCall, ExchangePCs, AskingPCs, SingleFlight, CallFresh,
         SawInv, GrantHeld
<1> QED
  BY <1>1, <1>2
     DEF HostSteps, HostOf, HostClearsPendingAuth, RegisterOAuth, HostSetsGrant,
         AgeSession, LapseChallenge, coordVars, flightVars, truthVars

\* They leave the record of redeemed grants alone, or (a restart) forget it.
LEMMA HostKeepsGrants ==
    ASSUME TypeOK, HostSteps
    PROVE  KeepsGrants \/ redeemed' = [g \in Grants |-> None]
BY DEF HostSteps, HostOf, HostClearsPendingAuth, RegisterOAuth, HostSetsGrant,
       AgeSession, LapseChallenge, Restart, coordVars, truthVars, KeepsGrants

\* They leave no verification request that the coordinator has dropped.
LEMMA HostKeepsShared ==
    ASSUME TypeOK, ChallengeShared, BootstrapAlone, HostSteps
    PROVE  ChallengeShared' /\ BootstrapAlone'
<1>1. CASE UNCHANGED <<challenge, holders, pendingAuth, oauth, pc>>
  BY <1>1 DEF ChallengeShared, BootstrapAlone
<1>2. ASSUME NEW e \in Extensions, HostClearsPendingAuth(e)
      PROVE  ChallengeShared' /\ BootstrapAlone'
  BY <1>2
     DEF HostClearsPendingAuth, idVars, TypeOK, ChallengeTypeOK, ChallengeShared,
         BootstrapAlone
<1>3. ASSUME NEW e \in Extensions, RegisterOAuth(e)
      PROVE  ChallengeShared' /\ BootstrapAlone'
  BY <1>3
     DEF RegisterOAuth, TypeOK, ChallengeTypeOK, ChallengeShared, BootstrapAlone
<1>4. CASE Restart
  BY <1>4 DEF Restart, Idle, ChallengeShared, BootstrapAlone
<1> QED
  BY <1>1, <1>2, <1>3, <1>4
     DEF HostSteps, HostOf, HostSetsGrant, AgeSession, LapseChallenge, chalVars,
         idVars

-----------------------------------------------------------------------------
(* The inductive invariant. *)

\* The server numbers the sessions it issues, and what it issued before the last
\* clear is not stored.
StoredInv == file.gen <= issued /\ NoResurrection

\* While the session of a redeemed grant is stored, the coordinator remembers
\* the grant.
RedeemedInv ==
    \A g \in Grants :
        /\ redeemed[g] <= issued
        /\ file.gen # None /\ redeemed[g] = file.gen => completedGrant = g

IInv ==
    /\ TypeOK
    /\ SingleFlight
    /\ CallFresh
    /\ SawInv
    /\ GrantHeld
    /\ StoredInv
    /\ RedeemedInv
    /\ ChallengeShared
    /\ BootstrapAlone

\* A step is a step of a call, or of the host, the clock or a restart.
LEMMA NextCases ==
    ASSUME Next
    PROVE  \/ \E r \in Runtimes : Starts(r) \/ Cancels(r) \/ Proceeds(r)
           \/ HostSteps
BY DEF Next, HostSteps

\* StoreStep for every step.
LEMMA NextStores ==
    ASSUME TypeOK, Next
    PROVE  (\E r \in Runtimes : Stores(r)) \/ KeepsSession
BY NextCases, StoreStep, HostKeepsSession

\* The server issues the next number, to a call whose knowledge it records.
LEMMA IssuesOne ==
    ASSUME TypeOK, NEW r \in Runtimes, ServerIssues(r)
    PROVE  /\ issued \in Nat
           /\ issued' = issued + 1
           /\ issued' \in Sessions
           /\ origin'[issued'] = call[r].asked
           /\ \A s \in Sessions : s # issued' => origin'[s] = origin[s]
<1>1. issued \in Nat /\ issued' = issued + 1
  BY DEF ServerIssues, TypeOK, CountTypeOK, Sessions
<1>2. issued' \in Sessions
  BY <1>1, IssuedTyped DEF TypeOK, CountTypeOK, CallTypeOK
<1> QED
  BY <1>1, <1>2 DEF ServerIssues, TypeOK, CountTypeOK

\* StoredInv is preserved: a reply is stored only if no clear came between.
LEMMA StoredStep ==
    ASSUME TypeOK, CallFresh, StoredInv, Next
    PROVE  StoredInv'
<1>1. file.gen \in Nat /\ file.gen \in Sessions /\ issued \in Nat /\ TypeOK'
  BY TypeStep DEF TypeOK, CoordinatorTypeOK, CountTypeOK, Record, Sessions
<1>2. ASSUME NEW r \in Runtimes, Stores(r) PROVE StoredInv'
  <2>1. file'.gen = issued' /\ origin'[file'.gen] = call[r].asked
    BY <1>2, IssuesOne DEF Stores, Issued
  <2>2. call[r].asked.clears = clears /\ clears' = clears
    BY <1>2 DEF Stores, CallFresh
  <2>3. issued' \in Nat
    BY <1>1 DEF TypeOK, CountTypeOK, Sessions
  <2> QED
    BY <2>1, <2>2, <2>3 DEF StoredInv, NoResurrection
<1>3. ASSUME KeepsSession PROVE StoredInv'
  <2>1. /\ issued' \in Nat
        /\ issued <= issued'
        /\ file.gen <= issued => origin'[file.gen] = origin[file.gen]
    BY <1>1, <1>3, IssuesOne DEF KeepsSession, issueVars
  <2>2. CASE file'.gen = None
    BY <2>1, <2>2 DEF StoredInv, NoResurrection, None
  <2>3. CASE file'.gen = file.gen /\ UNCHANGED clears
    BY <1>1, <2>1, <2>3 DEF StoredInv, NoResurrection
  <2> QED
    BY <1>3, <2>2, <2>3 DEF KeepsSession
<1> QED
  BY <1>2, <1>3, NextStores

\* RedeemedInv is preserved: a new number never equals a redeemed one.
LEMMA RedeemedStep ==
    ASSUME TypeOK, GrantHeld, StoredInv, RedeemedInv, Next
    PROVE  RedeemedInv'
<1>1. /\ file.gen \in Nat /\ issued \in Nat /\ issued' \in Nat
      /\ redeemed \in [Grants -> Sessions]
      /\ \A g \in Grants : redeemed[g] \in Nat
  BY SMTT(20), TypeStep DEF TypeOK, CoordinatorTypeOK, CountTypeOK, Record, Sessions
<1>2. issued <= issued'
  BY <1>1, NextStores, IssuesOne DEF Stores, KeepsSession, issueVars
<1>3. \/ file'.gen = None
      \/ file'.gen = file.gen
      \/ file'.gen = issued + 1
  BY NextStores DEF Stores, Issued, KeepsSession
<1>4. ASSUME NEW r \in Runtimes, Redeems(r) PROVE RedeemedInv'
  <2>1. file'.gen = issued + 1 /\ issued' = issued + 1
    BY <1>4, IssuesOne DEF Redeems, Issued
  <2>2. SUFFICES ASSUME NEW g \in Grants
                 PROVE  /\ redeemed'[g] <= issued'
                        /\ redeemed'[g] = file'.gen => completedGrant' = g
    BY DEF RedeemedInv
  <2>3. CASE g = call[r].grant
    BY <1>1, <1>4, <2>1, <2>3 DEF Redeems
  <2>4. CASE g # call[r].grant
    <3>1. redeemed'[g] = redeemed[g]
      BY <1>1, <1>4, <2>4 DEF Redeems
    <3> QED
      BY <1>1, <2>1, <3>1 DEF RedeemedInv
  <2> QED
    BY <2>3, <2>4
<1>5. ASSUME KeepsGrants PROVE RedeemedInv'
  <2>1. SUFFICES ASSUME NEW g \in Grants
                 PROVE  /\ redeemed'[g] <= issued'
                        /\ file'.gen # None /\ redeemed'[g] = file'.gen
                             => completedGrant' = g
    BY DEF RedeemedInv
  <2>2. redeemed'[g] = redeemed[g] /\ redeemed[g] <= issued
    BY <1>5 DEF KeepsGrants, RedeemedInv
  <2> QED
    BY <1>1, <1>2, <1>3, <1>5, <2>2 DEF KeepsGrants, RedeemedInv
<1>6. ASSUME redeemed' = [g \in Grants |-> None] PROVE RedeemedInv'
  BY <1>1, <1>6 DEF RedeemedInv, None
<1> QED
  BY <1>4, <1>5, <1>6, NextCases, RedeemStep, HostKeepsGrants

\* The initial states satisfy the inductive invariant.
LEMMA IInvInit == Init => IInv
<1> SUFFICES ASSUME Init PROVE IInv
  OBVIOUS
<1>1. SingleFlight /\ CallFresh /\ SawInv /\ GrantHeld
  BY DEF Init, Idle, NoCall, ExchangePCs, AskingPCs, SingleFlight, CallFresh,
         SawInv, GrantHeld
<1>2. StoredInv
  BY ConstantsOK DEF Init, NoSession, None, Sessions, StoredInv, NoResurrection
<1>3. RedeemedInv
  BY ConstantsOK DEF Init, None, RedeemedInv
<1>4. ChallengeShared /\ BootstrapAlone
  BY DEF Init, None, Idle, ChallengeShared, BootstrapAlone
<1> QED
  BY <1>1, <1>2, <1>3, <1>4, TypeInit DEF IInv

\* Every step preserves it.
LEMMA IInvStep == ASSUME IInv, [Next]_vars PROVE IInv'
<1>1. CASE UNCHANGED vars
  BY <1>1, TypeStep
     DEF IInv, vars, coordVars, chalVars, flightVars, idVars, issueVars,
         budgetVars, truthVars, SingleFlight, CallFresh, SawInv, GrantHeld,
         StoredInv, NoResurrection, RedeemedInv, ChallengeShared, BootstrapAlone
<1>2. CASE Next
  <2>1. TypeOK' /\ StoredInv' /\ RedeemedInv'
    BY <1>2, TypeStep, StoredStep, RedeemedStep DEF IInv
  <2>2. SingleFlight' /\ CallFresh' /\ SawInv' /\ GrantHeld'
    BY <1>2, NextCases, FlightStep, FreshStep, SawStep, GrantHeldStep,
       HostKeepsCalls DEF IInv
  <2>3. ChallengeShared' /\ BootstrapAlone'
    BY <1>2, NextCases, ShareStep, HostKeepsShared DEF IInv
  <2> QED
    BY <2>1, <2>2, <2>3 DEF IInv
<1> QED
  BY <1>1, <1>2

\* The inductive invariant is an invariant.
LEMMA Invariance == Spec => []IInv
  BY IInvInit, IInvStep, PTL DEF Spec


\* Only r's own check lets s post its grant.
PostsAfterCheck(r, s) ==
    pc[s] = "exchange_check" /\ pc'[s] = "exchange_http"
        => s = r /\ ExchangeCheck(r)

\* Only the check of an exchange moves a call from the check to its HTTP exchange.
LEMMA OnlyCheckMoves ==
    ASSUME TypeOK, NEW s \in Runtimes,
           NEW r \in Runtimes, Starts(r) \/ Cancels(r) \/ Proceeds(r)
    PROVE  PostsAfterCheck(r, s)
<1>1. ASSUME \/ StartCompleteGrant(r) \/ BeginExchange(r)
             \/ ExchangeWaitCancelled(r) \/ ExchangeRateLimited(r)
             \/ ExchangeFails(r) \/ ExchangeReply(r) \/ ExchangeRelease(r)
             \/ ForgetGrant(r) \/ ForgetPendingAuth(r)
      PROVE  PostsAfterCheck(r, s)
  BY <1>1
     DEF StartCompleteGrant, GoTo, coordVars, chalVars, flightVars, idVars,
          issueVars, truthVars, BeginExchange, budgetVars,
          ExchangeWaitCancelled, Finish, Idle, ExchangeRateLimited,
          ExchangeFails, ExchangeEnds, ExchangeReply, AdoptShared,
          StoreExchanged, ExchangeRelease, ForgetGrant, ForgetPendingAuth,
          PostsAfterCheck, TypeOK, CallTypeOK
<1>2. ASSUME ExchangeCheck(r) PROVE PostsAfterCheck(r, s)
  BY <1>2
     DEF ExchangeCheck, ExchangeEnds, coordVars, chalVars, AdoptShared,
          Asking, GoTo, flightVars, idVars, issueVars, budgetVars, truthVars,
          PostsAfterCheck, TypeOK, CallTypeOK
<1>3. ASSUME \/ ClearSession(r) \/ VerifyReuse(r) \/ VerifyAdopt(r)
             \/ VerifyFresh(r) \/ BootstrapFails(r) \/ BootstrapSession(r)
             \/ BootstrapChallenge(r) \/ BootstrapWake(r)
             \/ BootstrapWaitCancelled(r)
      PROVE  PostsAfterCheck(r, s)
  BY <1>3
     DEF ClearSession, coordVars, chalVars, flightVars, idVars, issueVars,
          VerifyReuse, Verified, budgetVars, truthVars, GoTo, VerifyAdopt,
          VerifyFresh, Unlock, Asking, BootstrapFails, BootstrapLands, Lock,
          BootstrapSession, BootstrapChallenge, BootstrapWake,
          BootstrapWaitCancelled, PostsAfterCheck, TypeOK, CallTypeOK
<1>4. ASSUME \/ Preflight(r) \/ StartFetch(r) \/ AfterVerify(r)
             \/ RequestDone(r) \/ ProviderUnavailable(r)
             \/ RequestAuthInvalid(r) \/ SessionInvalid(r)
             \/ VerifyRequired(r)
      PROVE  PostsAfterCheck(r, s)
  BY <1>4
     DEF Preflight, Verify, coordVars, chalVars, flightVars, idVars,
          issueVars, truthVars, Lock, GoTo, StartFetch, SignWith, AfterVerify,
          Unlock, Finish, budgetVars, Idle, RequestDone, ProviderUnavailable,
          RequestAuthInvalid, SessionInvalid, StaleReply, VerifyRequired,
          PostsAfterCheck, TypeOK, CallTypeOK
<1>5. ASSUME \/ StartRefresh(r) \/ RefreshFails(r) \/ RefreshRotates(r)
             \/ RefreshExtends(r) \/ RefreshWake(r)
             \/ RefreshWaitCancelled(r) \/ AfterRefresh(r)
      PROVE  PostsAfterCheck(r, s)
  BY <1>5
     DEF StartRefresh, GoTo, Asking, coordVars, chalVars, idVars, issueVars,
          budgetVars, truthVars, RefreshFails, RefreshLands, RefreshRotates,
          RefreshStores, RefreshExtends, RefreshWake, flightVars,
          RefreshWaitCancelled, AfterRefresh, SignWith, Verify, Lock,
          PostsAfterCheck, TypeOK, CallTypeOK
<1> QED
  BY <1>1, <1>2, <1>3, <1>4, <1>5 DEF Starts, Cancels, Proceeds

\* The same for every step.
LEMMA OnlyCheckPosts ==
    ASSUME TypeOK, Next, NEW s \in Runtimes,
           pc[s] = "exchange_check", pc'[s] = "exchange_http"
    PROVE  ExchangeCheck(s)
<1>1. ASSUME HostSteps PROVE FALSE
  BY <1>1
     DEF HostSteps, HostOf, HostClearsPendingAuth, RegisterOAuth, HostSetsGrant,
         AgeSession, LapseChallenge, Restart, Idle
<1> QED
  BY <1>1, NextCases, OnlyCheckMoves DEF PostsAfterCheck

-----------------------------------------------------------------------------
(* The theorems *)

\* However many runtimes share the coordinator, at most one of them is exchanging
\* a grant, at most one bootstrapping and at most one refreshing.
THEOREM SingleFlightHolds == Spec => []SingleFlight
<1>1. IInv => SingleFlight
  BY DEF IInv
<1> QED
  BY <1>1, Invariance, PTL

\* No reply to a request that was sent before an explicit clear brings back
\* credentials that the clear removed.
THEOREM NoResurrectionHolds == Spec => []NoResurrection
<1>1. IInv => NoResurrection
  BY DEF IInv, StoredInv
<1> QED
  BY <1>1, Invariance, PTL

\* A verification request shown to the user is the coordinator's own challenge.
THEOREM ChallengeSharedHolds == Spec => []ChallengeShared
<1>1. IInv => ChallengeShared
  BY DEF IInv
<1> QED
  BY <1>1, Invariance, PTL

\* A reply never replaces a usable session newer than the one its request knew.
THEOREM NewerSessionKeptHolds == Spec => NewerSessionKept
<1>1. ASSUME IInv, Next, Usable(file), ~IsBlocked(file),
             file'.gen \notin {None, file.gen}
      PROVE  origin'[file'.gen].over = file.gen
  <2>1. PICK r \in Runtimes : Stores(r)
    BY <1>1, NextStores DEF IInv, KeepsSession
  <2>2. origin'[file'.gen] = call[r].asked
    BY <1>1, <2>1, IssuesOne DEF IInv, Stores, Issued
  <2>3. call[r].asked.over = file.gen
    BY <1>1, <2>1 DEF IInv, SawInv, Stores, AskingPCs
  <2> QED
    BY <2>2, <2>3
<1>2. IInv /\ [Next]_vars
        => [ (Usable(file) /\ ~IsBlocked(file) /\ file'.gen \notin {None, file.gen})
             => origin'[file'.gen].over = file.gen ]_vars
  BY <1>1
<1> QED
  BY <1>2, Invariance, PTL DEF Spec, NewerSessionKept

\* The stored session is erased only by a clear, its expiry, a failing save or
\* the gateway's SESSION_INVALID for that same session.
THEOREM OnlyInvalidErasedHolds == Spec => OnlyInvalidErased
<1>1. ASSUME TypeOK, Next PROVE EraseCause
  BY <1>1, NextCases, EraseStep, HostKeepsSession
<1>2. TypeOK /\ [Next]_vars
        => [ (file.gen # None /\ file'.gen = None)
             => \/ file.exp = "expired"
                \/ file.gen \in revoked'
                \/ clears' # clears
                \/ events' # events ]_vars
  BY <1>1 DEF EraseCause
<1> QED
  BY <1>2, TypeCorrect, PTL DEF Spec, OnlyInvalidErased

\* A grant whose session is stored and usable is not posted to the server again.
THEOREM GrantNotReplayedHolds == Spec => GrantNotReplayed
<1>1. ASSUME IInv, Next, NEW r \in Runtimes,
             pc[r] = "exchange_check", pc'[r] = "exchange_http"
      PROVE  ~(Usable(file) /\ file.gen = redeemed[call[r].grant])
  <2>1. ExchangeCheck(r)
    BY <1>1, OnlyCheckPosts DEF IInv
  <2>2. ~AlreadyCompleted(r)
    BY <1>1, <2>1 DEF IInv, TypeOK, CallTypeOK, ExchangeCheck, AdoptShared,
                      ExchangeEnds, GoTo
  <2>3. call[r].grant \in Grants
    BY <1>1 DEF IInv, GrantHeld, ExchangePCs
  <2>4. file.gen # None /\ file.gen = redeemed[call[r].grant]
          => completedGrant = call[r].grant
    BY <1>1, <2>3 DEF IInv, RedeemedInv
  <2> QED
    BY <2>2, <2>4 DEF AlreadyCompleted, Usable
<1>2. IInv /\ [Next]_vars
        => [ \A r \in Runtimes :
               (pc[r] = "exchange_check" /\ pc'[r] = "exchange_http")
               => ~(Usable(file) /\ file.gen = redeemed[call[r].grant]) ]_vars
  BY <1>1
<1> QED
  BY <1>2, Invariance, PTL DEF Spec, GrantNotReplayed

=============================================================================
