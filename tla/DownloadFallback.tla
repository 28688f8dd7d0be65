-------------------------- MODULE DownloadFallback --------------------------
(***************************************************************************)
(* The provider fallback chain of a download: DownloadWithExtensionsJSON   *)
(* and DownloadWithExtensionFallback.  One queue item is downloaded, and   *)
(* after each answer the host may ask for it again, for the same provider  *)
(* or another.  A call asks the source extension and the selected one      *)
(* before the others, pauses for a signed-session verification with the    *)
(* prepared request kept in a cache, and resumes from it.  Meanwhile the   *)
(* user cancels, enables and disables extensions, other items push the     *)
(* entry out of the cache, and scripts answer anything.                    *)
(***************************************************************************)
EXTENDS Naturals, Sequences

CONSTANTS
    Extensions,     \* installed extensions
    Downloaders,    \* those whose manifest makes them download providers
    Catalogs,       \* those that are metadata providers
    Stoppers,       \* those with stopProviderFallback
    Allowed,        \* the extensions enabled for fallback
    Toggled,        \* the extensions that the user enables and disables
    Orders,         \* the values of the provider priority setting
    Requests,       \* the requests that the host makes for the item
    NoExt           \* no extension

\* What the metadata of a request has: the ids that are part of its cache key,
\* the fields that takePreparedDownloadRequest restores, and those that
\* overlayExtensionReleaseMetadata fills (album type, UPC, comment, explicit).
Fields == {"ids", "core", "release"}
Restored == {"ids", "core"}

ExtOrNone == Extensions \cup {NoExt}
Request == [service : ExtOrNone, source : ExtOrNone, fallback : BOOLEAN,
            has : SUBSET Fields]

VARIABLES
    at,         \* where the call is
    call,       \* its local variables
    response,   \* its answer to the host
    entry,      \* the item's entry in the cache of prepared requests
    cancelled,  \* the item's cancel flag
    enabled,    \* the extensions that are enabled and have no error
    file,       \* what is at the output path
    paused      \* history: the key of the pause that the entry is for

vars == <<at, call, response, entry, cancelled, enabled, file, paused>>

\* lastErr with its lastErrType, lastErrorService and lastRetryAfterSeconds;
\* `of` is the provider whose error it is, `retry` the one whose delay.
NoErr == [type |-> "none", of |-> NoExt, service |-> NoExt, retry |-> NoExt]

NoAnswer == [type |-> "none", service |-> NoExt, of |-> NoExt, retry |-> NoExt]
NoEntry == [key |-> <<>>, has |-> {}, prepared |-> FALSE]
NoRequest == [service |-> NoExt, source |-> NoExt, fallback |-> FALSE, has |-> {}]

\* The call of request `r`: what its metadata has by now, what the cache gave,
\* the selected provider, the source's answer if it had skip_fallback, the
\* providers left, the one that is asked or downloads, for which part of the
\* call, whether its answer had skip_fallback, and the last error.  History:
\* who was asked, who was disabled at some time, who gave skip_fallback.
Called(r) ==
    [fresh |-> r, has |-> r.has, taken |-> "nothing", selected |-> NoExt,
     lock |-> "none", queue |-> <<>>,
     asking |-> IF r.service # NoExt THEN r.service ELSE r.source,
     part |-> "source", terminal |-> FALSE, err |-> NoErr,
     asked |-> {}, lost |-> Extensions \ enabled, stopper |-> NoExt]
Idle == [Called(NoRequest) EXCEPT !.lost = {}]

\* downloadPreparationKey.
Key == <<call.fresh.service, call.fresh.source, "ids" \in call.fresh.has>>

Source == call.fresh.source
Selected == call.selected
Asking == call.asking
Usable(e) == e \in enabled \cap Downloaders

-----------------------------------------------------------------------------
\* The answer to the host.  DownloadWithExtensionsJSON clears the cancel flag.

Returns(answer) ==
    /\ at' = "idle"
    /\ call' = Idle
    /\ response' = answer
    /\ cancelled' = FALSE
    /\ UNCHANGED enabled

Answer(type) == [NoAnswer EXCEPT !.type = type, !.service = Asking]
GivesUp(type) == Returns(Answer(type)) /\ UNCHANGED <<entry, paused>>
Quits == GivesUp("cancelled") /\ UNCHANGED file

\* The request is kept for the retry after the verification.
Pause(prepared) ==
    /\ entry' = [key |-> Key, has |-> call.has, prepared |-> prepared]
    /\ paused' = Key
    /\ Returns(Answer("verification"))
    /\ UNCHANGED file

\* A step to control point `p` that leaves the call with the variables `c`.
Goes(p, c) ==
    /\ at' = p
    /\ call' = c
    /\ UNCHANGED <<response, entry, cancelled, enabled, file, paused>>

Asks(e, p) == [call EXCEPT !.asking = e, !.part = p, !.terminal = FALSE,
                           !.asked = @ \cup {e}]

-----------------------------------------------------------------------------
\* DownloadWithExtensionsJSON: the session of the selected provider first.

NewRequest ==
    /\ at = "idle"
    /\ \E r \in Requests : call' = Called(r)
    /\ at' = "preflight"
    /\ response' = NoAnswer
    /\ UNCHANGED <<entry, cancelled, enabled, file, paused>>

PreflightPasses ==
    /\ at = "preflight"
    /\ ~cancelled
    /\ Goes("start", call)

PreflightFails ==
    /\ at = "preflight"
    /\ Usable(Asking)
    /\ \/ GivesUp("failed") /\ UNCHANGED file
       \/ Pause(FALSE)

\* Where the call itself tests the cancel flag.
Cancelled ==
    /\ \/ at = "preflight"
       \/ at = "selected" /\ Source # NoExt /\ Selected = Source
       \/ at = "loop" /\ call.queue # <<>>
    /\ cancelled
    /\ Quits

-----------------------------------------------------------------------------
\* DownloadWithExtensionFallback: the cached request and the order.

\* Mutant: any retry of the item takes the entry.
Found_Bug == entry # NoEntry

\* An entry serves one retry of its own request.
Found == entry.key = Key

Taken ==
    IF Found
    THEN [call EXCEPT !.taken = IF entry.prepared THEN "prepared" ELSE "unprepared",
                      !.has = (entry.has \cap Restored) \cup (@ \ Restored)]
    ELSE call

\* What of `order` is among `those`, in its order.
Among(order, those) ==
    LET first[n \in 0..Len(order)] ==
            IF n = 0 THEN <<>>
            ELSE IF order[n] \in those THEN Append(first[n - 1], order[n])
            ELSE first[n - 1]
    IN  first[Len(order)]

\* The provider first, then the others.
Front(order, e) == <<e>> \o Among(order, Extensions \ {e})

\* Mutant: the priority setting is used as it is, also without fallback.
Selection_Bug(c) == {[c EXCEPT !.selected = c.fresh.service, !.queue = order] : order \in Orders}

\* Without fallback the session's provider is the only one; the user's
\* selection goes first.
Selection(c) ==
    IF ~c.fresh.fallback /\ c.asking # NoExt
    THEN {[c EXCEPT !.selected = c.asking, !.queue = <<c.asking>>]}
    ELSE {[c EXCEPT !.selected = c.fresh.service,
                    !.queue = IF c.fresh.service = NoExt THEN order
                              ELSE Front(order, c.fresh.service)] : order \in Orders}

Start ==
    /\ at = "start"
    /\ entry' = NoEntry
    /\ paused' = <<>>
    /\ \/ cancelled /\ Returns(Answer("cancelled"))
       \/ /\ ~cancelled
          /\ call' \in Selection(Taken)
          /\ at' = IF call'.taken = "unprepared" THEN "resume" ELSE "source"
          /\ UNCHANGED <<response, cancelled, enabled>>
    /\ UNCHANGED file

-----------------------------------------------------------------------------
\* attemptVerifiedResumeBeforeMetadata: the verified provider at once, unless
\* a source extension downloads too and has precedence.

ResumeSkipped ==
    \/ Selected = NoExt
    \/ Source \notin {NoExt, Selected} /\ Usable(Source)
    \/ ~Usable(Selected)

Resume ==
    /\ at = "resume"
    /\ \/ ResumeSkipped /\ Goes("source", call)
       \/ /\ ~ResumeSkipped
          /\ Goes(IF Source = Selected THEN "attempt" ELSE "asked",
                  Asks(Selected, "resume"))

\* A source that is not the selected provider may lock the download to itself.
AskSource ==
    /\ at = "source"
    /\ IF Source \notin {NoExt, Selected} /\ Usable(Source)
       THEN Goes("asked", Asks(Source, "source"))
       ELSE Goes("enrich", call)

-----------------------------------------------------------------------------
\* checkAvailability.  An extension that was disabled meanwhile answers with an
\* error; a verification that its session needs is an error too.

Answers == {"error", "verification", "no", "no stop", "yes", "yes stop"}
CanAnswer(a) == at = "asked" /\ ~cancelled /\ (Asking \in enabled \/ a = "error")

Stops(a) == a \in {"no stop", "yes stop"}
Available(a) == a \in {"yes", "yes stop"}

AnswersCancelled == at = "asked" /\ cancelled /\ Quits

\* A verification here is answered to the host without a cache entry.
AnswersResume(a) ==
    /\ CanAnswer(a)
    /\ call.part = "resume"
    /\ CASE a = "verification" -> GivesUp("verification") /\ UNCHANGED file
         [] a = "no stop"      -> GivesUp("stopped") /\ UNCHANGED file
         [] OTHER -> Goes(IF Available(a) THEN "attempt" ELSE "source", call)

AnswersSource(a) ==
    /\ CanAnswer(a)
    /\ call.part = "source"
    /\ Goes("enrich",
            IF Stops(a)
            THEN [call EXCEPT !.lock = IF Available(a) THEN "available"
                                                       ELSE "unavailable",
                              !.selected = Asking, !.stopper = Asking]
            ELSE call)

\* The preflight of a fallback provider's session is part of its answer.
AnswersLoop(a) ==
    /\ CanAnswer(a)
    /\ call.part = "loop"
    /\ CASE a = "verification" -> Pause(TRUE)
         [] a = "no stop" -> GivesUp("stopped") /\ UNCHANGED file
         [] a = "no" -> Goes("loop", call)
         [] a = "error" ->
               Goes("loop", [call EXCEPT !.err = [type |-> "other", of |-> Asking,
                                         service |-> Asking, retry |-> NoExt]])
         [] Available(a) ->
               Goes("attempt", [call EXCEPT !.terminal = Stops(a),
                                            !.stopper = IF Stops(a) THEN Asking ELSE @])

-----------------------------------------------------------------------------
\* Metadata, unless a cached request has it: from the source extension, and
\* from a search if fields that matter are still missing.

Fills(fields, p) ==
    \/ cancelled /\ Quits
    \/ ~cancelled /\ \E more \in SUBSET fields :
                        Goes(p, [call EXCEPT !.has = @ \cup more])

EnrichFromSource ==
    /\ at = "enrich"
    /\ IF call.taken # "prepared" /\ Source \in enabled \cap Catalogs
       THEN Fills(Fields, "search")
       ELSE Goes("search", call)

EnrichFromSearch ==
    /\ at = "search"
    /\ IF call.taken # "prepared" /\ Source # NoExt /\ "core" \notin call.has
       THEN Fills(Fields \ {"ids"}, "selected")
       ELSE Goes("selected", call)

-----------------------------------------------------------------------------
\* The source extension first, if it is the selected provider.

TrySource ==
    /\ at = "selected"
    /\ IF Source # NoExt /\ Selected = Source
       THEN /\ ~cancelled
            /\ CASE call.lock = "unavailable" -> GivesUp("stopped") /\ UNCHANGED file
                 [] call.lock # "unavailable" /\ Usable(Source) ->
                       Goes("attempt", Asks(Source, "source"))
                 [] OTHER -> Goes("order", call)
       ELSE Goes("order", call)

-----------------------------------------------------------------------------
\* The fallback loop.

\* prioritizeFallbackProvidersByHealth: the offline ones are left out.
ByHealth(order, protected, health) ==
    LET rated(e) == e # protected /\ e \in Allowed /\ Usable(e)
        rank(e) == IF rated(e) THEN health[e] ELSE "unknown"
        those(h) == Among(order, {e \in Extensions : rank(e) = h})
    IN  those("online") \o those("degraded") \o those("unknown")

\* Mutant: health may put another provider before the selected one.
InFront_Bug(order, e) == order

\* moveProviderToFront.
InFront(order, e) ==
    IF \E i \in DOMAIN order : order[i] = e THEN Front(order, e) ELSE order

Reorder ==
    /\ at = "order"
    /\ LET protected == IF Selected # NoExt THEN Selected ELSE Source
       IN  \E health \in [Extensions -> {"online", "degraded", "unknown", "offline"}] :
              Goes("loop", [call EXCEPT !.queue =
                               InFront(ByHealth(@, protected, health), Selected)])

Skipped(e) ==
    \/ e = Source /\ Source # Selected
    \/ e # Selected /\ e \notin Allowed
    \/ ~Usable(e)

\* Mutant: a provider that is skipped stays in the order.
Visit_Bug ==
    /\ at = "loop"
    /\ call.queue # <<>>
    /\ ~cancelled
    /\ LET e == Head(call.queue)
       IN  IF Skipped(e) THEN Goes("loop", call)
           ELSE Goes("asked", [Asks(e, "loop") EXCEPT !.queue = Tail(@)])

Visit ==
    /\ at = "loop"
    /\ call.queue # <<>>
    /\ ~cancelled
    /\ LET e == Head(call.queue)
           rest == Tail(call.queue)
       IN  IF Skipped(e) THEN Goes("loop", [call EXCEPT !.queue = rest])
           ELSE Goes("asked", [Asks(e, "loop") EXCEPT !.queue = rest])

\* Mutant: the answer is the error alone.
Exhausted_Bug ==
    /\ at = "loop"
    /\ call.queue = <<>>
    /\ Returns(call.err)
    /\ UNCHANGED <<entry, file, paused>>

Exhausted ==
    /\ at = "loop"
    /\ call.queue = <<>>
    /\ Returns([type |-> "exhausted", service |-> call.err.service,
                of |-> call.err.of, retry |-> call.err.retry])
    /\ UNCHANGED <<entry, file, paused>>

-----------------------------------------------------------------------------
\* attemptExtensionDownload.  A file at the output path is kept and answered.

\* Mutant: the attempt starts with the delay of the provider before it.
Reset_Bug(e) == [e EXCEPT !.type = "none", !.of = NoExt]

\* The attempt's own error: no other provider's error or delay is left in it.
Reset(e) == [e EXCEPT !.type = "none", !.of = NoExt, !.retry = NoExt]

\* An error without a delay sets none.  The step may leave `f` at the output
\* path.
Fails(type, retry, f) ==
    /\ at' = "failed"
    /\ call' = [call EXCEPT !.err =
                   [Reset(@) EXCEPT !.type = type, !.of = Asking,
                                    !.retry = IF retry = NoExt THEN @ ELSE retry]]
    /\ file' = f
    /\ UNCHANGED <<response, entry, cancelled, enabled, paused>>

AttemptKeepsFile ==
    /\ at = "attempt"
    /\ file # "none"
    /\ GivesUp("success")
    /\ UNCHANGED file

AttemptStarts ==
    /\ at = "attempt"
    /\ file = "none"
    /\ Asking \in enabled
    /\ Goes("downloading", call)

\* No quality of the provider is compatible with the requested one, or it has
\* been disabled since it was looked up.
AttemptFails ==
    /\ at = "attempt"
    /\ \/ Fails("other", NoExt, file)
       \/ file = "none" /\ Asking \notin enabled /\ cancelled /\ Quits

\* Another track than the requested one, also if the download was cancelled;
\* its file is discarded.
Mismatches == at = "downloading" /\ Fails("other", NoExt, "none")

\* The file is at the output path, was there already, or is kept elsewhere.
Fetches ==
    /\ at = "downloading"
    /\ file' \in {file, "good"}
    /\ IF cancelled THEN GivesUp("cancelled")
       ELSE GivesUp("success") \/ GivesUp("failed")

\* A script that fails may leave what it had written at the output path.
DownloadFails ==
    /\ at = "downloading"
    /\ \E f \in {file, "rest"} :
          IF cancelled THEN GivesUp("cancelled") /\ file' = f
          ELSE \E type \in {"other", "verification", "storage"},
                  retry \in {NoExt, Asking} : Fails(type, retry, f)

-----------------------------------------------------------------------------
\* After a failed attempt.

StorageFailed ==
    /\ at = "failed"
    /\ call.err.type = "storage"
    /\ GivesUp("storage")
    /\ UNCHANGED file

NeedsVerification ==
    /\ at = "failed"
    /\ call.err.type = "verification"
    /\ \/ call.part = "resume" /\ GivesUp("verification") /\ UNCHANGED file
       \/ call.part # "resume" /\ Pause(TRUE)

\* Mutant: only the manifest stops the fallback.
Final_Bug == call.part = "source" /\ Asking \in Stoppers

Final ==
    \/ call.part = "source" /\ (Asking \in Stoppers \/ call.lock # "none")
    \/ call.part = "loop" /\ call.terminal

StopsFallback ==
    /\ at = "failed"
    /\ call.err.type = "other"
    /\ Final
    /\ GivesUp("stopped")
    /\ UNCHANGED file

FallsBack ==
    /\ at = "failed"
    /\ call.err.type = "other"
    /\ ~Final
    /\ CASE call.part = "resume" -> Goes("source", [call EXCEPT !.err = NoErr])
         [] call.part = "source" ->
               Goes("order", [call EXCEPT !.err.service = Asking])
         [] call.part = "loop" -> Goes("loop", [call EXCEPT !.err.service = Asking])

-----------------------------------------------------------------------------
\* The host, the user and the other items.

Cancel ==
    /\ at # "idle"
    /\ ~cancelled
    /\ cancelled' = TRUE
    /\ UNCHANGED <<at, call, response, entry, enabled, file, paused>>

Enable(e) ==
    /\ e \notin enabled
    /\ enabled' = enabled \cup {e}
    /\ UNCHANGED <<at, call, response, entry, cancelled, file, paused>>

Disable(e) ==
    /\ e \in enabled
    /\ enabled' = enabled \ {e}
    /\ call' = IF at = "idle" THEN call ELSE [call EXCEPT !.lost = @ \cup {e}]
    /\ UNCHANGED <<at, response, entry, cancelled, file, paused>>

\* Five minutes passed, or newer items of other downloads needed the place.
Prune ==
    /\ entry # NoEntry
    /\ entry' = NoEntry
    /\ paused' = <<>>
    /\ UNCHANGED <<at, call, response, cancelled, enabled, file>>

\* The host moves the finished file on, or the user deletes it.
FileTaken ==
    /\ at = "idle"
    /\ file # "none"
    /\ file' = "none"
    /\ UNCHANGED <<at, call, response, entry, cancelled, enabled, paused>>

-----------------------------------------------------------------------------
Init ==
    /\ at = "idle"
    /\ enabled = Extensions
    /\ call = Idle
    /\ response = NoAnswer
    /\ entry = NoEntry
    /\ cancelled = FALSE
    /\ file = "none"
    /\ paused = <<>>

\* The steps that DownloadWithExtensionsJSON takes itself: its calls of scripts
\* and of the network all time out.
CallStep ==
    \/ PreflightPasses \/ PreflightFails \/ Cancelled \/ Start \/ Resume
    \/ AskSource \/ AnswersCancelled
    \/ \E a \in Answers : AnswersResume(a) \/ AnswersSource(a) \/ AnswersLoop(a)
    \/ EnrichFromSource \/ EnrichFromSearch \/ TrySource \/ Reorder \/ Visit
    \/ Exhausted \/ AttemptKeepsFile \/ AttemptStarts \/ AttemptFails
    \/ Mismatches \/ Fetches \/ DownloadFails
    \/ StorageFailed \/ NeedsVerification \/ StopsFallback \/ FallsBack

Next ==
    \/ NewRequest
    \/ CallStep
    \/ Cancel
    \/ \E e \in Toggled : Enable(e) \/ Disable(e)
    \/ Prune
    \/ FileTaken

Spec == Init /\ [][Next]_vars
FairSpec == Spec /\ WF_vars(CallStep)

-----------------------------------------------------------------------------
Points == {"idle", "preflight", "start", "resume", "source", "asked", "enrich",
           "search", "selected", "order", "loop", "attempt", "downloading",
           "failed"}
Kinds == {"none", "success", "cancelled", "verification", "storage", "stopped",
          "failed", "exhausted"}

TypeOK ==
    /\ at \in Points
    /\ call \in [fresh : Request, has : SUBSET Fields,
                taken : {"nothing", "unprepared", "prepared"},
                selected : ExtOrNone,
                lock : {"none", "available", "unavailable"},
                queue : Seq(Extensions), asking : ExtOrNone,
                part : {"resume", "source", "loop"}, terminal : BOOLEAN,
                err : [type : {"none", "other", "verification", "storage"},
                       of : ExtOrNone, service : ExtOrNone, retry : ExtOrNone],
                asked : SUBSET Extensions, lost : SUBSET Extensions,
                stopper : ExtOrNone]
    /\ at \in {"asked", "attempt", "downloading", "failed"} => Asking \in Downloaders
    /\ response \in [type : Kinds, service : ExtOrNone, of : ExtOrNone,
                    retry : ExtOrNone]
    /\ cancelled \in BOOLEAN
    /\ enabled \subseteq Extensions
    /\ file \in {"none", "good", "rest"}

\* attemptExtensionDownload resets lastErr so that a caller never inherits
\* another provider's error or retry delay: when every provider has failed,
\* the answer names the one whose error and whose delay it carries.
ErrorOwned ==
    response.type = "exhausted" =>
        /\ response.service = response.of
        /\ response.retry \in {NoExt, response.of}

Works == at \in {"attempt", "downloading"}

\* Once an extension answered skip_fallback, in the source preflight or in the
\* loop, no other one downloads, unless it was disabled meanwhile.
SkipHonoured ==
    Works /\ call.stopper # NoExt =>
        Asking = call.stopper \/ call.stopper \in call.lost

\* Health may order the fallback providers but never puts one before the
\* provider that the user picked.
SelectedFirst ==
    Works /\ call.part = "loop" /\ Selected \in Downloaders =>
        Selected \in call.asked \cup call.lost

\* A download without fallback comes from the selected provider, or from the
\* source extension if that locked the download to itself.
StrictKept ==
    Works /\ ~call.fresh.fallback /\ call.fresh.service # NoExt =>
        Asking = call.fresh.service \/ (Asking = Source /\ call.lock # "none")

\* A call resumes what was prepared exactly if its item was paused last for
\* the same request and the cache still has the entry.
PauseResumes ==
    [][at = "start" /\ at' \in {"resume", "source"} =>
          (call'.taken # "nothing" <=> paused = Key)]_vars

\* Whatever scripts, users and other items do, the host gets an answer.
CallsReturn == at # "idle" ~> at = "idle"

\* A call that resumes a prepared request has all the metadata that the
\* preparation had found.
PreparedComplete ==
    [][at = "start" /\ call'.taken = "prepared" =>
          entry.has \subseteq call'.has]_vars

=============================================================================
