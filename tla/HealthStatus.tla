---------------------------- MODULE HealthStatus ----------------------------
(***************************************************************************)
(* What an extension's health checks say (extension_health.go): the status *)
(* of one check, from the answer of its endpoint, and the status of the    *)
(* extension, from those of its checks.                                    *)
(***************************************************************************)
EXTENDS Naturals, Sequences

Words == {"ok", "degraded", "down", "other", "none"}

\* What an answer says in words: does it speak of a timeout, does its detail
\* ask for a login?
Texts == {"plain", "transient", "auth_required"}

\* What "services" holds under the check's key.
Service ==
    [kind : {"missing", "not_an_object"}]
    \cup [kind : {"entry"}, status : {"2xx", "401", "500", "503", "404"} \cup Words,
          ok : {"none", "true", "false"}, text : Texts]

Body ==
    [kind : {"blank", "not_json"}]
    \cup [kind : {"payload"}, status : Words, text : {"plain", "transient"},
          service : Service \cup {[kind |-> "no_services"]}]

\* What the endpoint does: "unreachable" is a connection that is refused or reset,
\* a name or a certificate that is not good (isConnectivityFailure), "failed" any
\* other request without an answer.
Answer ==
    [kind : {"timeout", "unreachable", "failed", "error_status", "broken_body"}]
    \cup [kind : {"answered"}, body : Body]

\* A check of a manifest.  May its URL be requested, by https, at a public
\* host that the manifest permits?
Check == [allowed : BOOLEAN, method : {"GET", "HEAD", "POST"}, named : BOOLEAN]

\* classifyExtensionHealthService
ByCode(s) ==
    IF s.status = "2xx" THEN "online"
    ELSE IF s.status = "401" THEN "degraded"
    ELSE IF s.status = "500" /\ s.ok = "true" THEN "online"
    ELSE IF s.status = "503" \/ s.text = "transient" THEN "unknown"
    ELSE "offline"

ByWord(word, otherwise) ==
    IF word \in {"ok", "degraded", "down"}
    THEN [ok |-> "online", degraded |-> "degraded", down |-> "offline"][word]
    ELSE otherwise

ClassifyService(s) ==
    IF s.kind # "entry" THEN "unknown"
    ELSE IF s.status \notin Words THEN ByCode(s)
    ELSE IF s.text # "plain"
         THEN [auth_required |-> "degraded", transient |-> "unknown"][s.text]
    ELSE IF s.ok # "none" THEN [true |-> "online", false |-> "offline"][s.ok]
    ELSE ByWord(s.status, "unknown")

ClassifyBody(body, named) ==
    IF body.kind # "payload" THEN "online"
    ELSE IF named /\ body.service.kind # "no_services" THEN ClassifyService(body.service)
    ELSE IF body.status = "down" /\ body.text = "transient" THEN "unknown"
    ELSE ByWord(body.status, "online")

\* runExtensionHealthCheck
CheckStatus(check, answer) ==
    IF ~check.allowed \/ check.method = "POST" THEN "offline"
    ELSE IF answer.kind \in {"timeout", "unreachable"} THEN "unknown"
    ELSE IF answer.kind \in {"failed", "error_status"} THEN "offline"
    ELSE IF check.method = "HEAD" THEN "online"
    ELSE IF answer.kind = "broken_body" THEN "degraded"
    ELSE ClassifyBody(answer.body, check.named)

\* CheckExtensionHealth: what one more result, [status, required], makes of
\* the status.  Mutant: an optional check that is down does not count.
Counted_Bug(so, r) ==
    IF r.status = "offline" /\ r.required THEN "offline"
    ELSE IF so = "online" /\ r.status = "unknown" THEN "unknown"
    ELSE IF so = "online" /\ r.status = "degraded" THEN "degraded"
    ELSE so

Counted(so, r) ==
    IF r.status = "offline" /\ r.required THEN "offline"
    ELSE IF so = "online" /\ r.status = "unknown" THEN "unknown"
    ELSE IF so = "online" /\ r.status \in {"offline", "degraded"} THEN "degraded"
    ELSE so

\* The checks in their order.
ExtensionStatus(results) ==
    LET status[n \in 0..Len(results)] ==
            IF n = 0 THEN "online" ELSE Counted(status[n - 1], results[n])
    IN  IF results = <<>> THEN "unsupported" ELSE status[Len(results)]

\* There is no answer for want of a network, or the one whose text decides speaks
\* of a timeout.
IsTransient(check, answer) ==
    \/ answer.kind \in {"timeout", "unreachable"}
    \/ /\ answer.kind = "answered" /\ answer.body.kind = "payload"
       /\ LET service == answer.body.service IN
          IF check.named /\ service.kind # "no_services"
          THEN service.kind = "entry" /\ service.text = "transient"
          ELSE answer.body.text = "transient"

\* A check that could be made is never offline for what was but a timeout, on
\* the way or behind the endpoint, or a network that did not reach it: downloads
\* skip an offline extension.
TransientNotOffline(check, answer) ==
    /\ check.allowed /\ check.method # "POST"
    /\ IsTransient(check, answer)
    => CheckStatus(check, answer) # "offline"

\* An extension is offline exactly when a check that it requires is, and
\* online exactly when every check is, whatever their order.
StatusOfAll(results) ==
    LET all == {results[i] : i \in DOMAIN results} IN
    results # <<>> =>
      /\ (ExtensionStatus(results) = "offline")
           <=> \E r \in all : r.required /\ r.status = "offline"
      /\ (ExtensionStatus(results) = "online") <=> \A r \in all : r.status = "online"

=============================================================================
