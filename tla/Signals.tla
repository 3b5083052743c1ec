-------------------------------- MODULE Signals --------------------------------
(***************************************************************************)
(* What an upstream's answer means (src/signals.rs). An answer is the      *)
(* status, whether the page is HTML, what the body holds, and whether it   *)
(* came late; a body is named for the first thing the code tells it by.    *)
(***************************************************************************)
EXTENDS Naturals, FiniteSets

Statuses == {200, 400, 403, 429, 500}

(* Texts that the patterns of the code look for in an error, and a revert  *)
(* whose reason mentions a rate limit.                                     *)
Errors == {"revert", "revertAboutQuota", "nonce", "badParams", "quota", "apiKey",
           "pruned", "noDebug", "other"}

(* Not JSON, no object or another id, a null result, a quantity, an object.*)
Bodies == {"garbage", "otherId", "null", "quantity", "object"} \cup Errors

Answers == [status : Statuses, html : BOOLEAN, body : Bodies, late : BOOLEAN]

Answer(body) == [status |-> 200, html |-> FALSE, body |-> body, late |-> FALSE]

IsQuotaMessage(body) == body \in {"quota", "revertAboutQuota"}
IsAuthenticationMessage(body) == body = "apiKey"
IsChainError(body) == body \in {"revert", "revertAboutQuota", "nonce", "badParams", "noDebug"}
IsHistoricalStateUnavailable(body) == body = "pruned"
IsDebugUnsupported(body) == body = "noDebug"

Valid == [is |-> "valid", fault |-> "none"]
Degraded == [is |-> "degraded", fault |-> "slow"]
Failure(fault) == [is |-> "failure", fault |-> fault]

InTime(a) == IF a.late THEN Degraded ELSE Valid

(* What limits or locks out is known by its text, before the chain error.  *)
ClassifyError(a) ==
  IF IsQuotaMessage(a.body) THEN Failure("rateLimited")
  ELSE IF IsAuthenticationMessage(a.body) THEN Failure("authentication")
  ELSE IF IsChainError(a.body) THEN InTime(a)
  ELSE Failure("rpcError")

ClassifyResponse(a) ==
  IF a.status = 429 \/ (a.status = 403 /\ IsQuotaMessage(a.body)) THEN Failure("rateLimited")
  ELSE IF a.status = 403 /\ IsAuthenticationMessage(a.body) THEN Failure("authentication")
  ELSE IF a.status = 500 THEN Failure("serverError")
  ELSE IF a.html THEN Failure("html")
  ELSE IF a.body = "garbage" THEN Failure("nonJson")
  ELSE IF a.body = "otherId" THEN Failure("invalidResponse")
  ELSE IF a.body \in Errors THEN ClassifyError(a)
  ELSE IF a.status # 200 THEN Failure("clientError")
  ELSE InTime(a)

-----------------------------------------------------------------------------
(* What goes wrong between here and there, with nothing said of the node.  *)
Lost == [Answer("garbage") EXCEPT !.status = 500]
Refusals == {[Answer("quota") EXCEPT !.status = 429], Answer("quota"),
             [Answer("apiKey") EXCEPT !.status = 403], Answer("other")}
Garbled == {Answer("garbage"), Answer("otherId"), Answer("null"), [Answer("object") EXCEPT !.html = TRUE]}

Faulty == {Lost} \cup Refusals \cup Garbled

-----------------------------------------------------------------------------
(* Reads of old state                                                      *)

Unusable(a) == a.status \in {429, 500} \/ a.html \/ a.body \in {"garbage", "otherId"}

ClassifyArchiveResponse(a) ==
  IF Unusable(a) THEN "inconclusive"
  ELSE IF IsHistoricalStateUnavailable(a.body) THEN "no"
  ELSE IF a.status = 200 /\ a.body = "quantity" THEN "yes"
  ELSE "inconclusive"

ClassifyTraceResponse(a) ==
  IF Unusable(a) THEN "inconclusive"
  ELSE IF IsHistoricalStateUnavailable(a.body) THEN "pruned"
  ELSE IF IsDebugUnsupported(a.body) THEN "unsupported"
  ELSE IF a.status = 200 /\ a.body \in {"quantity", "object"} THEN "ok"
  ELSE "inconclusive"

(* rpc_result: a member `result`, whatever else is wrong with the answer.  *)
HasResult(a) == a.body \in {"otherId", "quantity", "object"}

ResolveByBalance(balance, trace) ==
  IF balance # "inconclusive" THEN balance
  ELSE CASE trace = "archive" -> "yes" [] trace = "fullNode" -> "no" [] OTHER -> "inconclusive"

(* What debug says comes first.                                            *)
ResolveArchiveClass(balance, trace) ==
  CASE trace = "archive" -> "yes"
    [] trace = "fullNode" -> "no"
    [] OTHER -> balance
=============================================================================
