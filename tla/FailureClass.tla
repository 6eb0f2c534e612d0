----------------------------- MODULE FailureClass -----------------------------
(***************************************************************************)
(* The classes of crates/azums/src/jobs/retry.rs that handler errors fall  *)
(* into, and what both worker loops decide from them.  A handler comes to  *)
(* "ok" or to one of the classes; SystemFailure is treated as Retryable.   *)
(***************************************************************************)

\* Ok, a panic, timeout_seconds passed, or an error of one of the classes of
\* classify_error.
HandlerOutcomes == {"ok", "retryable", "permanent", "cancelled", "panic", "timeout"}

\* ErrorClass::is_retryable
IsRetryable(outcome) == outcome \in {"retryable", "timeout"}

\* ErrorClass::dlq_reason_code
DlqReason(outcome) ==
  CASE outcome = "permanent" -> "PERMANENT_ERROR"
    [] outcome = "cancelled" -> "CANCELLED"
    [] outcome = "panic" -> "PANIC"
    [] OTHER -> "MAX_ATTEMPTS_EXCEEDED"

ReasonCodes == {DlqReason(outcome) : outcome \in HandlerOutcomes \ {"ok"}}
=============================================================================
