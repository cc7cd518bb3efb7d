----------------------------- MODULE MCExecutor -----------------------------
(***************************************************************************)
(* Executor for TLC: two callers and an outsider compete for two slots, so *)
(* callers overlap inside the breaker and wait for the bulkhead.           *)
(***************************************************************************)
EXTENDS Executor

CONSTANTS p1, p2, other

MCRequests == {p1, p2}
MCOthers == {other}
MCRetryable == {"error", "timeout"}

=============================================================================
