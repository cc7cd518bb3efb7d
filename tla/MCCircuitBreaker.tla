-------------------------- MODULE MCCircuitBreaker --------------------------
(***************************************************************************)
(* CircuitBreaker for TLC.  lost only ever matters as zero or not zero     *)
(* beyond the probe budget, which bounds it: every lost probe used one.    *)
(***************************************************************************)
EXTENDS CircuitBreaker, TLC

CONSTANTS r1, r2, r3, r4

MCRequests == {r1, r2, r3, r4}

=============================================================================
