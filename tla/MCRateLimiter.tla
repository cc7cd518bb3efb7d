--------------------------- MODULE MCRateLimiter ---------------------------
(***************************************************************************)
(* RateLimiter for TLC.  A token is 3 units and a tick refills 2, so waits *)
(* are not whole numbers of ticks and the truncation of WaitTime shows;    *)
(* asking for 3 tokens exceeds the burst of 2.                             *)
(***************************************************************************)
EXTENDS RateLimiter, TLC

CONSTANTS p1, p2

MCCallers == {p1, p2}
MCAmounts == {1, 2, 3}

\* Callers are interchangeable, and no liveness property is checked.
MCSymmetry == Permutations(MCCallers)

=============================================================================
