---------------------------- MODULE MCToolCache ----------------------------
(***************************************************************************)
(* ToolCache for TLC: two callers race on one key, or on two.              *)
(***************************************************************************)
EXTENDS ToolCache

CONSTANTS p1, p2, k1, k2

MCCallers == {p1, p2}
MCKeys == {k1, k2}

=============================================================================
