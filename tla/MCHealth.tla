------------------------------ MODULE MCHealth ------------------------------
(***************************************************************************)
(* Health for TLC: a memory checker and another one, under two names.      *)
(***************************************************************************)
EXTENDS Health

CONSTANTS p1, a, b, mem, db

MCProbes == {p1}
MCNames == {a, b}
MCCheckers == {mem, db}
MCMemory == {mem}
MCConditions == {"healthy", "unhealthy"}
\* Just below and at each threshold.
MCUsages == {799, 800, 950}

=============================================================================
