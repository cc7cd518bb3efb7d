----------------------------- MODULE MCBulkhead -----------------------------
(***************************************************************************)
(* Bulkhead for TLC: more callers than slots, so that callers wait, are    *)
(* rejected and overtake one another.                                      *)
(***************************************************************************)
EXTENDS Bulkhead

CONSTANTS p1, p2, p3, p4

MCCallers == {p1, p2, p3, p4}

=============================================================================
