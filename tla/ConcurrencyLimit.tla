-------------------------- MODULE ConcurrencyLimit --------------------------
(***************************************************************************)
(* What a bulkhead promises: never more than Limit holders at once.  A     *)
(* caller becomes a holder only while there is room, and stops being one   *)
(* when it likes.  Rejections, waiting and statistics are invisible here.  *)
(***************************************************************************)
EXTENDS Integers, FiniteSets

CONSTANTS Callers, Limit

VARIABLE holders

Init == holders = {}

Acquire(p) ==
    /\ p \notin holders
    /\ Cardinality(holders) < Limit
    /\ holders' = holders \cup {p}

Release(p) ==
    /\ p \in holders
    /\ holders' = holders \ {p}

Next == \E p \in Callers : Acquire(p) \/ Release(p)

Spec == Init /\ [][Next]_holders

=============================================================================
