--------------------------- MODULE BulkheadProofs ---------------------------
(***************************************************************************)
(* Proofs about Bulkhead for every number of callers and every limit: the  *)
(* two counters (sem and active) count the callers at the locations they   *)
(* should, from which the limit, the bound on the error of the metrics and *)
(* the refinement of ConcurrencyLimit follow.                              *)
(***************************************************************************)
EXTENDS Bulkhead, FiniteSetTheorems, TLAPS

IInv ==
    /\ TypeOK
    /\ SlotsMatchHolders
    /\ ActiveMatchesCallers

\* The callers at some set of locations are finitely many.
LEMMA AtFinite ==
    ASSUME NEW L
    PROVE  /\ IsFiniteSet(At(L))
           /\ Cardinality(At(L)) \in Nat
<1>1. At(L) \in SUBSET Callers
  BY DEF At
<1>2. QED
  BY <1>1, BulkheadAssumption, FS_Subset, FS_CardinalityType

\* A caller that moves joins the locations it moves to and leaves the others.
LEMMA MoveSet ==
    ASSUME TypeOK, NEW p \in Callers, NEW from, NEW to, Go(p, from, to), NEW L
    PROVE  At(L)' = IF to \in L THEN At(L) \cup {p} ELSE At(L) \ {p}
BY DEF At, Go, TypeOK

\* What a move does to the number of callers at some set of locations.
LEMMA MoveCount ==
    ASSUME TypeOK, NEW p \in Callers, NEW from, NEW to, Go(p, from, to), NEW L
    PROVE  /\ from \in L /\ to \in L => Cardinality(At(L)') = Cardinality(At(L))
           /\ from \notin L /\ to \notin L => Cardinality(At(L)') = Cardinality(At(L))
           /\ from \notin L /\ to \in L => Cardinality(At(L)') = Cardinality(At(L)) + 1
           /\ from \in L /\ to \notin L => Cardinality(At(L)') = Cardinality(At(L)) - 1
<1>1. p \in At(L) <=> from \in L
  BY DEF At, Go
<1>2. IsFiniteSet(At(L)) /\ Cardinality(At(L)) \in Nat
  BY AtFinite
<1>3. CASE to \in L
  <2>1. At(L)' = At(L) \cup {p}
    BY <1>3, MoveSet
  <2>2. QED
    BY <1>1, <1>2, <1>3, <2>1, FS_AddElement
<1>4. CASE to \notin L
  <2>1. At(L)' = At(L) \ {p}
    BY <1>4, MoveSet
  <2>2. QED
    BY <1>1, <1>2, <1>4, <2>1, FS_RemoveElement
<1>5. QED
  BY <1>3, <1>4

\* A caller on its way to give a slot back still holds one.
LEMMA ReleasingHolds ==
    ASSUME TypeOK, sem = Cardinality(Holders)
    PROVE  \A p \in Callers : pc[p] = "releasing" => sem > 0
<1> SUFFICES ASSUME NEW p \in Callers, pc[p] = "releasing" PROVE sem > 0
  OBVIOUS
<1>1. Holders # {}
  BY DEF Holders, At
<1>2. IsFiniteSet(Holders) /\ Cardinality(Holders) \in Nat
  BY AtFinite DEF Holders
<1>3. QED
  BY <1>1, <1>2, FS_EmptySet

\* NewBulkhead establishes the invariant.
LEMMA InitIInv == Init => IInv
<1> SUFFICES ASSUME Init PROVE IInv
  OBVIOUS
<1>1. TypeOK
  BY BulkheadAssumption DEF Init, TypeOK, Locations
<1>2. Holders = {} /\ Counted = {}
  BY DEF Init, Holders, Counted, At
<1>3. sem = Cardinality(Holders) /\ ActiveMatchesCallers
  BY <1>2, FS_EmptySet DEF Init, ActiveMatchesCallers
<1>4. QED
  BY <1>1, <1>3, ReleasingHolds DEF IInv, SlotsMatchHolders

\* Every step of every caller preserves the invariant.
LEMMA NextIInv == IInv /\ [Next]_vars => IInv'
<1> SUFFICES ASSUME IInv, [Next]_vars PROVE IInv'
  OBVIOUS
<1> USE BulkheadAssumption
<1>0. TypeOK /\ sem = Cardinality(Holders) /\ active = Cardinality(Counted)
  BY DEF IInv, SlotsMatchHolders, ActiveMatchesCallers
<1>a. ASSUME TypeOK', (sem = Cardinality(Holders))', (active = Cardinality(Counted))'
      PROVE  IInv'
  <2>1. (\A p \in Callers : pc[p] = "releasing" => sem > 0)'
    BY <1>a, ReleasingHolds, PTL
  <2>2. QED
    BY <1>a, <2>1 DEF IInv, SlotsMatchHolders, ActiveMatchesCallers
<1>1. ASSUME NEW p \in Callers, TryAcquire(p) PROVE IInv'
  <2>1. Go(p, "idle", "acquired")
    BY <1>1 DEF TryAcquire
  <2>2. Cardinality(Holders') = Cardinality(Holders) + 1 /\ Cardinality(Counted') = Cardinality(Counted)
    BY <1>0, <2>1, MoveCount DEF Holders, Counted
  <2>3. QED
    BY <1>0, <1>1, <2>2, <1>a DEF TryAcquire, SendSlot, Go, TypeOK, Locations
<1>2. ASSUME NEW p \in Callers, FindFull(p) PROVE IInv'
  <2>1. PICK to \in {"waiting", "rejecting"} : Go(p, "idle", to)
    BY <1>2 DEF FindFull
  <2>2. Cardinality(Holders') = Cardinality(Holders) /\ Cardinality(Counted') = Cardinality(Counted)
    BY <1>0, <2>1, MoveCount DEF Holders, Counted
  <2>3. QED
    BY <1>0, <1>2, <2>1, <2>2, <1>a DEF FindFull, Go, TypeOK, Locations
<1>3. ASSUME NEW p \in Callers, WaitAcquire(p) PROVE IInv'
  <2>1. Go(p, "waiting", "acquired")
    BY <1>3 DEF WaitAcquire
  <2>2. Cardinality(Holders') = Cardinality(Holders) + 1 /\ Cardinality(Counted') = Cardinality(Counted)
    BY <1>0, <2>1, MoveCount DEF Holders, Counted
  <2>3. QED
    BY <1>0, <1>3, <2>2, <1>a DEF WaitAcquire, SendSlot, Go, TypeOK, Locations
<1>4. ASSUME NEW p \in Callers, WaitTimeout(p) \/ WaitCancelled(p) \/ Reject(p) PROVE IInv'
  <2>1. PICK from \in {"waiting", "rejecting"}, to \in {"idle", "rejecting"} : Go(p, from, to)
    BY <1>4 DEF WaitTimeout, WaitCancelled, Reject
  <2>2. Cardinality(Holders') = Cardinality(Holders) /\ Cardinality(Counted') = Cardinality(Counted)
    BY <1>0, <2>1, MoveCount DEF Holders, Counted
  <2>3. QED
    BY <1>0, <1>4, <2>1, <2>2, <1>a DEF WaitTimeout, WaitCancelled, Reject, Go, TypeOK, Locations
<1>5. ASSUME NEW p \in Callers, CountAcquired(p) PROVE IInv'
  <2>1. Go(p, "acquired", "running")
    BY <1>5 DEF CountAcquired
  <2>2. Cardinality(Holders') = Cardinality(Holders) /\ Cardinality(Counted') = Cardinality(Counted) + 1
    BY <1>0, <2>1, MoveCount DEF Holders, Counted
  <2>3. QED
    BY <1>0, <1>5, <2>2, <1>a DEF CountAcquired, Go, TypeOK, Locations
<1>6. ASSUME NEW p \in Callers, OperationEnds(p) PROVE IInv'
  <2>1. Go(p, "running", "releasing")
    BY <1>6 DEF OperationEnds
  <2>2. Cardinality(Holders') = Cardinality(Holders) /\ Cardinality(Counted') = Cardinality(Counted)
    BY <1>0, <2>1, MoveCount DEF Holders, Counted
  <2>3. QED
    BY <1>0, <1>6, <2>2, <1>a DEF OperationEnds, Go, TypeOK, Locations
<1>7. ASSUME NEW p \in Callers, ReceiveSlot(p) PROVE IInv'
  <2>1. sem > 0
    BY <1>7 DEF ReceiveSlot, IInv, SlotsMatchHolders
  <2>2. Go(p, "releasing", "leaving") /\ sem' = sem - 1
    BY <1>7, <2>1 DEF ReceiveSlot, Go
  <2>3. Cardinality(Holders') = Cardinality(Holders) - 1 /\ Cardinality(Counted') = Cardinality(Counted)
    BY <1>0, <2>2, MoveCount DEF Holders, Counted
  <2>4. QED
    BY <1>0, <1>7, <2>1, <2>2, <2>3, <1>a DEF ReceiveSlot, Go, TypeOK, Locations
<1>8. ASSUME NEW p \in Callers, CountReleased(p) PROVE IInv'
  <2>1. Go(p, "leaving", "idle")
    BY <1>8 DEF CountReleased
  <2>2. Cardinality(Holders') = Cardinality(Holders) /\ Cardinality(Counted') = Cardinality(Counted) - 1
    BY <1>0, <2>1, MoveCount DEF Holders, Counted
  <2>3. Cardinality(Counted') \in Nat
    <3>1. Counted' \in SUBSET Callers
      BY DEF Counted, At
    <3>2. QED
      BY <3>1, FS_Subset, FS_CardinalityType
  <2>4. QED
    BY <1>0, <1>8, <2>2, <2>3, <1>a DEF CountReleased, Go, TypeOK, Locations
<1>9. ASSUME UNCHANGED vars PROVE IInv'
  <2>1. Holders' = Holders /\ Counted' = Counted
    BY <1>9 DEF vars, Holders, Counted, At
  <2>2. QED
    BY <1>0, <1>9, <2>1, <1>a DEF vars, TypeOK
<1>10. QED
  BY <1>1, <1>2, <1>3, <1>4, <1>5, <1>6, <1>7, <1>8, <1>9 DEF Next, Call, Continue

\* The inductive invariant holds in every reachable state of the bulkhead.
THEOREM Invariance == Spec => []IInv
<1>1. QED
  BY InitIInv, NextIInv, PTL DEF Spec

\* Types hold for every number of callers of Execute.
THEOREM TypeCorrect == Spec => []TypeOK
<1>1. IInv => TypeOK
  BY DEF IInv
<1>2. QED
  BY <1>1, Invariance, PTL

\* The channel holds one element per holder of a slot and Release never finds it
\* empty.
THEOREM SlotAccounting == Spec => []SlotsMatchHolders
<1>1. IInv => SlotsMatchHolders
  BY DEF IInv
<1>2. QED
  BY <1>1, Invariance, PTL

\* b.active counts the callers between its two updates.
THEOREM ActiveAccounting == Spec => []ActiveMatchesCallers
<1>1. IInv => ActiveMatchesCallers
  BY DEF IInv
<1>2. QED
  BY <1>1, Invariance, PTL

\* At most MaxConcurrent operations run inside the bulkhead, whatever the number
\* of callers.
THEOREM ConcurrencyBounded == Spec => []WithinLimit
<1>1. IInv => WithinLimit
  <2> SUFFICES ASSUME IInv PROVE WithinLimit
    OBVIOUS
  <2>1. At({"running"}) \in SUBSET Holders
    BY DEF At, Holders
  <2>2. IsFiniteSet(Holders) /\ Cardinality(At({"running"})) \in Nat
    BY AtFinite DEF Holders
  <2>3. Cardinality(At({"running"})) <= Cardinality(Holders)
    BY <2>1, <2>2, FS_Subset
  <2>4. QED
    BY <2>2, <2>3, BulkheadAssumption DEF IInv, TypeOK, SlotsMatchHolders, WithinLimit
<1>2. QED
  BY <1>1, Invariance, PTL

\* Metrics overstates the operations by at most the callers caught between
\* giving their slot back and counting down.
THEOREM MetricsDrift == Spec => []MetricsDriftBounded
<1>1. IInv => MetricsDriftBounded
  <2> SUFFICES ASSUME IInv PROVE MetricsDriftBounded
    OBVIOUS
  <2> DEFINE Leaving == At({"leaving"})
  <2>1. Counted \in SUBSET (Holders \cup Leaving)
    BY DEF Counted, Holders, At
  <2>2. /\ IsFiniteSet(Holders) /\ IsFiniteSet(Leaving)
        /\ Cardinality(Holders) \in Nat /\ Cardinality(Leaving) \in Nat
    BY AtFinite DEF Holders
  <2>3. /\ IsFiniteSet(Holders \cup Leaving)
        /\ Cardinality(Holders \cup Leaving) <= Cardinality(Holders) + Cardinality(Leaving)
    <3>1. /\ IsFiniteSet(Holders \cup Leaving)
          /\ Cardinality(Holders \cup Leaving)
               = Cardinality(Holders) + Cardinality(Leaving) - Cardinality(Holders \cap Leaving)
      BY <2>2, FS_Union
    <3>2. Holders \cap Leaving = {}
      BY DEF Holders, At
    <3>3. Cardinality(Holders \cap Leaving) = 0
      BY <3>2, FS_EmptySet
    <3>4. QED
      BY <2>2, <3>1, <3>3
  <2>4. Cardinality(Counted) <= Cardinality(Holders \cup Leaving)
    BY <2>1, <2>3, FS_Subset
  <2>5. Cardinality(Counted) \in Nat /\ Cardinality(Holders \cup Leaving) \in Nat
    BY <2>3, AtFinite, FS_CardinalityType DEF Counted
  <2>6. QED
    BY <2>2, <2>3, <2>4, <2>5, BulkheadAssumption
       DEF IInv, TypeOK, SlotsMatchHolders, ActiveMatchesCallers, MetricsDriftBounded, Metrics
<1>2. QED
  BY <1>1, Invariance, PTL

\* Every step of the bulkhead is a step of the abstract limiter or leaves its
\* holders alone.
LEMMA StepRefines == IInv /\ [Next]_vars => [Limiter!Next]_Holders
<1> SUFFICES ASSUME IInv, [Next]_vars PROVE [Limiter!Next]_Holders
  OBVIOUS
<1>0. TypeOK /\ sem = Cardinality(Holders)
  BY DEF IInv, SlotsMatchHolders
<1>1. ASSUME NEW p \in Callers, TryAcquire(p) \/ WaitAcquire(p) PROVE Limiter!Next
  <2>1. PICK from \in {"idle", "waiting"} : Go(p, from, "acquired")
    BY <1>1 DEF TryAcquire, WaitAcquire
  <2>2. Holders' = Holders \cup {p}
    BY <1>0, <2>1, MoveSet DEF Holders
  <2>3. p \notin Holders
    BY <2>1 DEF Holders, At, Go
  <2>4. Cardinality(Holders) < MaxConcurrent
    BY <1>0, <1>1 DEF TryAcquire, WaitAcquire, SendSlot
  <2>5. QED
    BY <2>2, <2>3, <2>4 DEF Limiter!Next, Limiter!Acquire, Limiter!Cardinality, Cardinality
<1>2. ASSUME NEW p \in Callers, ReceiveSlot(p) PROVE Limiter!Next
  <2>1. Go(p, "releasing", "leaving")
    BY <1>2 DEF ReceiveSlot, Go, IInv, SlotsMatchHolders
  <2>2. Holders' = Holders \ {p}
    BY <1>0, <2>1, MoveSet DEF Holders
  <2>3. p \in Holders
    BY <2>1 DEF Holders, At, Go
  <2>4. QED
    BY <2>2, <2>3 DEF Limiter!Next, Limiter!Release
<1>3. ASSUME NEW p \in Callers,
             FindFull(p) \/ WaitTimeout(p) \/ WaitCancelled(p) \/ Reject(p) \/ CountReleased(p)
      PROVE  Holders' = Holders
  <2>1. PICK from \in {"idle", "waiting", "rejecting", "leaving"},
             to \in {"waiting", "rejecting", "idle"} : Go(p, from, to)
    BY <1>3 DEF FindFull, WaitTimeout, WaitCancelled, Reject, CountReleased
  <2>2. QED
    BY <1>0, <2>1 DEF Holders, At, Go, TypeOK
<1>4. ASSUME NEW p \in Callers, CountAcquired(p) \/ OperationEnds(p) PROVE Holders' = Holders
  <2>1. PICK from \in {"acquired", "running"}, to \in {"running", "releasing"} : Go(p, from, to)
    BY <1>4 DEF CountAcquired, OperationEnds
  <2>2. QED
    BY <1>0, <2>1 DEF Holders, At, Go, TypeOK
<1>5. ASSUME UNCHANGED vars PROVE Holders' = Holders
  BY <1>5 DEF vars, Holders, At
<1>6. QED
  BY <1>1, <1>2, <1>3, <1>4, <1>5 DEF Next, Call, Continue

\* The bulkhead implements the concurrency limit: its slots behave as the
\* abstract holders do.
THEOREM Refinement == Spec => ImplementsLimit
<1>1. Init => Limiter!Init
  BY DEF Init, Limiter!Init, Holders, At
<1>2. QED
  BY <1>1, StepRefines, Invariance, PTL DEF Spec, ImplementsLimit, Limiter!Spec

=============================================================================
