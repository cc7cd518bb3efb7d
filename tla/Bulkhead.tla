------------------------------ MODULE Bulkhead ------------------------------
(***************************************************************************)
(* resilience/bulkhead.go: a Bulkhead shared by goroutines that call       *)
(* Execute (Acquire, the operation, a deferred Release).                   *)
(*                                                                         *)
(* The slots are the buffered channel sem; the statistics (active,         *)
(* maxActive, rejected) live under a mutex of their own.  A slot is taken  *)
(* or given back in one step and counted in another, so every caller has a *)
(* location between the two.                                               *)
(*                                                                         *)
(*   idle -> acquired -> running -> releasing -> leaving -> idle           *)
(*   idle -> waiting -> acquired | rejecting | idle                        *)
(*   idle -> rejecting -> idle                                             *)
(*                                                                         *)
(* A Go channel hands a freed slot to a blocked sender; here a newcomer    *)
(* may also take it first, which the code permits before the sender blocks.*)
(***************************************************************************)
EXTENDS Integers, FiniteSets

CONSTANTS
    Callers,        \* the goroutines that call Execute, again and again
    MaxConcurrent,  \* BulkheadConfig.MaxConcurrent
    CanWait,        \* whether BulkheadConfig.MaxWait > 0
    MaxRejected     \* bound: callers stop once so many could have been rejected

\* NewBulkhead replaces a zero or negative limit by a positive default.
ASSUME BulkheadAssumption ==
    /\ MaxConcurrent \in Nat \ {0}
    /\ CanWait \in BOOLEAN
    /\ MaxRejected \in Nat
    /\ IsFiniteSet(Callers)

VARIABLES
    pc,         \* where each caller is
    sem,        \* len(b.sem)
    active,     \* b.active
    maxActive,  \* b.maxActive
    rejected    \* b.rejected

vars == <<pc, sem, active, maxActive, rejected>>

Locations == {"idle", "waiting", "rejecting", "acquired", "running", "releasing", "leaving"}

At(L) == {p \in Callers : pc[p] \in L}

Holders == At({"acquired", "running", "releasing"})

Counted == At({"running", "releasing", "leaving"})

Go(p, from, to) ==
    /\ pc[p] = from
    /\ pc' = [pc EXCEPT ![p] = to]

Init ==
    /\ pc = [p \in Callers |-> "idle"]
    /\ sem = 0
    /\ active = 0
    /\ maxActive = 0
    /\ rejected = 0

-----------------------------------------------------------------------------
(***************************************************************************)
(* Acquire.                                                                *)
(***************************************************************************)
MayCall == rejected + Cardinality(At(Locations \ {"idle"})) < MaxRejected

\* Mutant: the channel has room for one operation more.
SendSlotOneMore == sem <= MaxConcurrent /\ sem' = sem + 1

\* b.sem <- struct{}{}: proceeds when the channel's buffer has room.
SendSlot == sem < MaxConcurrent /\ sem' = sem + 1

\* The fast path: a non-blocking send.  It does not look at the context.
TryAcquire(p) ==
    /\ MayCall
    /\ Go(p, "idle", "acquired")
    /\ SendSlot
    /\ UNCHANGED <<active, maxActive, rejected>>

\* No slot: wait for one if the configuration lets callers wait.
FindFull(p) ==
    /\ MayCall
    /\ sem = MaxConcurrent
    /\ Go(p, "idle", IF CanWait THEN "waiting" ELSE "rejecting")
    /\ UNCHANGED <<sem, active, maxActive, rejected>>

\* The three cases of the blocking select: a slot, the timer, the context.  When
\* several are ready the runtime picks any of them.
WaitAcquire(p) ==
    /\ Go(p, "waiting", "acquired")
    /\ SendSlot
    /\ UNCHANGED <<active, maxActive, rejected>>

WaitTimeout(p) ==
    /\ Go(p, "waiting", "rejecting")
    /\ UNCHANGED <<sem, active, maxActive, rejected>>

WaitCancelled(p) ==
    /\ Go(p, "waiting", "idle")
    /\ UNCHANGED <<sem, active, maxActive, rejected>>

\* ErrBulkheadFull, counted under the mutex.
Reject(p) ==
    /\ Go(p, "rejecting", "idle")
    /\ rejected' = rejected + 1
    /\ UNCHANGED <<sem, active, maxActive>>

\* The second step of a successful Acquire, under the mutex.
CountAcquired(p) ==
    /\ Go(p, "acquired", "running")
    /\ active' = active + 1
    /\ maxActive' = IF active' > maxActive THEN active' ELSE maxActive
    /\ UNCHANGED <<sem, rejected>>

-----------------------------------------------------------------------------
(***************************************************************************)
(* Execute and Release.                                                    *)
(***************************************************************************)

\* Mutant: Release is not deferred and a failing operation returns without it.
OperationSkipsRelease(p) ==
    /\ pc[p] = "running"
    /\ \E next \in {"releasing", "leaving"} : pc' = [pc EXCEPT ![p] = next]
    /\ UNCHANGED <<sem, active, maxActive, rejected>>

\* The operation returns or panics; either way the deferred Release runs.
OperationEnds(p) ==
    /\ Go(p, "running", "releasing")
    /\ UNCHANGED <<sem, active, maxActive, rejected>>

\* <-b.sem: with the channel empty Release would return at once, uncounted.
ReceiveSlot(p) ==
    /\ pc[p] = "releasing"
    /\ pc' = [pc EXCEPT ![p] = IF sem > 0 THEN "leaving" ELSE "idle"]
    /\ sem' = IF sem > 0 THEN sem - 1 ELSE sem
    /\ UNCHANGED <<active, maxActive, rejected>>

\* Mutant: the count is not taken back.
CountReleasedNever(p) ==
    /\ Go(p, "leaving", "idle")
    /\ UNCHANGED <<sem, active, maxActive, rejected>>

CountReleased(p) ==
    /\ Go(p, "leaving", "idle")
    /\ active' = active - 1
    /\ UNCHANGED <<sem, maxActive, rejected>>

\* What a call of Metrics reports.
Metrics ==
    [Active |-> active, MaxActive |-> maxActive,
     Available |-> MaxConcurrent - active, Rejected |-> rejected]

-----------------------------------------------------------------------------
Call(p) == TryAcquire(p) \/ FindFull(p)

Continue(p) ==
    \/ WaitAcquire(p)
    \/ WaitTimeout(p)
    \/ WaitCancelled(p)
    \/ Reject(p)
    \/ CountAcquired(p)
    \/ OperationEnds(p)
    \/ ReceiveSlot(p)
    \/ CountReleased(p)

Next == \E p \in Callers : Call(p) \/ Continue(p)

Spec == Init /\ [][Next]_vars

-----------------------------------------------------------------------------
(***************************************************************************)
(* Properties.                                                             *)
(***************************************************************************)

\* Every variable has the type of the field it stands for; active never goes
\* negative and the channel never holds more than its capacity.
TypeOK ==
    /\ pc \in [Callers -> Locations]
    /\ sem \in 0..MaxConcurrent
    /\ active \in Nat
    /\ maxActive \in Nat
    /\ rejected \in Nat

\* No slot is leaked and none is given back twice: the channel holds one element
\* for each caller between its send and its receive, so Release never takes the
\* branch that "shouldn't happen in normal usage" (bulkhead.go:100).
SlotsMatchHolders ==
    /\ sem = Cardinality(Holders)
    /\ \A p \in Callers : pc[p] = "releasing" => sem > 0

\* The limit: at most MaxConcurrent operations run inside the bulkhead.
WithinLimit == Cardinality(At({"running"})) <= MaxConcurrent

\* The statistic b.active counts the callers between the two mutex sections that
\* change it, so it returns to zero when everybody has left.
ActiveMatchesCallers == active = Cardinality(Counted)

\* How far Metrics can be off: Active exceeds MaxConcurrent by no more than the
\* number of callers that have given their slot back but not yet counted down.
MetricsDriftBounded == Metrics.Active <= MaxConcurrent + Cardinality(At({"leaving"}))

\* The bulkhead implements the concurrency limit it is meant to be.
Limiter == INSTANCE ConcurrencyLimit WITH Limit <- MaxConcurrent, holders <- Holders

ImplementsLimit == Limiter!Spec

=============================================================================
