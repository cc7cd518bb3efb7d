--------------------------- MODULE ExecutorProofs ---------------------------
(***************************************************************************)
(* Proofs about CircuitBreaker and Executor for every number of callers    *)
(* and every configuration.                                                *)
(***************************************************************************)
EXTENDS Executor, FiniteSetTheorems, TLAPS

(***************************************************************************)
(* The breaker by itself.  The inductive invariant adds to the properties  *)
(* the model checker checks one fact about the two clocks: in an open      *)
(* circuit the time since the last recorded failure is the time since the  *)
(* circuit tripped, and a half-open circuit has waited the whole           *)
(* ResetTimeout.                                                           *)
(***************************************************************************)
TripClock ==
    /\ state = "Open" => sinceTrip = sinceFailure
    /\ state = "HalfOpen" => sinceTrip = ResetTimeout

BreakerInv ==
    /\ CBTypeOK
    /\ FailuresMatchState
    /\ ProbeBudgetExact
    /\ TripClock
    /\ ListenerInSync

\* What starting, finishing or losing a probe does to the number of probes in
\* flight: one more, or one fewer.
LEMMA ProbeCount ==
    ASSUME NEW S \in SUBSET Requests, NEW r \in Requests
    PROVE  /\ Cardinality(S) \in Nat
           /\ r \notin S => Cardinality(S \cup {r}) = Cardinality(S) + 1
           /\ r \in S => Cardinality(S \ {r}) = Cardinality(S) - 1
           /\ Cardinality(S) = 0 <=> S = {}
<1>1. IsFiniteSet(S)
  BY RequestsAssumption, FS_Subset
<1>2. QED
  BY <1>1, FS_CardinalityType, FS_AddElement, FS_RemoveElement, FS_EmptySet

\* NewCircuitBreaker establishes the invariant.
LEMMA BreakerInitInv == CBInit => BreakerInv
<1> SUFFICES ASSUME CBInit PROVE BreakerInv
  OBVIOUS
<1>1. CBTypeOK /\ FailuresMatchState /\ TripClock /\ ListenerInSync
  BY ConfigAssumption DEF CBInit, CBTypeOK, FailuresMatchState, TripClock, ListenerInSync, States
<1>2. ProbeBudgetExact
  BY DEF CBInit, ProbeBudgetExact
<1>3. QED
  BY <1>1, <1>2 DEF BreakerInv

\* Every critical section of the breaker, every panic and every step of the
\* environment preserves the invariant.
LEMMA BreakerNextInv == BreakerInv /\ [CBNext]_cbVars => BreakerInv'
<1> SUFFICES ASSUME BreakerInv, [CBNext]_cbVars PROVE BreakerInv'
  OBVIOUS
<1> USE ConfigAssumption DEF BreakerInv, States, historyVars, breakerVars
<1>1. ASSUME NEW r \in Requests, Admit(r) PROVE BreakerInv'
  <2>1. CASE CurrentState = "HalfOpen"
    <3>1. CurrentProbes \in SUBSET Requests /\ r \notin CurrentProbes
      BY <1>1 DEF Admit, CurrentProbes, CBTypeOK
    <3>2. CurrentCount = Cardinality(CurrentProbes) + CurrentLost
      BY <2>1, FS_EmptySet
         DEF CurrentState, CurrentCount, CurrentProbes, CurrentLost, ProbeBudgetExact, CBTypeOK
    <3>3. CurrentCount \in Nat /\ CurrentLost \in Nat /\ CurrentCount < HalfOpenMaxRequests
      BY <1>1, <2>1 DEF Admit, CanAdmit, CurrentCount, CurrentLost, CBTypeOK
    <3>4. ProbeBudgetExact'
      BY <1>1, <2>1, <3>1, <3>2, <3>3, ProbeCount DEF Admit, ProbeBudgetExact
    <3>5. CBTypeOK'
      BY <1>1, <2>1, <3>3 DEF Admit, CurrentProbes, Notify, CBTypeOK
    <3>6. FailuresMatchState' /\ TripClock' /\ ListenerInSync'
      BY <1>1, <2>1 DEF Admit, CurrentState, TimedOut, Notify, CBTypeOK,
                        FailuresMatchState, TripClock, ListenerInSync
    <3>7. QED
      BY <3>4, <3>5, <3>6
  <2>2. CASE CurrentState # "HalfOpen"
    <3>1. state = "Closed" /\ state' = "Closed"
      BY <1>1, <2>2 DEF Admit, CanAdmit, CurrentState
    <3>2. QED
      BY <1>1, <2>2, <3>1 DEF Admit, Notify, CBTypeOK, FailuresMatchState, ProbeBudgetExact,
                              TripClock, ListenerInSync
  <2>3. QED
    BY <2>1, <2>2
<1>2. ASSUME NEW r \in Requests, Refuse(r) PROVE BreakerInv'
  BY <1>2 DEF Refuse, cbVars, CBTypeOK, FailuresMatchState, ProbeBudgetExact, TripClock, ListenerInSync
<1>3. ASSUME NEW r \in Requests, Finish(r) PROVE BreakerInv'
  <2>1. PICK isFailure \in BOOLEAN : AfterRequest(r, isFailure)
    BY <1>3 DEF Finish
  <2>2. state' # "HalfOpen"
    BY <2>1 DEF AfterRequest, FailureWhileClosed, SuccessWhileClosed, FailureWhileHalfOpen,
                SuccessWhileHalfOpen, IgnoredWhileOpen
  <2>3. CBTypeOK' /\ FailuresMatchState'
    BY <2>1 DEF AfterRequest, FailureWhileClosed, SuccessWhileClosed, FailureWhileHalfOpen,
                SuccessWhileHalfOpen, IgnoredWhileOpen, Notify, CBTypeOK, FailuresMatchState
  <2>4. ProbeBudgetExact'
    BY <2>2 DEF ProbeBudgetExact
  <2>5. TripClock' /\ ListenerInSync'
    BY <2>1, <2>2 DEF AfterRequest, FailureWhileClosed, SuccessWhileClosed, FailureWhileHalfOpen,
                SuccessWhileHalfOpen, IgnoredWhileOpen, Notify, CBTypeOK, TripClock, ListenerInSync
  <2>6. QED
    BY <2>3, <2>4, <2>5
<1>4. ASSUME NEW r \in Requests, Panic(r) PROVE BreakerInv'
  <2>1. ProbeBudgetExact'
    <3>1. probes \in SUBSET Requests
      BY DEF CBTypeOK
    <3>2. CASE r \in probes
      BY <1>4, <3>1, <3>2, ProbeCount DEF Panic, CBTypeOK, ProbeBudgetExact
    <3>3. CASE r \notin probes
      <4>1. probes \ {r} = probes
        BY <3>3
      <4>2. QED
        BY <1>4, <3>3, <4>1 DEF Panic, CBTypeOK, ProbeBudgetExact
    <3>4. QED
      BY <3>2, <3>3
  <2>2. QED
    BY <1>4, <2>1 DEF Panic, CBTypeOK, FailuresMatchState, TripClock, ListenerInSync
<1>5. ASSUME ReadState PROVE BreakerInv'
  <2>1. ProbeBudgetExact'
    BY <1>5, FS_EmptySet DEF ReadState, CurrentState, CurrentCount, CurrentProbes, CurrentLost,
                             ProbeBudgetExact
  <2>2. QED
    BY <1>5, <2>1 DEF ReadState, CurrentState, CurrentCount, CurrentProbes, CurrentLost, TimedOut,
                      Notify, CBTypeOK, FailuresMatchState, TripClock, ListenerInSync
<1>6. ASSUME Reset PROVE BreakerInv'
  BY <1>6 DEF Reset, Notify, CBTypeOK, FailuresMatchState, ProbeBudgetExact, TripClock, ListenerInSync
<1>7. ASSUME Tick PROVE BreakerInv'
  BY <1>7 DEF Tick, Later, CBTypeOK, FailuresMatchState, ProbeBudgetExact, TripClock, ListenerInSync
<1>8. ASSUME ServiceChange PROVE BreakerInv'
  BY <1>8 DEF ServiceChange, CBTypeOK, FailuresMatchState, ProbeBudgetExact, TripClock, ListenerInSync
<1>9. ASSUME UNCHANGED cbVars PROVE BreakerInv'
  BY <1>9 DEF cbVars, CBTypeOK, FailuresMatchState, ProbeBudgetExact, TripClock, ListenerInSync
<1>10. QED
  BY <1>1, <1>2, <1>3, <1>4, <1>5, <1>6, <1>7, <1>8, <1>9 DEF CBNext

\* The inductive invariant holds in every reachable state of the breaker.
THEOREM BreakerInvariance == CBSpec => []BreakerInv
<1>1. QED
  BY BreakerInitInv, BreakerNextInv, PTL DEF CBSpec

\* Types, and the bound HalfOpenMaxRequests on the probe counter, hold for every
\* number of concurrent callers of Execute.
THEOREM BreakerTypeCorrect == CBSpec => []CBTypeOK
<1>1. BreakerInv => CBTypeOK
  BY DEF BreakerInv
<1>2. QED
  BY <1>1, BreakerInvariance, PTL

\* The failure counter of circuit.go agrees with its state for every threshold.
THEOREM FailureCounterCorrect == CBSpec => []FailuresMatchState
<1>1. BreakerInv => FailuresMatchState
  BY DEF BreakerInv
<1>2. QED
  BY <1>1, BreakerInvariance, PTL

\* halfOpenCount counts the probes of the current half-open period exactly, late
\* completions of earlier periods notwithstanding.
THEOREM ProbeBudgetCorrect == CBSpec => []ProbeBudgetExact
<1>1. BreakerInv => ProbeBudgetExact
  BY DEF BreakerInv
<1>2. QED
  BY <1>1, BreakerInvariance, PTL

\* An OnStateChange listener is told of every change of cb.state.
THEOREM ListenerCorrect == CBSpec => []ListenerInSync
<1>1. BreakerInv => ListenerInSync
  BY DEF BreakerInv
<1>2. QED
  BY <1>1, BreakerInvariance, PTL

\* No request is admitted by a circuit that is not closed until ResetTimeout has
\* passed since it last tripped.
THEOREM NoEarlyProbeHolds == CBSpec => NoEarlyProbe
<1> DEFINE Waited == \A r \in Requests :
              r \in inflight' \ inflight /\ state # "Closed" => sinceTrip = ResetTimeout
<1>1. BreakerInv /\ [CBNext]_cbVars => [Waited]_cbVars
  <2> SUFFICES ASSUME BreakerInv, CBNext, NEW r \in Requests, r \in inflight' \ inflight,
                      state # "Closed"
               PROVE  sinceTrip = ResetTimeout
    BY DEF CBNext
  <2>1. PICK q \in Requests : Admit(q)
    BY DEF CBNext, Refuse, Finish, AfterRequest, Panic, ReadState, Reset, Tick, ServiceChange, cbVars
  <2>2. state = "HalfOpen" \/ TimedOut
    BY <2>1 DEF Admit, CanAdmit, CurrentState, BreakerInv, CBTypeOK, States
  <2>3. QED
    BY <2>2, ConfigAssumption DEF TimedOut, BreakerInv, CBTypeOK, TripClock
<1>2. QED
  BY <1>1, BreakerInvariance, PTL DEF CBSpec, NoEarlyProbe

-----------------------------------------------------------------------------
(***************************************************************************)
(* The executor around the breaker and the bulkhead.                       *)
(***************************************************************************)

\* A step of Execute, or of somebody else, is a step of the breaker or none.
LEMMA BreakerStep == ~healthy /\ [Next]_vars => ~healthy' /\ [CBNext]_cbVars
<1> SUFFICES ASSUME ~healthy, [Next]_vars PROVE ~healthy' /\ [CBNext]_cbVars
  OBVIOUS
<1> USE DEF cbVars, breakerVars, historyVars
<1>1. ASSUME NEW p \in Requests, Call(p) \/ GetSlot(p) \/ TurnedAway(p) \/ Return(p)
      PROVE  UNCHANGED cbVars
  BY <1>1 DEF Call, GetSlot, TurnedAway, Return, AtRest
<1>2. ASSUME NEW p \in Requests, BreakerAdmits(p)
      PROVE  Admit(p) /\ ~healthy'
  BY <1>2 DEF BreakerAdmits, Admit
<1>3. ASSUME NEW p \in Requests, BreakerRecords(p)
      PROVE  Finish(p) /\ ~healthy'
  <2>1. AfterRequest(p, result[p] # "ok") /\ (result[p] # "ok") \in BOOLEAN
    BY <1>3 DEF BreakerRecords
  <2> QED BY <2>1 DEF Finish, AfterRequest
<1>4. ASSUME NEW p \in Requests,
             \/ BreakerRefuses(p) \/ ReceiveResult(p) \/ TimesOut(p) \/ BackoffElapses(p)
             \/ Cancelled(p) \/ OpReturns(p) \/ OrphanReturns(p)
      PROVE  UNCHANGED cbVars
  BY <1>4 DEF BreakerRefuses, ReceiveResult, TimesOut, BackoffElapses, Cancelled,
              AttemptCancelled, BackoffCancelled, GiveUp, OpReturns, OrphanReturns
<1>5. ASSUME BreakerOutside PROVE CBNext /\ ~healthy'
  BY <1>5 DEF BreakerOutside, CBNext, Tick, ReadState, Reset
<1>6. ASSUME BulkheadOutside \/ UNCHANGED vars PROVE UNCHANGED cbVars
  BY <1>6 DEF BulkheadOutside, vars
<1> QED BY <1>1, <1>2, <1>3, <1>4, <1>5, <1>6 DEF Next, Continue, CBNext

\* "Executor: Execute() is safe; all wrapped patterns maintain their guarantees"
\* (doc.go:103): whatever the chain around it does, every behaviour of the executor is,
\* on the breaker's fields, a behaviour of the circuit breaker.
THEOREM BreakerWithin == Spec => CBSpec
<1>1. Init => CBInit /\ ~healthy
  BY DEF Init
<1> QED BY <1>1, BreakerStep, PTL DEF Spec, CBSpec

\* So the breaker of an executor keeps its guarantees.
LEMMA BreakerKept == Spec => []BreakerInv
BY BreakerWithin, BreakerInvariance, PTL

-----------------------------------------------------------------------------
\* What a caller has in hand, by where it is in the chain.
InHand(p) ==
    /\ stage[p] \in {"out", "waiting", "breaker"} =>
         attempt[p] = 0 /\ done[p] = "empty" /\ result[p] = "none" /\ wonAt[p] = 0
    /\ stage[p] \in {"await", "backoff"} => result[p] = "none"
    /\ stage[p] = "backoff" => attempt[p] < MaxAttempts
    /\ stage[p] = "await" /\ done[p] = "ok" => wonAt[p] = attempt[p]
    /\ result[p] = "ok" => wonAt[p] = attempt[p]

Nested(p) ==
    /\ p \in holders <=> stage[p] \notin {"out", "waiting"}
    /\ p \in inflight <=> stage[p] \in {"await", "backoff", "after"}
    /\ live[p] => stage[p] = "await"

ChainTypes ==
    /\ holders \in SUBSET (Requests \cup Others)
    /\ stage \in [Requests -> Stages]
    /\ attempt \in [Requests -> 0..MaxAttempts]
    /\ live \in [Requests -> BOOLEAN]
    /\ done \in [Requests -> {"empty", "ok", "error"}]
    /\ result \in [Requests -> Errors \cup {"none", "ok", "open"}]
    /\ orphans \in [Requests -> Nat]
    /\ wonAt \in [Requests -> 0..MaxAttempts]

WithinLimit == IsFiniteSet(holders) /\ Cardinality(holders) <= MaxConcurrent

ChainInv ==
    /\ ChainTypes
    /\ \A p \in Requests : InHand(p) /\ Nested(p)
    /\ WithinLimit

LEMMA InitChain == Init => ChainInv
<1> SUFFICES ASSUME Init PROVE ChainInv
  OBVIOUS
<1> USE DEF Init, BH!Init, CBInit
<1>1. ChainTypes
  BY ExecutorAssumption DEF ChainTypes, Stages, Errors
<1>2. \A p \in Requests : InHand(p) /\ Nested(p)
  BY DEF InHand, Nested
<1>3. WithinLimit
  BY FS_EmptySet, ExecutorAssumption DEF WithinLimit
<1> QED BY <1>1, <1>2, <1>3 DEF ChainInv

\* A caller that a step of another one does not touch keeps what it has.
LEMMA OthersKeep ==
    ASSUME NEW q \in Requests, InHand(q) /\ Nested(q),
           stage'[q] = stage[q], attempt'[q] = attempt[q], live'[q] = live[q], done'[q] = done[q],
           result'[q] = result[q], wonAt'[q] = wonAt[q],
           q \in holders' <=> q \in holders, q \in inflight' <=> q \in inflight
    PROVE  InHand(q)' /\ Nested(q)'
BY DEF InHand, Nested

\* Taking a slot while there is room, and giving it back, respect the limit.
LEMMA SlotTaken ==
    ASSUME WithinLimit, NEW p, BH!Acquire(p)
    PROVE  WithinLimit' /\ holders' = holders \cup {p} /\ p \notin holders
<1>1. holders' = holders \cup {p} /\ p \notin holders /\ Cardinality(holders) < MaxConcurrent
  BY DEF BH!Acquire, BH!Cardinality, Cardinality
<1>2. /\ IsFiniteSet(holders \cup {p}) /\ Cardinality(holders \cup {p}) = Cardinality(holders) + 1
      /\ Cardinality(holders) \in Nat
  BY <1>1, FS_AddElement, FS_CardinalityType DEF WithinLimit
<1> QED BY <1>1, <1>2, ExecutorAssumption DEF WithinLimit

LEMMA SlotReturned ==
    ASSUME WithinLimit, NEW p, BH!Release(p)
    PROVE  WithinLimit' /\ holders' = holders \ {p}
<1>1. holders' = holders \ {p} /\ p \in holders
  BY DEF BH!Release
<1>2. /\ IsFiniteSet(holders \ {p}) /\ Cardinality(holders \ {p}) = Cardinality(holders) - 1
      /\ Cardinality(holders) \in Nat
  BY <1>1, FS_RemoveElement, FS_CardinalityType DEF WithinLimit
<1> QED BY <1>1, <1>2, ExecutorAssumption DEF WithinLimit

LEMMA SlotsKept == WithinLimit /\ UNCHANGED holders => WithinLimit'
BY DEF WithinLimit

-----------------------------------------------------------------------------
\* Bulkhead.Execute around the chain.
LEMMA CallChain ==
    ASSUME ChainInv, NEW p \in Requests, Call(p)
    PROVE  ChainInv'
<1> USE DEF Call, Go, AtRest, cbVars, breakerVars, historyVars
<1>1. CASE stage' = [stage EXCEPT ![p] = "breaker"] /\ stage[p] = "out" /\ BH!Acquire(p)
  <2>1. WithinLimit' /\ holders' = holders \cup {p}
    BY <1>1, SlotTaken DEF ChainInv
  <2>2. ChainTypes'
    BY <1>1, <2>1 DEF ChainInv, ChainTypes, Stages
  <2>3. InHand(p)' /\ Nested(p)'
    BY <1>1, <2>1 DEF ChainInv, ChainTypes, InHand, Nested
  <2>4. ASSUME NEW q \in Requests \ {p} PROVE InHand(q)' /\ Nested(q)'
    BY <1>1, <2>1, OthersKeep DEF ChainInv, ChainTypes
  <2> QED BY <2>1, <2>2, <2>3, <2>4 DEF ChainInv
<1>2. CASE stage' = [stage EXCEPT ![p] = "waiting"] /\ stage[p] = "out" /\ UNCHANGED holders
  <2>1. WithinLimit'
    BY <1>2, SlotsKept DEF ChainInv
  <2>2. ChainTypes'
    BY <1>2 DEF ChainInv, ChainTypes, Stages
  <2>3. InHand(p)' /\ Nested(p)'
    BY <1>2 DEF ChainInv, ChainTypes, InHand, Nested
  <2>4. ASSUME NEW q \in Requests \ {p} PROVE InHand(q)' /\ Nested(q)'
    BY <1>2, OthersKeep DEF ChainInv, ChainTypes
  <2> QED BY <2>1, <2>2, <2>3, <2>4 DEF ChainInv
<1> QED BY <1>1, <1>2

LEMMA GetSlotChain ==
    ASSUME ChainInv, NEW p \in Requests, GetSlot(p)
    PROVE  ChainInv'
<1> USE DEF GetSlot, Go, AtRest, cbVars, breakerVars, historyVars
<1>1. WithinLimit' /\ holders' = holders \cup {p}
  BY SlotTaken DEF ChainInv
<1>2. ChainTypes'
  BY <1>1 DEF ChainInv, ChainTypes, Stages
<1>3. InHand(p)' /\ Nested(p)'
  BY <1>1 DEF ChainInv, ChainTypes, InHand, Nested
<1>4. ASSUME NEW q \in Requests \ {p} PROVE InHand(q)' /\ Nested(q)'
  BY <1>1, OthersKeep DEF ChainInv, ChainTypes
<1> QED BY <1>1, <1>2, <1>3, <1>4 DEF ChainInv

LEMMA TurnedAwayChain ==
    ASSUME ChainInv, NEW p \in Requests, TurnedAway(p)
    PROVE  ChainInv'
<1> USE DEF TurnedAway, Go, AtRest, cbVars, breakerVars, historyVars
<1>1. WithinLimit'
  BY SlotsKept DEF ChainInv
<1>2. ChainTypes'
  BY DEF ChainInv, ChainTypes, Stages
<1>3. InHand(p)' /\ Nested(p)'
  BY DEF ChainInv, ChainTypes, InHand, Nested
<1>4. ASSUME NEW q \in Requests \ {p} PROVE InHand(q)' /\ Nested(q)'
  BY OthersKeep DEF ChainInv, ChainTypes
<1> QED BY <1>1, <1>2, <1>3, <1>4 DEF ChainInv

LEMMA ReturnChain ==
    ASSUME ChainInv, NEW p \in Requests, Return(p)
    PROVE  ChainInv'
<1> USE DEF Return, Go, cbVars, breakerVars, historyVars
<1>1. WithinLimit' /\ holders' = holders \ {p}
  BY SlotReturned DEF ChainInv
<1>2. ChainTypes'
  BY <1>1, ExecutorAssumption DEF ChainInv, ChainTypes, Stages
<1>3. InHand(p)' /\ Nested(p)'
  BY <1>1 DEF ChainInv, ChainTypes, InHand, Nested
<1>4. ASSUME NEW q \in Requests \ {p} PROVE InHand(q)' /\ Nested(q)'
  BY <1>1, OthersKeep DEF ChainInv, ChainTypes
<1> QED BY <1>1, <1>2, <1>3, <1>4 DEF ChainInv

-----------------------------------------------------------------------------
\* The attempts.  What an attempt ends with is its result, or an error of the context.
LEMMA EndAttemptChain ==
    ASSUME ChainInv, NEW p \in Requests, NEW err \in Errors \cup {"ok"}, EndAttempt(p, err),
           err = "ok" => done[p] = "ok",
           orphans' \in [Requests -> Nat],
           UNCHANGED <<holders, cbVars, attempt, done, wonAt>>
    PROVE  ChainInv'
<1> USE DEF EndAttempt, Go, cbVars, breakerVars, historyVars
<1>1. WithinLimit'
  BY SlotsKept DEF ChainInv
<1>2. ChainTypes'
  BY DEF ChainInv, ChainTypes, Stages
<1>3. "ok" \notin Retryable
  BY ExecutorAssumption DEF Errors
<1>4. InHand(p)' /\ Nested(p)'
  BY <1>3 DEF ChainInv, ChainTypes, InHand, Nested, WillRetry, Errors
<1>5. ASSUME NEW q \in Requests \ {p} PROVE InHand(q)' /\ Nested(q)'
  BY OthersKeep DEF ChainInv, ChainTypes
<1> QED BY <1>1, <1>2, <1>4, <1>5 DEF ChainInv

LEMMA ReceiveResultChain ==
    ASSUME ChainInv, NEW p \in Requests, ReceiveResult(p)
    PROVE  ChainInv'
<1>1. done[p] \in {"ok", "error"} /\ EndAttempt(p, done[p])
  BY DEF ReceiveResult, ChainInv, ChainTypes
<1>2. UNCHANGED <<holders, cbVars, attempt, done, orphans, wonAt>>
  BY DEF ReceiveResult
<1>3. orphans' \in [Requests -> Nat] /\ done[p] \in Errors \cup {"ok"}
  BY <1>1, <1>2 DEF ChainInv, ChainTypes, Errors
<1> QED BY <1>1, <1>2, <1>3, EndAttemptChain

LEMMA GiveUpChain ==
    ASSUME ChainInv, NEW p \in Requests, NEW err \in {"timeout", "cancelled"}, GiveUp(p, err)
    PROVE  ChainInv'
<1>1. EndAttempt(p, err) /\ UNCHANGED <<holders, cbVars, attempt, done, wonAt>>
  BY DEF GiveUp
<1>2. orphans' \in [Requests -> Nat] /\ err \in Errors \cup {"ok"} /\ err # "ok"
  BY DEF GiveUp, ChainInv, ChainTypes, Errors
<1> QED BY <1>1, <1>2, EndAttemptChain

LEMMA OpReturnsChain ==
    ASSUME ChainInv, NEW p \in Requests, OpReturns(p)
    PROVE  ChainInv'
<1> USE DEF cbVars, breakerVars, historyVars
<1>1. PICK r \in {"ok", "error"} :
        /\ done' = [done EXCEPT ![p] = r]
        /\ wonAt' = IF r = "ok" THEN [wonAt EXCEPT ![p] = attempt[p]] ELSE wonAt
  BY DEF OpReturns
<1>2. /\ live[p] /\ live' = [live EXCEPT ![p] = FALSE]
      /\ UNCHANGED <<holders, cbVars, stage, attempt, result, orphans>>
  BY DEF OpReturns
<1>3. WithinLimit'
  BY <1>2, SlotsKept DEF ChainInv
<1>4. ChainTypes'
  BY <1>1, <1>2 DEF ChainInv, ChainTypes
<1>5. InHand(p)' /\ Nested(p)'
  BY <1>1, <1>2 DEF ChainInv, ChainTypes, InHand, Nested
<1>6. ASSUME NEW q \in Requests \ {p} PROVE InHand(q)' /\ Nested(q)'
  BY <1>1, <1>2, OthersKeep DEF ChainInv, ChainTypes
<1> QED BY <1>3, <1>4, <1>5, <1>6 DEF ChainInv

LEMMA OrphanReturnsChain ==
    ASSUME ChainInv, NEW p \in Requests, OrphanReturns(p)
    PROVE  ChainInv'
<1> USE DEF OrphanReturns, cbVars, breakerVars, historyVars
<1>1. WithinLimit'
  BY SlotsKept DEF ChainInv
<1>2. ChainTypes'
  BY DEF ChainInv, ChainTypes
<1>3. ASSUME NEW q \in Requests PROVE InHand(q)' /\ Nested(q)'
  BY OthersKeep DEF ChainInv
<1> QED BY <1>1, <1>2, <1>3 DEF ChainInv

\* A new attempt gets a channel of its own and does not exceed the limit of attempts.
LEMMA BackoffElapsesChain ==
    ASSUME ChainInv, NEW p \in Requests, BackoffElapses(p)
    PROVE  ChainInv'
<1> USE DEF BackoffElapses, StartAttempt, Go, cbVars, breakerVars, historyVars
<1>1. WithinLimit'
  BY SlotsKept DEF ChainInv
<1>2. attempt[p] \in 0..MaxAttempts /\ attempt[p] < MaxAttempts
  BY DEF ChainInv, ChainTypes, InHand
<1>3. ChainTypes'
  BY <1>2, ExecutorAssumption DEF ChainInv, ChainTypes, Stages
<1>4. InHand(p)' /\ Nested(p)'
  BY DEF ChainInv, ChainTypes, InHand, Nested
<1>5. ASSUME NEW q \in Requests \ {p} PROVE InHand(q)' /\ Nested(q)'
  BY OthersKeep DEF ChainInv, ChainTypes
<1> QED BY <1>1, <1>3, <1>4, <1>5 DEF ChainInv

LEMMA BackoffCancelledChain ==
    ASSUME ChainInv, NEW p \in Requests, BackoffCancelled(p)
    PROVE  ChainInv'
<1> USE DEF BackoffCancelled, Go, cbVars, breakerVars, historyVars
<1>1. WithinLimit'
  BY SlotsKept DEF ChainInv
<1>2. ChainTypes'
  BY DEF ChainInv, ChainTypes, Stages, Errors
<1>3. InHand(p)' /\ Nested(p)'
  BY DEF ChainInv, ChainTypes, InHand, Nested
<1>4. ASSUME NEW q \in Requests \ {p} PROVE InHand(q)' /\ Nested(q)'
  BY OthersKeep DEF ChainInv, ChainTypes
<1> QED BY <1>1, <1>2, <1>3, <1>4 DEF ChainInv

-----------------------------------------------------------------------------
\* CircuitBreaker.Execute around the attempts.
LEMMA BreakerAdmitsChain ==
    ASSUME ChainInv, NEW p \in Requests, BreakerAdmits(p)
    PROVE  ChainInv'
<1> USE DEF BreakerAdmits, StartAttempt, Go
<1>1. WithinLimit'
  BY SlotsKept DEF ChainInv
<1>2. attempt[p] = 0 /\ inflight' = inflight \cup {p}
  BY DEF ChainInv, InHand, Admit
<1>3. ChainTypes'
  BY <1>2, ExecutorAssumption DEF ChainInv, ChainTypes, Stages
<1>4. InHand(p)' /\ Nested(p)'
  BY <1>2 DEF ChainInv, ChainTypes, InHand, Nested
<1>5. ASSUME NEW q \in Requests \ {p} PROVE InHand(q)' /\ Nested(q)'
  BY <1>2, OthersKeep DEF ChainInv, ChainTypes
<1> QED BY <1>1, <1>3, <1>4, <1>5 DEF ChainInv

LEMMA BreakerRefusesChain ==
    ASSUME ChainInv, NEW p \in Requests, BreakerRefuses(p)
    PROVE  ChainInv'
<1> USE DEF BreakerRefuses, Go, cbVars, breakerVars, historyVars
<1>1. WithinLimit'
  BY SlotsKept DEF ChainInv
<1>2. ChainTypes'
  BY DEF ChainInv, ChainTypes, Stages
<1>3. InHand(p)' /\ Nested(p)'
  BY DEF ChainInv, ChainTypes, InHand, Nested
<1>4. ASSUME NEW q \in Requests \ {p} PROVE InHand(q)' /\ Nested(q)'
  BY OthersKeep DEF ChainInv, ChainTypes
<1> QED BY <1>1, <1>2, <1>3, <1>4 DEF ChainInv

LEMMA BreakerRecordsChain ==
    ASSUME ChainInv, NEW p \in Requests, BreakerRecords(p)
    PROVE  ChainInv'
<1> USE DEF BreakerRecords, Go
<1>1. WithinLimit'
  BY SlotsKept DEF ChainInv
<1>2. inflight' = inflight \ {p}
  BY DEF AfterRequest
<1>3. ChainTypes'
  BY DEF ChainInv, ChainTypes, Stages
<1>4. InHand(p)' /\ Nested(p)'
  BY <1>2 DEF ChainInv, ChainTypes, InHand, Nested
<1>5. ASSUME NEW q \in Requests \ {p} PROVE InHand(q)' /\ Nested(q)'
  BY <1>2, OthersKeep DEF ChainInv, ChainTypes
<1> QED BY <1>1, <1>3, <1>4, <1>5 DEF ChainInv

\* Others take and return slots of the bulkhead; nobody in the chain is touched.
LEMMA BulkheadOutsideChain ==
    ASSUME ChainInv, BulkheadOutside
    PROVE  ChainInv'
<1> USE DEF cbVars, breakerVars, historyVars, chainVars
<1>1. PICK o \in Others : BH!Acquire(o) \/ BH!Release(o)
  BY DEF BulkheadOutside
<1>2. UNCHANGED <<cbVars, chainVars>>
  BY DEF BulkheadOutside
<1>3. WithinLimit' /\ (holders' = holders \cup {o} \/ holders' = holders \ {o})
  BY <1>1, SlotTaken, SlotReturned DEF ChainInv
<1>4. ChainTypes'
  BY <1>2, <1>3 DEF ChainInv, ChainTypes
<1>5. ASSUME NEW q \in Requests PROVE InHand(q)' /\ Nested(q)'
  <2>1. q # o
    BY ExecutorAssumption
  <2> QED BY <1>2, <1>3, <2>1, OthersKeep DEF ChainInv
<1> QED BY <1>3, <1>4, <1>5 DEF ChainInv

\* Time, State, Metrics and Reset leave the requests in flight as they are.
LEMMA BreakerOutsideChain ==
    ASSUME ChainInv, BreakerOutside
    PROVE  ChainInv'
<1>1. UNCHANGED <<holders, chainVars, inflight>>
  BY DEF BreakerOutside, Tick, ReadState, Reset
<1>2. WithinLimit'
  BY <1>1, SlotsKept DEF ChainInv
<1>3. ChainTypes'
  BY <1>1 DEF ChainInv, ChainTypes, chainVars
<1>4. ASSUME NEW q \in Requests PROVE InHand(q)' /\ Nested(q)'
  BY <1>1, OthersKeep DEF ChainInv, chainVars
<1> QED BY <1>2, <1>3, <1>4 DEF ChainInv

LEMMA NextChain == ChainInv /\ [Next]_vars => ChainInv'
<1> SUFFICES ASSUME ChainInv, [Next]_vars PROVE ChainInv'
  OBVIOUS
<1>1. ASSUME NEW p \in Requests, Call(p) \/ Continue(p) PROVE ChainInv'
  <2>1. CASE Call(p) \/ GetSlot(p) \/ TurnedAway(p) \/ Return(p)
    BY <2>1, CallChain, GetSlotChain, TurnedAwayChain, ReturnChain
  <2>2. CASE BreakerAdmits(p) \/ BreakerRefuses(p) \/ BreakerRecords(p)
    BY <2>2, BreakerAdmitsChain, BreakerRefusesChain, BreakerRecordsChain
  <2>3. CASE ReceiveResult(p) \/ TimesOut(p) \/ BackoffElapses(p)
    BY <2>3, ReceiveResultChain, GiveUpChain, BackoffElapsesChain DEF TimesOut
  <2> QED BY <1>1, <2>1, <2>2, <2>3 DEF Continue
<1>2. ASSUME NEW p \in Requests, Cancelled(p) PROVE ChainInv'
  BY <1>2, GiveUpChain, BackoffCancelledChain DEF Cancelled, AttemptCancelled
<1>3. ASSUME NEW p \in Requests, OpReturns(p) \/ OrphanReturns(p) PROVE ChainInv'
  BY <1>3, OpReturnsChain, OrphanReturnsChain
<1>4. CASE BulkheadOutside
  BY <1>4, BulkheadOutsideChain
<1>5. CASE BreakerOutside
  BY <1>5, BreakerOutsideChain
<1>6. CASE UNCHANGED vars
  BY <1>6 DEF vars, chainVars, cbVars, breakerVars, historyVars, ChainInv, ChainTypes,
              InHand, Nested, WithinLimit
<1> QED BY <1>1, <1>2, <1>3, <1>4, <1>5, <1>6 DEF Next

\* The invariant of the chain holds in every reachable state of the executor.
LEMMA ChainInvariance == Spec => []ChainInv
BY InitChain, NextChain, PTL DEF Spec

-----------------------------------------------------------------------------
\* No call makes more attempts than MaxAttempts, and the breaker inside the executor keeps
\* its types, for any number of callers and outside users of the bulkhead.
THEOREM TypeCorrect == Spec => []TypeOK
<1>1. ChainInv /\ BreakerInv => TypeOK
  BY DEF ChainInv, ChainTypes, BreakerInv, TypeOK
<1> QED BY <1>1, ChainInvariance, BreakerKept, PTL

\* The patterns nest in the documented order on every path through Execute, whatever
\* times out, is cancelled or is retried.
THEOREM NestingCorrect == Spec => []PatternsNest
<1>1. ChainInv => PatternsNest
  BY DEF ChainInv, Nested, PatternsNest
<1> QED BY <1>1, ChainInvariance, PTL

\* Execute reports success only for the attempt that Retry waited for last.
THEOREM SuccessCorrect == Spec => []SuccessIsOfLastAttempt
<1>1. ChainInv => SuccessIsOfLastAttempt
  BY DEF ChainInv, InHand, SuccessIsOfLastAttempt
<1> QED BY <1>1, ChainInvariance, PTL

\* Every behaviour of the executor and the outside users is, on the slots, a behaviour
\* of the bulkhead's abstract specification: the deferred Release gives back the slot
\* that this call took, and only that one.
THEOREM BulkheadWithin == Spec => BH!Spec
<1>1. Init => BH!Init
  BY DEF Init
<1>2. [Next]_vars => [BH!Next]_holders
  <2> SUFFICES ASSUME Next PROVE BH!Next \/ UNCHANGED holders
    BY DEF vars
  <2>1. ASSUME NEW p \in Requests, Call(p) \/ Continue(p) PROVE BH!Next \/ UNCHANGED holders
    BY <2>1 DEF Call, Continue, GetSlot, TurnedAway, Return, BreakerAdmits, BreakerRefuses,
                BreakerRecords, ReceiveResult, TimesOut, GiveUp, BackoffElapses, BH!Next
  <2>2. ASSUME NEW p \in Requests, Cancelled(p) \/ OpReturns(p) \/ OrphanReturns(p)
        PROVE  UNCHANGED holders
    BY <2>2 DEF Cancelled, AttemptCancelled, BackoffCancelled, GiveUp, OpReturns, OrphanReturns
  <2>3. CASE BulkheadOutside
    BY <2>3 DEF BulkheadOutside, BH!Next
  <2>4. CASE BreakerOutside
    BY <2>4 DEF BreakerOutside
  <2> QED BY <2>1, <2>2, <2>3, <2>4 DEF Next
<1> QED BY <1>1, <1>2, PTL DEF Spec, BH!Spec

\* Of the operations that the bulkhead admitted, no more than MaxConcurrent are ever
\* running and waited for; only attempts that Timeout gave up can exceed its limit.
THEOREM AwaitedCorrect == Spec => []AwaitedWithinLimit
<1>1. ChainInv => AwaitedWithinLimit
  <2> SUFFICES ASSUME ChainInv PROVE AwaitedWithinLimit
    OBVIOUS
  <2> DEFINE Awaited == {p \in Requests : live[p]} \cup (holders \cap Others)
  <2>1. Awaited \subseteq holders
    BY DEF ChainInv, Nested
  <2>2. IsFiniteSet(Awaited) /\ Cardinality(Awaited) <= Cardinality(holders)
    BY <2>1, FS_Subset DEF ChainInv, WithinLimit
  <2>3. Cardinality(Awaited) \in Nat /\ Cardinality(holders) \in Nat
    BY <2>2, FS_CardinalityType DEF ChainInv, WithinLimit
  <2> QED BY <2>2, <2>3, ExecutorAssumption DEF ChainInv, WithinLimit, AwaitedWithinLimit
<1> QED BY <1>1, ChainInvariance, PTL

\* Execute tells the breaker how every call ended, so no probe is lost in an executor.
NoneLost == lost = 0

LEMMA NothingLost == Spec => []NoneLost
<1>1. Init => NoneLost
  BY DEF Init, CBInit, NoneLost
<1>2. NoneLost /\ [Next]_vars => NoneLost'
  <2> SUFFICES ASSUME lost = 0, [Next]_vars PROVE lost' = 0
    BY DEF NoneLost
  <2> USE DEF cbVars, breakerVars, historyVars
  <2>1. ASSUME NEW p \in Requests, Call(p) \/ Continue(p) PROVE lost' = 0
    BY <2>1 DEF Call, Continue, GetSlot, TurnedAway, Return, AtRest, BreakerAdmits, Admit,
                CurrentLost, BreakerRefuses, BreakerRecords, AfterRequest, ReceiveResult,
                TimesOut, GiveUp, BackoffElapses
  <2>2. ASSUME NEW p \in Requests, Cancelled(p) \/ OpReturns(p) \/ OrphanReturns(p)
        PROVE  lost' = 0
    BY <2>2 DEF Cancelled, AttemptCancelled, BackoffCancelled, GiveUp, OpReturns, OrphanReturns
  <2>3. CASE BulkheadOutside \/ BreakerOutside \/ UNCHANGED vars
    BY <2>3 DEF BulkheadOutside, BreakerOutside, Tick, ReadState, CurrentLost, Reset, vars
  <2> QED BY <2>1, <2>2, <2>3 DEF Next
<1> QED BY <1>1, <1>2, PTL DEF Spec

\* A half-open breaker of an executor that admits nobody is waiting for a caller that
\* is between beforeRequest and afterRequest, for every configuration.
THEOREM ProbeUnderWayHolds == Spec => []ProbeUnderWay
<1>1. BreakerInv /\ ChainInv /\ NoneLost => ProbeUnderWay
  <2> SUFFICES ASSUME BreakerInv, ChainInv, lost = 0, state = "HalfOpen",
                      halfOpenCount = HalfOpenMaxRequests
               PROVE  \E p \in probes : stage[p] \in {"await", "backoff", "after"}
    BY DEF ProbeUnderWay, NoneLost
  <2>1. probes # {}
    <3> SUFFICES ASSUME probes = {} PROVE FALSE
      OBVIOUS
    <3>1. HalfOpenMaxRequests = Cardinality({}) + 0
      BY DEF BreakerInv, ProbeBudgetExact
    <3> QED BY <3>1, FS_EmptySet, ConfigAssumption
  <2>2. PICK p \in probes : TRUE
    BY <2>1
  <2>3. p \in inflight /\ p \in Requests
    BY <2>2 DEF BreakerInv, CBTypeOK
  <2> QED BY <2>2, <2>3 DEF ChainInv, Nested
<1> QED BY <1>1, BreakerKept, ChainInvariance, NothingLost, PTL

=============================================================================
