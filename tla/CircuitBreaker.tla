--------------------------- MODULE CircuitBreaker ---------------------------
(***************************************************************************)
(* resilience/circuit.go: one CircuitBreaker shared by concurrent callers. *)
(*                                                                         *)
(* Every method body runs under cb.mu, so a method is one action; Execute  *)
(* is two critical sections (beforeRequest, afterRequest) with the         *)
(* caller's operation running unlocked in between.  afterRequest is not    *)
(* deferred: an operation that panics unwinds through Execute without it.  *)
(*                                                                         *)
(* time.Since(cb.lastFailure) is the only use the code makes of the clock  *)
(* and it is only compared with ResetTimeout, so the pair (clock,          *)
(* lastFailure) is represented by their difference, saturated at           *)
(* ResetTimeout.                                                           *)
(***************************************************************************)
EXTENDS Integers, FiniteSets

CONSTANTS
    Requests,             \* the goroutines that call Execute, again and again
    MaxFailures,          \* CircuitBreakerConfig.MaxFailures
    ResetTimeout,         \* CircuitBreakerConfig.ResetTimeout, in clock ticks
    HalfOpenMaxRequests   \* CircuitBreakerConfig.HalfOpenMaxRequests

\* NewCircuitBreaker replaces a zero or negative setting by a positive default.
ASSUME ConfigAssumption ==
    /\ MaxFailures \in Nat \ {0}
    /\ ResetTimeout \in Nat \ {0}
    /\ HalfOpenMaxRequests \in Nat \ {0}

ASSUME RequestsAssumption == IsFiniteSet(Requests)

VARIABLES
    state,          \* cb.state
    failures,       \* cb.failures
    successes,      \* cb.successes
    sinceFailure,   \* time.Since(cb.lastFailure), saturated at ResetTimeout
    halfOpenCount,  \* cb.halfOpenCount
    observed,       \* the state an OnStateChange listener last heard of
    inflight,       \* callers between beforeRequest and afterRequest
    healthy,        \* whether the protected service answers (environment)
    probes,         \* history: callers in flight that the current half-open
                    \* period admitted
    lost,           \* history: probes of the current half-open period whose
                    \* operation panicked
    sinceTrip       \* history: time since the circuit last entered the open
                    \* state, saturated at ResetTimeout

breakerVars == <<state, failures, successes, sinceFailure, halfOpenCount, observed>>
historyVars == <<probes, lost, sinceTrip>>
cbVars == <<breakerVars, inflight, healthy, historyVars>>

States == {"Closed", "Open", "HalfOpen"}

(***************************************************************************)
(* NewCircuitBreaker.  lastFailure is the zero time, long past.            *)
(***************************************************************************)
CBInit ==
    /\ state = "Closed"
    /\ failures = 0
    /\ successes = 0
    /\ sinceFailure = ResetTimeout
    /\ halfOpenCount = 0
    /\ observed = "Closed"
    /\ inflight = {}
    /\ healthy \in BOOLEAN
    /\ probes = {}
    /\ lost = 0
    /\ sinceTrip = ResetTimeout

-----------------------------------------------------------------------------
(***************************************************************************)
(* currentStateLocked: an open circuit whose timeout has run out becomes   *)
(* half-open, with a fresh probe budget, in the eyes of the next method    *)
(* that looks.                                                             *)
(***************************************************************************)
TimedOut == state = "Open" /\ sinceFailure >= ResetTimeout

CurrentState == IF TimedOut THEN "HalfOpen" ELSE state

\* Mutant: a new half-open period keeps the old probe count.
CurrentCountKept == halfOpenCount

CurrentCount == IF TimedOut THEN 0 ELSE halfOpenCount

CurrentProbes == IF TimedOut THEN {} ELSE probes

CurrentLost == IF TimedOut THEN 0 ELSE lost

\* The listener hears of every change, with cb.mu held.
Notify(to) == observed' = IF to # state THEN to ELSE observed

(***************************************************************************)
(* beforeRequest, the two returns of nil.                                  *)
(***************************************************************************)
\* Mutant: the half-open limit is compared with <= for <.
CanAdmitOneMore ==
    \/ CurrentState = "Closed"
    \/ CurrentState = "HalfOpen" /\ CurrentCount <= HalfOpenMaxRequests

CanAdmit ==
    \/ CurrentState = "Closed"
    \/ CurrentState = "HalfOpen" /\ CurrentCount < HalfOpenMaxRequests

Admit(r) ==
    /\ r \notin inflight
    /\ CanAdmit
    /\ state' = CurrentState
    /\ Notify(CurrentState)
    /\ inflight' = inflight \cup {r}
    /\ IF CurrentState = "HalfOpen"
         THEN /\ halfOpenCount' = CurrentCount + 1
              /\ probes' = CurrentProbes \cup {r}
              /\ lost' = CurrentLost
         ELSE UNCHANGED <<halfOpenCount, probes, lost>>
    /\ UNCHANGED <<failures, successes, sinceFailure, healthy, sinceTrip>>

\* beforeRequest, the two returns of ErrCircuitOpen: the operation is not run.
\* The circuit cannot have timed out here, so currentStateLocked changes nothing.
Refuse(r) ==
    /\ r \notin inflight
    /\ ~CanAdmit
    /\ UNCHANGED cbVars

(***************************************************************************)
(* afterRequest(err) with isFailure = IsFailure(err).  It switches on      *)
(* cb.state itself, not on currentStateLocked, and cannot tell a probe     *)
(* from a caller that an earlier closed or half-open period admitted.      *)
(***************************************************************************)
FailureWhileClosed ==
    /\ state = "Closed"
    /\ failures' = failures + 1
    /\ sinceFailure' = 0
    /\ state' = IF failures + 1 >= MaxFailures THEN "Open" ELSE state
    /\ UNCHANGED successes

SuccessWhileClosed ==
    /\ state = "Closed"
    /\ failures' = 0
    /\ UNCHANGED <<state, successes, sinceFailure>>

\* Mutant: a failed probe does not restart the timeout.
FailureKeepsTimeout ==
    /\ state = "HalfOpen"
    /\ state' = "Open"
    /\ UNCHANGED <<failures, successes, sinceFailure>>

FailureWhileHalfOpen ==
    /\ state = "HalfOpen"
    /\ sinceFailure' = 0
    /\ state' = "Open"
    /\ UNCHANGED <<failures, successes>>

\* Mutants: closing forgets the failure counter; success does not close.
SuccessKeepsFailures ==
    /\ state = "HalfOpen"
    /\ state' = "Closed"
    /\ successes' = 0
    /\ UNCHANGED <<failures, sinceFailure>>

SuccessKeepsHalfOpen ==
    /\ state = "HalfOpen"
    /\ failures' = 0
    /\ successes' = 0
    /\ UNCHANGED <<state, sinceFailure>>

\* successes is incremented and cleared again within the critical section.
SuccessWhileHalfOpen ==
    /\ state = "HalfOpen"
    /\ state' = "Closed"
    /\ failures' = 0
    /\ successes' = 0
    /\ UNCHANGED sinceFailure

IgnoredWhileOpen ==
    /\ state = "Open"
    /\ UNCHANGED <<state, failures, successes, sinceFailure>>

AfterRequest(r, isFailure) ==
    /\ r \in inflight
    /\ IF isFailure
         THEN FailureWhileClosed \/ FailureWhileHalfOpen \/ IgnoredWhileOpen
         ELSE SuccessWhileClosed \/ SuccessWhileHalfOpen \/ IgnoredWhileOpen
    /\ Notify(state')
    /\ inflight' = inflight \ {r}
    /\ probes' = probes \ {r}
    /\ sinceTrip' = IF state' = "Open" /\ state # "Open" THEN 0 ELSE sinceTrip
    /\ UNCHANGED <<halfOpenCount, healthy, lost>>

\* The operation panics: Execute unwinds, afterRequest is skipped, and the
\* goroutine may call again once its caller has recovered.
Panic(r) ==
    /\ r \in inflight
    /\ inflight' = inflight \ {r}
    /\ probes' = probes \ {r}
    /\ lost' = IF r \in probes THEN lost + 1 ELSE lost
    /\ UNCHANGED <<breakerVars, healthy, sinceTrip>>

\* State and Metrics: both refresh the state before they report it.
ReadState ==
    /\ state' = CurrentState
    /\ halfOpenCount' = CurrentCount
    /\ Notify(CurrentState)
    /\ probes' = CurrentProbes
    /\ lost' = CurrentLost
    /\ UNCHANGED <<failures, successes, sinceFailure, inflight, healthy, sinceTrip>>

\* Mutant: Reset does not call OnStateChange.
ResetSilently ==
    /\ state' = "Closed"
    /\ failures' = 0
    /\ successes' = 0
    /\ halfOpenCount' = 0
    /\ probes' = {}
    /\ lost' = 0
    /\ UNCHANGED <<observed, sinceFailure, inflight, healthy, sinceTrip>>

Reset ==
    /\ state' = "Closed"
    /\ failures' = 0
    /\ successes' = 0
    /\ halfOpenCount' = 0
    /\ Notify("Closed")
    /\ probes' = {}
    /\ lost' = 0
    /\ UNCHANGED <<sinceFailure, inflight, healthy, sinceTrip>>

-----------------------------------------------------------------------------
(***************************************************************************)
(* The environment: the clock, and a service that fails and recovers.      *)
(***************************************************************************)
Later(t) == IF t < ResetTimeout THEN t + 1 ELSE t

Tick ==
    /\ sinceFailure' = Later(sinceFailure)
    /\ sinceTrip' = Later(sinceTrip)
    /\ UNCHANGED <<state, failures, successes, halfOpenCount, observed,
                   inflight, healthy, probes, lost>>

ServiceChange ==
    /\ healthy' = ~healthy
    /\ UNCHANGED <<breakerVars, inflight, historyVars>>

\* A service that answers never yields a failure; one that does not may still
\* yield an error that IsFailure does not count.
Finish(r) ==
    \E isFailure \in BOOLEAN :
        /\ isFailure => ~healthy
        /\ AfterRequest(r, isFailure)

CBNext ==
    \/ \E r \in Requests : Admit(r) \/ Refuse(r) \/ Finish(r) \/ Panic(r)
    \/ ReadState
    \/ Reset
    \/ Tick
    \/ ServiceChange

CBSpec == CBInit /\ [][CBNext]_cbVars

(***************************************************************************)
(* The clock advances, operations end, and callers keep calling.           *)
(***************************************************************************)
CBFairness ==
    /\ WF_cbVars(Tick)
    /\ \A r \in Requests :
        /\ WF_cbVars(Admit(r))
        /\ WF_cbVars(Finish(r) \/ Panic(r))

CBFairSpec == CBSpec /\ CBFairness

-----------------------------------------------------------------------------
(***************************************************************************)
(* Properties.                                                             *)
(***************************************************************************)

\* Every variable has the type of the field it stands for, the probe counter
\* stays within HalfOpenMaxRequests and cb.successes never shows an increment.
CBTypeOK ==
    /\ state \in States
    /\ failures \in 0..MaxFailures
    /\ successes = 0
    /\ sinceFailure \in 0..ResetTimeout
    /\ halfOpenCount \in 0..HalfOpenMaxRequests
    /\ observed \in States
    /\ inflight \in SUBSET Requests
    /\ healthy \in BOOLEAN
    /\ probes \in SUBSET inflight
    /\ lost \in Nat
    /\ sinceTrip \in 0..ResetTimeout

\* The failure counter agrees with the state: a closed circuit has fewer than
\* MaxFailures failures against it, and a circuit that left the closed state
\* (through any interleaving of stale completions, resets and timeouts) holds
\* exactly MaxFailures, so that closing it again must clear the counter.
FailuresMatchState ==
    IF state = "Closed" THEN failures < MaxFailures ELSE failures = MaxFailures

\* The probe budget is exact: in a half-open circuit halfOpenCount is the number
\* of probes of this period still in flight plus those whose operation panicked;
\* completions of callers admitted in earlier periods never disturb it.
ProbeBudgetExact ==
    state = "HalfOpen" => halfOpenCount = Cardinality(probes) + lost

\* No request passes before its time: while the circuit is not closed, a request
\* is admitted only when a whole ResetTimeout has passed since the circuit last
\* entered the open state, be it the first trip, a failed probe or the failure of
\* a caller of an earlier period that completed late.
NoEarlyProbe ==
    [][\A r \in Requests :
          r \in inflight' \ inflight /\ state # "Closed" => sinceTrip = ResetTimeout]_cbVars

\* An OnStateChange listener always knows the state: every assignment to
\* cb.state, the lazy one in currentStateLocked included, is announced.
ListenerInSync == observed = state

\* Recovery: when the service is healthy for good and no probe panics, the
\* circuit closes for good, whatever completes late and whoever resets it.
Recovers == <>[]healthy /\ [](lost = 0) => <>[](state = "Closed")

\* What the comment "Successful probe, close the circuit" (circuit.go:171) says:
\* a completion closes a half-open circuit only if it is the completion of a
\* probe, a request that this half-open period admitted.
OnlyProbesClose ==
    [][\A r \in inflight \ inflight' :
          state = "HalfOpen" /\ state' = "Closed" => r \in probes]_cbVars

=============================================================================
