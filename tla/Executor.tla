------------------------------ MODULE Executor ------------------------------
(***************************************************************************)
(* resilience/executor.go with retry.go and timeout.go: Executor.Execute   *)
(* around one shared Bulkhead and one shared CircuitBreaker.  The state    *)
(* and the steps of the breaker are those of its own module, whose         *)
(* Requests are the callers of the executor.  The bulkhead is represented  *)
(* by ConcurrencyLimit, which Bulkhead is proved to implement, so that     *)
(* taking a slot and counting it are one step here.                        *)
(*                                                                         *)
(*   rate limiter > bulkhead > circuit breaker > retry > timeout > op      *)
(*                                                                         *)
(* The rate limiter is outermost: it refuses a call before anything here   *)
(* is touched, or lets it through (RateLimiter says which).                *)
(*                                                                         *)
(* Timeout runs each attempt in a goroutine of its own and reads its       *)
(* result from a buffered channel, or gives up on it.  An attempt that was *)
(* given up goes on running as an orphan; its result goes to a channel     *)
(* that nobody reads.                                                      *)
(*                                                                         *)
(* A caller may cancel its context at any time, and a select with several  *)
(* cases ready takes any of them, so ctx.Done() may win every select.      *)
(***************************************************************************)
EXTENDS CircuitBreaker, FiniteSetsExt

CONSTANTS
    Others,         \* goroutines that share the bulkhead from outside the executor
    MaxConcurrent,  \* BulkheadConfig.MaxConcurrent
    MaxAttempts,    \* RetryConfig.MaxAttempts
    Retryable,      \* the errors for which RetryConfig.RetryIf holds
    MaxOrphans      \* bound: nobody calls while more orphans than this are running

Errors == {"error", "timeout", "cancelled"}

\* NewBulkhead and NewRetry replace a zero or negative setting by a positive default.
ASSUME ExecutorAssumption ==
    /\ MaxConcurrent \in Nat \ {0}
    /\ MaxAttempts \in Nat \ {0}
    /\ Retryable \subseteq Errors
    /\ MaxOrphans \in Nat
    /\ Requests \cap Others = {}

VARIABLES
    holders,    \* who holds a slot of the bulkhead (ConcurrencyLimit)
    stage,      \* where each caller of Execute is
    attempt,    \* Retry's loop variable
    live,       \* whether the goroutine of the current attempt is running
    done,       \* the channel of the current attempt
    result,     \* the error that Timeout, then Retry, returns
    orphans,    \* the number of abandoned attempts that are still running
    wonAt       \* history: the last attempt of this call whose op returned nil

chainVars == <<stage, attempt, live, done, result, orphans, wonAt>>
vars == <<holders, cbVars, chainVars>>

BH == INSTANCE ConcurrencyLimit WITH Callers <- Requests \cup Others, Limit <- MaxConcurrent

Stages == {"out", "waiting", "breaker", "await", "backoff", "after", "done"}

TotalOrphans == MapThenSumSet(LAMBDA p : orphans[p], Requests)

\* The service fails now and then: an operation may return anything.
Init ==
    /\ BH!Init
    /\ CBInit
    /\ ~healthy
    /\ stage = [p \in Requests |-> "out"]
    /\ attempt = [p \in Requests |-> 0]
    /\ live = [p \in Requests |-> FALSE]
    /\ done = [p \in Requests |-> "empty"]
    /\ result = [p \in Requests |-> "none"]
    /\ orphans = [p \in Requests |-> 0]
    /\ wonAt = [p \in Requests |-> 0]

Go(p, from, to) ==
    /\ stage[p] = from
    /\ stage' = [stage EXCEPT ![p] = to]

-----------------------------------------------------------------------------
(***************************************************************************)
(* Bulkhead.Execute around the rest of the chain.                          *)
(***************************************************************************)
AtRest == UNCHANGED <<cbVars, attempt, live, done, result, orphans, wonAt>>

Call(p) ==
    /\ TotalOrphans <= MaxOrphans
    /\ \/ Go(p, "out", "breaker") /\ BH!Acquire(p)
       \/ /\ Go(p, "out", "waiting")
          /\ Cardinality(holders) = MaxConcurrent
          /\ UNCHANGED holders
    /\ AtRest

\* Mutant: a waiter takes a slot whether or not one was returned.
GetSlotUnchecked(p) ==
    /\ Go(p, "waiting", "breaker")
    /\ holders' = holders \cup {p}
    /\ AtRest

GetSlot(p) ==
    /\ Go(p, "waiting", "breaker")
    /\ BH!Acquire(p)
    /\ AtRest

\* ErrBulkheadFull, when MaxWait is zero or has run out, or the context's error.
TurnedAway(p) ==
    /\ Go(p, "waiting", "out")
    /\ AtRest
    /\ UNCHANGED holders

\* The chain has returned: the deferred Release, and Execute returns.
Return(p) ==
    /\ Go(p, "done", "out")
    /\ BH!Release(p)
    /\ attempt' = [attempt EXCEPT ![p] = 0]
    /\ done' = [done EXCEPT ![p] = "empty"]
    /\ result' = [result EXCEPT ![p] = "none"]
    /\ wonAt' = [wonAt EXCEPT ![p] = 0]
    /\ UNCHANGED <<cbVars, live, orphans>>

-----------------------------------------------------------------------------
(***************************************************************************)
(* One attempt, as Retry's loop and Timeout.Execute start it: a fresh      *)
(* channel and a goroutine for the operation.  These steps touch nothing   *)
(* that others see, so they go with the step that leads to them.           *)
(***************************************************************************)

\* Mutant: one channel serves all the attempts of a call.
StartAttemptSameChannel(p) ==
    /\ attempt' = [attempt EXCEPT ![p] = @ + 1]
    /\ live' = [live EXCEPT ![p] = TRUE]
    /\ UNCHANGED done

StartAttempt(p) ==
    /\ attempt' = [attempt EXCEPT ![p] = @ + 1]
    /\ live' = [live EXCEPT ![p] = TRUE]
    /\ done' = [done EXCEPT ![p] = "empty"]

\* Mutant: the last attempt is followed by one more.
WillRetryOneMore(p, err) == err \in Retryable /\ attempt[p] <= MaxAttempts

\* What the loop does with what an attempt returned: another round after a
\* delay, or the end with the last error.
WillRetry(p, err) == err \in Retryable /\ attempt[p] < MaxAttempts

EndAttempt(p, err) ==
    /\ Go(p, "await", IF WillRetry(p, err) THEN "backoff" ELSE "after")
    /\ result' = [result EXCEPT ![p] = IF WillRetry(p, err) THEN "none" ELSE err]
    /\ live' = [live EXCEPT ![p] = FALSE]

\* The operation returns: done <- op(ctx).
OpReturns(p) ==
    /\ live[p]
    /\ live' = [live EXCEPT ![p] = FALSE]
    /\ \E r \in {"ok", "error"} :
          /\ done' = [done EXCEPT ![p] = r]
          /\ wonAt' = IF r = "ok" THEN [wonAt EXCEPT ![p] = attempt[p]] ELSE wonAt
    /\ UNCHANGED <<holders, cbVars, stage, attempt, result, orphans>>

\* The two cases of Timeout's select: the result, or ctx.Done() (even when the
\* result is there as well), which abandons the operation.
ReceiveResult(p) ==
    /\ done[p] # "empty"
    /\ EndAttempt(p, done[p])
    /\ UNCHANGED <<holders, cbVars, attempt, done, orphans, wonAt>>

GiveUp(p, err) ==
    /\ EndAttempt(p, err)
    /\ orphans' = [orphans EXCEPT ![p] = IF live[p] THEN @ + 1 ELSE @]
    /\ UNCHANGED <<holders, cbVars, attempt, done, wonAt>>

\* Mutant: the timeout waits for the operation to notice it.
TimesOutIfDone(p) == ~live[p] /\ GiveUp(p, "timeout")

\* ErrTimeout if the deadline passed, the context's error if the caller cancelled.
TimesOut(p) == GiveUp(p, "timeout")

AttemptCancelled(p) == GiveUp(p, "cancelled")

\* An abandoned operation returns into its own channel.
OrphanReturns(p) ==
    /\ orphans[p] > 0
    /\ orphans' = [orphans EXCEPT ![p] = @ - 1]
    /\ UNCHANGED <<holders, cbVars, stage, attempt, live, done, result, wonAt>>

\* The two cases of Retry's select, after OnRetry: the delay, or the context.
BackoffElapses(p) ==
    /\ Go(p, "backoff", "await")
    /\ StartAttempt(p)
    /\ UNCHANGED <<holders, cbVars, result, orphans, wonAt>>

BackoffCancelled(p) ==
    /\ Go(p, "backoff", "after")
    /\ result' = [result EXCEPT ![p] = "cancelled"]
    /\ UNCHANGED <<holders, cbVars, attempt, live, done, orphans, wonAt>>

-----------------------------------------------------------------------------
(***************************************************************************)
(* CircuitBreaker.Execute around retry and timeout: one beforeRequest and  *)
(* one afterRequest per call, whatever the number of attempts.             *)
(***************************************************************************)
BreakerAdmits(p) ==
    /\ Go(p, "breaker", "await")
    /\ Admit(p)
    /\ StartAttempt(p)
    /\ UNCHANGED <<holders, result, orphans, wonAt>>

BreakerRefuses(p) ==
    /\ Go(p, "breaker", "done")
    /\ ~CanAdmit
    /\ result' = [result EXCEPT ![p] = "open"]
    /\ UNCHANGED <<holders, cbVars, attempt, live, done, orphans, wonAt>>

\* Mutant: a cancelled call returns without telling the breaker.
BreakerSkipsCancelled(p) ==
    /\ Go(p, "after", "done")
    /\ IF result[p] = "cancelled" THEN UNCHANGED cbVars
       ELSE AfterRequest(p, result[p] # "ok")
    /\ UNCHANGED <<holders, attempt, live, done, result, orphans, wonAt>>

BreakerRecords(p) ==
    /\ Go(p, "after", "done")
    /\ AfterRequest(p, result[p] # "ok")
    /\ UNCHANGED <<holders, attempt, live, done, result, orphans, wonAt>>

-----------------------------------------------------------------------------
\* The bulkhead was passed to WithBulkhead by reference and serves others too.
BulkheadOutside ==
    /\ \E o \in Others : BH!Acquire(o) \/ BH!Release(o)
    /\ UNCHANGED <<cbVars, chainVars>>

\* The breaker's clock, and calls of State, Metrics and Reset from outside.
BreakerOutside ==
    /\ Tick \/ ReadState \/ Reset
    /\ UNCHANGED <<holders, chainVars>>

\* The steps Execute takes on its own, once it was called.
Continue(p) ==
    \/ GetSlot(p) \/ TurnedAway(p) \/ Return(p)
    \/ BreakerAdmits(p) \/ BreakerRefuses(p) \/ BreakerRecords(p)
    \/ ReceiveResult(p) \/ TimesOut(p)
    \/ BackoffElapses(p)

\* The steps a caller brings about by cancelling.
Cancelled(p) == AttemptCancelled(p) \/ BackoffCancelled(p)

Next ==
    \/ \E p \in Requests :
          Call(p) \/ Continue(p) \/ Cancelled(p) \/ OpReturns(p) \/ OrphanReturns(p)
    \/ BulkheadOutside
    \/ BreakerOutside

Spec == Init /\ [][Next]_vars

(***************************************************************************)
(* Goroutines run and timers fire.  Nothing is assumed of the operations,  *)
(* which may hang for ever and need not look at their context, nor of the  *)
(* callers, who need not cancel.                                           *)
(***************************************************************************)
FairSpec == Spec /\ \A p \in Requests : WF_vars(Continue(p))

-----------------------------------------------------------------------------
(***************************************************************************)
(* Properties.                                                             *)
(***************************************************************************)

\* Types, and the breaker's own type invariant.
TypeOK ==
    /\ holders \in SUBSET (Requests \cup Others)
    /\ CBTypeOK
    /\ stage \in [Requests -> Stages]
    /\ attempt \in [Requests -> 0..MaxAttempts]
    /\ live \in [Requests -> BOOLEAN]
    /\ done \in [Requests -> {"empty", "ok", "error"}]
    /\ result \in [Requests -> Errors \cup {"none", "ok", "open"}]
    /\ orphans \in [Requests -> Nat]
    /\ wonAt \in [Requests -> 0..MaxAttempts]

\* The patterns nest as the documented order says: who is in the chain holds a
\* slot, and the breaker's requests in flight are the callers between its
\* beforeRequest and its afterRequest, on every path out of retry and timeout.
PatternsNest ==
    \A p \in Requests :
        /\ p \in holders <=> stage[p] \notin {"out", "waiting"}
        /\ p \in inflight <=> stage[p] \in {"await", "backoff", "after"}
        /\ live[p] => stage[p] = "await"

\* A success that Execute reports is the success of the attempt it waited for
\* last; no result of an abandoned attempt is mistaken for it.
SuccessIsOfLastAttempt ==
    \A p \in Requests : result[p] = "ok" => wonAt[p] = attempt[p]

\* The bulkhead's limit holds for the operations that somebody still waits for,
\* inside the executor and outside it: what runs beyond the limit are orphans.
AwaitedWithinLimit ==
    Cardinality({p \in Requests : live[p]} \cup (holders \cap Others)) <= MaxConcurrent

\* A half-open breaker that admits nobody has a probe on its way through retry and
\* timeout, at the end of which the breaker hears of it and decides.
ProbeUnderWay ==
    state = "HalfOpen" /\ halfOpenCount = HalfOpenMaxRequests =>
        \E p \in probes : stage[p] \in {"await", "backoff", "after"}

\* Every call of Execute returns although operations may hang and ignore their
\* context: the timeout, the attempt limit and MaxWait bound every wait.
ExecuteReturns == \A p \in Requests : stage[p] # "out" ~> stage[p] = "out"

\* A half-open breaker whose probes are all taken leaves that state although the
\* probes' operations may hang.
ProbesDecide ==
    state = "HalfOpen" /\ halfOpenCount = HalfOpenMaxRequests ~> state # "HalfOpen"

\* "Executor: Execute() is safe; all wrapped patterns maintain their guarantees"
\* (doc.go:103), among them the bulkhead's "MaxConcurrent is the maximum number of
\* concurrent operations" (bulkhead.go:11).
OperationsWithinLimit ==
    Cardinality({p \in Requests : live[p]} \cup (holders \cap Others)) + TotalOrphans
        <= MaxConcurrent

=============================================================================
