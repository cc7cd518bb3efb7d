# Verification of toolops

TLA+ models of `toolops`, a Go library of cross-cutting concerns for tool
execution, checked with TLC on small instances and, for the safety properties
that matter most, proved with TLAPS for every value of the constants. Every
definition is translated from the Go code; `PROJECT.json` says which lines each
definition stands for.

## The system

| Part | State | Operations | How it is shared |
|---|---|---|---|
| `resilience/circuit.go` | state, failures, successes, lastFailure, halfOpenCount under one mutex | Execute (beforeRequest, op, afterRequest), State, Metrics, Reset | every caller of a protected service; tells an OnStateChange listener |
| `resilience/bulkhead.go` | buffered channel of slots; active, maxActive, rejected under a mutex | Acquire, Release, Execute, Metrics | every caller |
| `resilience/ratelimit.go` | tokens, lastRefresh under a mutex | Allow(N), Wait(N), Execute, Tokens, Reset | every caller |
| `resilience/retry.go` | none | Execute: loop, delay, RetryIf, OnRetry | stateless |
| `resilience/timeout.go` | none, but a goroutine per call | Execute | stateless |
| `resilience/executor.go` | references to the five above | Execute | composes them: rate limiter > bulkhead > breaker > retry > timeout > op |
| `cache/` | map of entries under an RWMutex; policy; keyer | CacheMiddleware.Execute; Get, Set, Delete; EffectiveTTL | every caller of a tool |
| `auth/jwks.go` | keys, cacheTime, backup of keys; a singleflight group | GetKey, refresh | every JWT validation |
| `auth/oauth2_introspection.go` | token cache | Authenticate | every request |
| `auth/apikey.go`, `jwt.go`, `composite.go`, `rbac.go` | key store under an RWMutex; configuration | Authenticate, Authorize, Add, Remove | every request; the composite calls the others in order, the authorizer gets the identity through the context |
| `health/aggregator.go` | checkers and their order under an RWMutex | Register, Unregister, Check, CheckAll, OverallStatus | HTTP handlers |
| `observe/` | loggers with a mutex each over one writer; OpenTelemetry providers | log, WithTool, Wrap, NewObserver, Shutdown | every tool execution |
| `secret/` | provider maps | ResolveValue, Register, Create | configuration loading |

Nothing is persisted and there is one process, so crashes and message loss do
not occur. What is hard is concurrency inside the process: critical sections
with unlocked gaps between them (the breaker's, the bulkhead's, the limiter's
and the cache's), results that arrive late (Timeout's goroutines, stale
completions of the breaker, answers of the JWKS and introspection endpoints),
credentials that stop being good while requests rely on them, clocks and limits,
and liveness when operations, checks or endpoints hang. `PROJECT.json` lists these hazards one by one, at their lines.

What makes each part correct:

- breaker: exact counters whatever completes late, no probe before its time, no
  half-open state that nobody can leave (except after panics, see Findings),
  recovery, listeners that are in sync;
- bulkhead: never more than the limit, no slot leaked or returned twice;
- rate limiter: no window of time grants more than burst plus rate times time;
  WaitN refuses only for one of four causes, which are more than its comments
  admit (see Findings);
- executor: the patterns nest on every path, results belong to the attempt that
  was waited for, every call returns;
- cache: only results that may be cached are ever served, not beyond their TTL,
  and stale ones die out;
- JWKS: the cache never goes back to older keys, withdrawn keys expire, a
  published key is found, nobody waits for ever for another caller's refresh;
- authentication: a revocation, an expiry or the removal of a key takes effect
  in bounded time whatever is cached or under way; a token that is good is not
  refused by an authenticator that finds it; every request ends;
- RBAC: the decision is that of the roles reached by inheritance, through
  cycles and repetitions and past names that are not configured;
- health: a probe is answered although checks hang, and the answer is true of
  the time of the probe;
- observe: what the telemetry is given agrees with what happened, a shutdown reaches every
  provider, and lines are not torn.

## Modules

| Module | Stands for | Checked through |
|---|---|---|
| `CircuitBreaker` | `resilience/circuit.go` | `MCCircuitBreaker`, `ExecutorProofs` |
| `ConcurrencyLimit` | abstract specification: at most `Limit` holders | `Bulkhead!ImplementsLimit` |
| `Bulkhead` | `resilience/bulkhead.go` | `MCBulkhead`, `BulkheadProofs` |
| `RateLimiter` | `resilience/ratelimit.go` | `MCRateLimiter`, `RateLimiterProofs` |
| `Executor` | `executor.go`, `retry.go`, `timeout.go`; extends `CircuitBreaker` and composes it with `ConcurrencyLimit` by INSTANCE | `MCExecutor`, `ExecutorProofs` |
| `ToolCache` | `cache/middleware.go`, `memory.go`, `policy.go` | `MCToolCache`, `ToolCacheProofs` |
| `JWKS` | `auth/jwks.go` | `MCJWKS`, `JWKSProofs` |
| `RBAC` | `auth/rbac.go`, `authorizer.go` | `MCAuth`, `AuthProofs` |
| `Auth` | `auth/composite.go`, `jwt.go`, `apikey.go`, `oauth2_introspection.go`; extends `RBAC` | `MCAuth`, `AuthProofs` |
| `Health` | `health/aggregator.go`, `checker.go`, `memory.go`, `http.go` | `MCHealth`, `HealthProofs` |
| `Observe` | `observe/`: observer, exporters, middleware, metrics, tracer, logger | `MCObserve`, `ObserveProofs` |

One action is one critical section, or one unlocked step that others can see
the effect of. A definition whose comment starts with "Mutant:" is a plausible
bug; no specification uses it. It is there to show that a property notices when
the definition after it is replaced by it.

**CircuitBreaker.** `Admit` and `Refuse` are beforeRequest, `AfterRequest` is
afterRequest with one sub-action per branch of its switch, `Panic` is an
operation that unwinds through Execute (afterRequest is not deferred),
`ReadState` is State and Metrics, `Reset` is Reset. currentStateLocked is the
operators `CurrentState` and `CurrentCount`, which every method that calls it
uses. The clock and lastFailure appear as their difference, saturated at
ResetTimeout, the only value they are compared with. `probes`, `lost` and
`sinceTrip` are history variables that no guard reads.

**Bulkhead.** A caller's location says which of the two halves of Acquire or
Release it has done: the channel operation (`TryAcquire`, `WaitAcquire`,
`ReceiveSlot`) and the counting under the mutex (`CountAcquired`,
`CountReleased`, `Reject`). The blocking select is the three actions
`WaitAcquire`, `WaitTimeout`, `WaitCancelled`.

**RateLimiter.** A token is `Token` units and a tick refills `Rate` of them, so
fractions of a token and the truncation of the waiting time to a
`time.Duration` are exact integer arithmetic. WaitN is `WaitGranted` or
`WaitRefused`, then `ComputeWait`, then `WakeGranted`, `WakeExceeded` or
`WaitCancelled`. `spent`, `robbed` and `capped` are history variables. WaitN waits once
and looks once more, so it refuses a waiter when n is more than the burst, when
MaxWait cut the wait, when others were granted the tokens meanwhile, or when the
truncated wait ended within a tick of enough. `RefusalHasCause` says that there is no
fifth cause, and how much the last two can amount to: `robbed` is what others were granted
while the waiter slept, and it misses at most that and less than one tick's refill. This
is less than the comments "Wait blocks until a token is available or context is
cancelled" (ratelimit.go:77) and "WaitN blocks until n tokens are available" (:82)
promise: a waiter that was robbed, or that woke up a fraction of a token too early, is
refused and does not wait on.

**Executor.** It extends `CircuitBreaker`, whose specification is therefore called
`CBInit`, `CBNext` and `CBSpec`, and whose callers, `Requests`, are the calls of the
executor; the breaker's steps are its `Admit`, `Refuse` and `AfterRequest`. The bulkhead is `ConcurrencyLimit`, which `Bulkhead` is proved
to implement. Timeout's goroutine is `live`, its channel `done`; an attempt that
is given up while it runs becomes one of the `orphans`. A panic in that
goroutine ends the process, so there is no `Panic` step here. The rate limiter
is outermost and only decides whether `Call` happens.

**ToolCache.** Get is `Lookup` (read lock), then `Hit` or `FindExpired` (no
lock), then `Evict` (write lock, whatever is stored by then). `ExecutorReturns`
and `Store` are separate, so an old result may be stored late. An entry carries
its ttl and its age instead of expiresAt. The version a tool would answer with
grows as the data behind it change (`SourceChanges`, environment).

**JWKS.** GetKey is `Hit`, or `Miss` and then `Do`, the singleflight group: the
caller goes on as leader or waits. A refresh is `EndpointAnswers` (the endpoint
sends what it publishes then) and, later, `Install` under the write lock, or
`RefreshFails` for every way in which there is no usable answer, the leader's
cancellation included. `DoReturnsNil` and `DoReturnsError` release the leader
and its followers, who then look the key up under the read lock (`KeyFound`,
`KeyNotFound`; `KeyKept`, `KeyLost` with the backup). `Rotate` is the endpoint.
`epoch`, `asOf`, `responseAsOf`, `led` and `missed` are history variables. A
follower may join a refresh whose response predates a rotation and be told that
the new key does not exist; `NotFoundIsTrue` is therefore about leaders, and
`NotFoundEnds` about everybody.

**RBAC.** `Authorize` starts the worklist of collectRoles, `Collect` is one turn
of its loop, `Decide` the test of the collected roles and `Return` the answer. A list
of roles is how often it has each name, because rolesToProcess may have a name
several times: a turn for a name that was seen takes it off and does no more, as the
`continue` does. The order in which the worklist is emptied is left open, since the
answer does not depend on it. `RolePermits` is
rolePermits: denied tools, then the two lists, then a permission or the fact that
tools were listed. A pattern is the set of the names it matches. `Closure`, the
least closed set around the roles of the subject, is the reference definition.

**Auth.** One caller is one request: `Arrive`, then the loop of
CompositeAuthenticator over `Authenticators` with `at` as its index (`Skip` where
Supports says no, `Fails`, `Succeeds`, `Finish`), then `Proceed` with the identity,
or with none, into the steps of `RBAC`. Each authenticator has a Supports of its own:
JWT wants its configurable header to begin with its prefix, letter for letter,
introspection wants "bearer " in Authorization in any case, and API key wants its
header not to be empty. A request is therefore what each of the three finds in it
(`jwtToken`, `bearer`, `key`), and these need not agree. JWT is `ParseFails` for what is
no JWT, or `AskForKey` and, up to `KeyTimeout` ticks later, `VerifyJWT` or
`KeyProviderFails`: the key is asked for in the middle of the parsing, and may be
fetched (`JWKS`, whose client gives up after 30 s). `LookupKey` and `CheckKey` are the two halves
of the API key authenticator, between which the store may change (`Add`, `Remove`).
Introspection is `CacheHit`, or `Introspect`, `EndpointDecides` (the endpoint
looks at the token), and up to `Timeout` ticks later `Response` or `IntrospectionFails`, which
ends the request. Key providers and HTTP clients that are configured instead of the
default ones are taken to give up in bounded time too, and no two authenticators of
the composite are of one kind. `Void` revokes or expires a credential. `lapsed` counts, as a
history variable, how long a credential has not been good, and `Grace` is how
long it may still be accepted. That is, first, the age of the verdict on it: CacheTTL and one
Timeout for an introspected token, because its cache entry begins when the answer
arrives, and nothing for a JWT or an API key. Without StopOnFirst the first success
also waits for the authenticators that come after it, KeyTimeout for JWT and
Timeout for introspection. An entry's life is CacheTTL for every
token, as in the code, whatever expiry the endpoint reports.

**Health.** A probe takes a copy of the registry (`CheckAll`, `Check`), starts one
goroutine per checker, all at once or one after the other (`StartCheck`), and for
each takes its result or gives up (`TakeResult`, `TimesOut`: either, when both
are ready). A check that hangs is one for which `CheckReturns` never happens.
`seen` is a history variable: what each component was like during the probe.
The thresholds of the memory checker are thousandths, with the constructor's
defaults and corrections.

**Observe.** `Validate`, `SetupTracing`, `SetupMetrics` and `MakeMiddleware` are
NewObserver and MiddlewareFromObserver with each of their failures; the wrapped
function is `StartSpan`, `Returns` or `Panics`, `EndSpan`, `AddTotal`, `AddErrors`,
`RecordDuration` and the two writes of its log line. `ShutdownTracer` and
`ShutdownMeter` are the two halves of Shutdown. `Samples` is the sampler: every span at
a SamplePct of 100 percent, none at 0, and either answer in between; `spans` counts the
sampled ones. `returned`, `failed`, `panicked` and `abandoned`
are history variables. The instruments are what the middleware has given to them.
What a reader collects from the SDK, one instrument after the other, is not
modelled, and may mix values of different moments.

## Runs

| Run | Instance | Shows |
|---|---|---|
| `circuit_breaker` | 4 callers, MaxFailures 2, ResetTimeout 2 ticks, 2 probes | all safety properties, `NoEarlyProbe`, and `Recovers` |
| `breaker_stale_success` (violation) | the same | a success from before the circuit opened closes the half-open circuit |
| `bulkhead` | 4 callers, 2 slots, waiting allowed, 6 rejections | slots, counters, refinement of `ConcurrencyLimit` |
| `rate_limiter` | 2 waiters, amounts 1, 2 and 3, burst 2, 2/3 token per tick, 4 ticks | `RateBounded` in every window, `RefusalHasCause` |
| `executor` | 2 callers, 1 outside user, 2 slots, 2 attempts, threshold 1, 1 probe | nesting (`PatternsNest`), no mixed-up results, `AwaitedWithinLimit`, `ProbeUnderWay`, `ExecuteReturns`, `ProbesDecide` |
| `executor_orphans` (violation) | the same | abandoned attempts run beyond the bulkhead's limit |
| `tool_cache` | 2 callers, 2 keys, DefaultTTL 2 clamped to MaxTTL 1, 2 versions | `OnlyProperResultsCached`, `HitsAreFresh`, `StalenessEnds` |
| `jwks` | 2 callers, an RSA and another key, TTL 1 tick, 2 rotations | `KeysNeverGoBack`, `NotFoundIsTrue`, `FollowersAreLed`, `GetKeyReturns`, `WithdrawnKeysExpire`, `NotFoundEnds` |
| `auth` | 2 callers, a token, a JWT and an API key, 3 roles that inherit in a cycle, one of them listed twice, and one that is not configured, CacheTTL, Timeout and KeyTimeout 1 tick, StopOnFirst on and off | `TypeOK`, `AcceptanceIsFresh`, `RefusalIsJust`, `AuthorizesByClosure`, `RequestsEnd` |
| `health` | 1 probe, 2 names, a memory checker and another, both modes | `AnswerIsTrue`, `ProbesAnswered` |
| `observe` | 2 workers, 2 calls of Shutdown, 3 executions, 5 valid and 2 invalid configurations, all, some or no spans sampled, 3 environments | `CountersExact`, `ShutdownReachesAll` |
| `observe_lines` (violation) | the same, 2 executions | the log lines of two executions get into each other |

Why the bounds are enough: the breaker's four callers let two stale ones and two
probes meet in one half-open period, with a threshold and a budget of more than
one, so off-by-ones show. Three callers at a bulkhead of two slots are what the
metrics race needs; four leave one waiting besides. In the rate limiter a token
is not a whole number of ticks (2 units of 3), one amount exceeds the burst, and
MaxWait cuts some waits and not others. Two callers in the executor let one
hold the probe while the other is refused or completes late. In the cache the
races are between two callers of one key, and the second key shows that results
stay apart. Two rotations let the JWKS endpoint withdraw a key and publish it
again while one caller leads and the other joins, follows or looks its key up
late. In `auth` both callers carry the same token, so that one's old answer can
renew the entry of the other's, and one also comes with a JWT and a key, so that a
success waits for the key and for the introspection that follow it. One tick each for CacheTTL,
Timeout and KeyTimeout already tells apart the sums and the off-by-ones of `Grace`. A
second kind of request has a JWT that only introspection finds, in Authorization. The role
that permits the tool is two levels below the one that denies it. One probe
is enough for `health`, because probes share only the registry and the components, and
both change under it as they like; the usages lie just below and at each
threshold. Two workers and two closers in `observe` are what each of its races
needs. `MaxRejected`, `MaxTime`, `MaxOrphans`, `MaxVersion`, `MaxEpoch` and
`MaxCalls` only bound counters that the code lets grow. `bulkhead`, `executor` and
`observe` run with deadlock checking off: everybody may be idle once those bounds
are used up, and an observer that failed to start stays so.

Fairness. `CircuitBreaker`: the clock ticks, operations end, and each caller
that could be admitted calls at some time; it is needed because the circuit only
leaves the open state when somebody looks. `ToolCache`: a call that has begun
goes on, and the clock ticks; nobody has to call again. `Executor`: goroutines run and timers fire, but operations may hang for
ever and nobody has to cancel: what returns does so because of the timeout, the
attempt limit and MaxWait. `JWKS`: time passes, a call goes on and a request
ends, because the default client has a timeout of 30 s, but the endpoint need
never answer, and it is rotated finitely often. `Auth`: a request goes on, and an
introspection or the fetch of a key ends, because the clients have a timeout; the endpoint need never
look at a token, time need not pass and nobody has to send a request. `Health`:
the goroutines of a probe run and its deadline passes, but checks may hang for
ever. All of it is weak fairness per caller, which the Go scheduler and its
timers justify. `Bulkhead`, `RateLimiter` and `Observe` have safety properties only.

## Proofs

The proofs hold for every set of callers (finite where counted), every
configuration that the constructors let through, and any length of run. What
they assume is in the named ASSUMEs of the modules, which TLC evaluates on every
run: the constructors' defaults make limits positive.

- `ExecutorProofs`, the breaker. `CBTypeOK`, `FailuresMatchState`, `ProbeBudgetExact` and
  `ListenerInSync` become inductive together with `TripClock`: in an open circuit
  the time since the last failure is the time since it opened, and a half-open
  circuit has waited the whole ResetTimeout. `NoEarlyProbe` follows from `TripClock`. All of these are about `CBSpec`: the breaker
  by itself, with operations that may panic.
- `ExecutorProofs`, the chain. `BreakerWithin` shows that every step of the executor is,
  on the breaker's variables, a step of the breaker or none, which carries the
  breaker's invariant into the chain; `BulkheadWithin` shows the same for
  `ConcurrencyLimit`. `ChainInv` says for every call which patterns it is inside at
  each stage (`Nested`), that a result in its channel or in its hand is that of its
  current attempt (`InHand`), and that the slots in use are within the limit.
  `NestingCorrect`, `SuccessCorrect` and `AwaitedCorrect` follow: the limit that
  `executor_orphans` shows broken for all operations is kept for those that
  somebody still waits for. `ProbeUnderWayHolds` needs both parts: a half-open breaker
  that admits nobody has a probe (breaker), no probe is lost because the chain has
  no panics (`NoneLost`), and whoever was admitted is on its way to afterRequest (chain).
- `BulkheadProofs`. `sem` equals the number of holders and `active` the number of
  counted callers; each action adds or removes one caller from these sets, which
  lemmas about cardinalities turn into plus and minus one. `WithinLimit` (never
  more than MaxConcurrent holders), `MetricsDriftBounded` and the refinement of `ConcurrencyLimit` (`Refinement`:
  acquiring maps to Acquire, the receive of Release to Release, the rest to
  stuttering) follow.
- `RateLimiterProofs`. The strengthening relates what was spent since any time t
  to what the bucket still holds: spent plus tokens is at most the capacity plus
  what accrued from t to the last refresh. For a waiter, the tokens in the bucket plus
  what accrues until its deadline and what it was robbed of cover all but a remainder of
  one tick, which gives `Refusals`; a grant moves units from the bucket to `robbed`.
- `ToolCacheProofs`. The strengthening says that the result in hand before Set is
  as proper as a cached one, that a call on its way through the cache is one the
  policy lets through, and that every entry carries the TTL of the policy;
  `HitsFresh` then follows from the check in `Hit`.
- `JWKSProofs`. `SingleFlight` (a call is in flight exactly while one caller is in
  refresh, and only then somebody waits) gives `FollowersLed`, and makes
  `ResponsesAreNewer` inductive, and with it `KeysNeverGoBack`. `LeadersSee` carries
  `NotFoundIsTrue` from the response through its installation to the second
  lookup, across refreshes that others lead in between.
- `AuthProofs`, the authorizer. The invariant of the loop in collectRoles (`Collecting`): what was
  found or is still to do lies in the closure of the roles it started from,
  includes those, and includes what any found role inherits. With nothing left
  to do, what was found is closed and so equals the closure, for every
  configuration and however often a name is on the list. That the loop ends is left
  to `RequestsEnd` and TLC.
- `AuthProofs`, the authenticators. The invariant bounds how old what a request relies on can be
  (`FreshSoFar`, `WorldInv`): a cache entry has lapsed for no longer than its age
  plus Timeout, a positive answer for no longer than its flight, an info that was
  looked up and is not void not at all. The first success of a request has lapsed for no
  longer than its verdict was old, plus the waits for the authenticators that had their
  turn since, plus the present one (`FreshFirst`); `Age` adds these up, and a turn adds
  to it once, because an authenticator has one place in the list (`TurnAges`). Only
  `Tick` lets credentials lapse, and while it does every caller is idle or waits for a
  key or for the endpoint. `JustSoFar` says of every authenticator that was passed that
  it was right to refuse what it found. `Acceptances`, `Refusals` and `TypeCorrect` follow, for any number of
  requests, any CacheTTL, Timeout and KeyTimeout and any order of the authenticators.
  `AuthorizerWithin` shows that the chain uses the authorizer as `RBAC` specifies, and
  carries `RolesCorrect` over to requests.
- `ObserveProofs`. A worker between two instruments has told one of them and not yet
  the next, so the invariant counts these workers: `Counts` relates each counter to
  what happened through the workers that are not counted, not measured, with a sampled
  span open or about to report. When a worker moves on it leaves one of these sets.
  `Sampling` is for the two ends of SamplePct, where all or none of the workers and of the
  panicked executions have a sampled span.
  `Phases` says which providers can exist while the observer is being made and
  after Shutdown. `TelemetryExact` and `ShutdownComplete` follow.
- `HealthProofs`. What a check delivered, and what runCheck took from its channel, was
  seen during the probe, or the probe's context is done (`Delivered`); `Watched` says
  that `seen` holds the present status of every checker in the copy. With `Phases`
  (a probe under way has no answer yet, and a single check has one checker), the answer
  computed from the results is true when it is given (`AnswersTrue`), and what it is
  measured by does not change until the next probe. `TypeCorrect` includes the registry: lemmas about Append
  and the removal of an element show that the order lists every registered name once.
  `MemoryReports` shows for all thresholds, out of range or in the wrong order too, that
  unused memory is healthy, exhausted memory unhealthy, and more use never better.

Only model-checked: the liveness properties (`Recovers`, `ExecuteReturns`,
`ProbesDecide`, `StalenessEnds`, `GetKeyReturns`, `WithdrawnKeysExpire`,
`NotFoundEnds`, `RequestsEnd`, `ProbesAnswered`), which need fairness and so are out of
reach of the prover. Every invariant and action property of the passing runs is
proved, and so are the type invariants of `Bulkhead`, `ToolCache` and `Observe`,
which no run repeats; `ProbeUnderWay` and `FollowersAreLed` are the safety halves
of two of the liveness properties (whoever waits has somebody to wait for).

## Findings

Runs that show the code to disagree with what is written about it:

1. A call admitted before the circuit opened can close the half-open circuit
   (`breaker_stale_success`).
2. Attempts that timed out run beside their retries, beyond the bulkhead's limit
   (`executor_orphans`).
3. Log lines of concurrent executions can get into each other: WithTool makes a
   logger with a mutex of its own over the same writer (`observe_lines`).

Noted while modelling, without a run:

- a panicking operation keeps its half-open slot for good, because Execute does not
  defer afterRequest (circuit.go:98); when all slots are lost the circuit is half-open
  until Reset and refuses every call, while circuit.go:17 says that it "is testing if
  the service recovered";
- Wait and WaitN do not block until there are tokens (ratelimit.go:77, :82): they wait
  once and reserve nothing, so that others may take the tokens meanwhile
  (ratelimit.go:111), and the wait is truncated to a whole duration, so that it may end
  just before the last part of a token has accrued (ratelimit.go:98); in both cases they
  refuse, with an error that doc.go:111 reserves for "no wait configured";
- the JWT authenticator compares its prefix letter for letter (jwt.go:92), so that it
  does not see a JWT behind "bearer" in lower case, which introspection reads
  (oauth2_introspection.go:285) and finds inactive: a request with a good JWT is refused,
  while jwt.go:89 says "Supports returns true if the request contains a JWT token";
- a tool that a role denies is permitted all the same if a role that it inherits from
  permits it (rbac.go:70), while rbac.go:28 calls DeniedTools "a list of tool names
  this role cannot access" and rbac.go:122 says "deny takes precedence";
- the bulkhead's MaxActive can exceed MaxConcurrent by callers that are leaving,
  which `MetricsDriftBounded` bounds (bulkhead.go:95);
- the cache's lazy clean-up can delete an entry that was set meanwhile (memory.go:43);
- followers of a refresh fail when its leader is cancelled, and a key that was
  withdrawn is found again in the backup while refreshes fail (jwks.go:81, :176);
- OAuth2Config.CacheTTL 0 becomes the default of 5 minutes, while its comment
  (oauth2_introspection.go:33) says "Set to 0 to disable caching"; and expired
  entries of the token cache are never removed;
- AggregatorConfig.Parallel says "Default: true" (aggregator.go:16), but a config
  that does not set it runs sequentially;
- NewMemoryChecker leaves the critical threshold below the warning when that is
  above 0.99 and the critical one has to be raised;
- NewObserver leaves the tracer provider up, and global, when metrics fail.

## Not modelled

- float64 rounding of the rate limiter beyond the truncation of the wait;
- the length of the retry delay (`calculateDelay`): arithmetic on one number that
  no other component sees;
- the cache's keyer, and the skip rule's tag matching (an input of `ToolCache`);
- what a JWK looks like (`RSAKids` are the keys that parse), what is in a JWT besides
  whether it is good, and how claims become an identity beyond its roles;
- the auth factory, which builds authenticators from configuration maps, and the
  secret resolver and its registry, which substitute text: sequential, and models
  of them would consist of strings;
- the fields of a log entry and their redaction;
- HTTP, JSON, hashing, signatures and the OpenTelemetry SDK, the collection of its
  instruments by a reader included: they are libraries or pure input and output.

## Plan

Every invariant and action property that a run checks is proved. What is left is

1. the safety halves of the other liveness properties, as far as they can be stated
   without fairness: that the attempts of a call of `Executor` have a measure, and that
   a probe of `Health` that is past its deadline always has a step to take, and that the
   worklist of `RBAC`, duplicates included, has one as well;
2. the chain with `Bulkhead` itself in the place of `ConcurrencyLimit`.
