---------------------------- MODULE RateLimiter ----------------------------
(***************************************************************************)
(* resilience/ratelimit.go: a token bucket shared by goroutines that call  *)
(* Allow, AllowN, Wait, WaitN or Execute.                                  *)
(*                                                                         *)
(* The bucket is a float64 refilled by elapsed seconds times Rate.  Here   *)
(* the clock counts ticks, a token is worth Token units and a tick refills *)
(* Rate units, so that a fraction of a token is a number of units and the  *)
(* conversion of a wait to a time.Duration, which drops what is less than  *)
(* the clock's resolution, is a division that drops the remainder.         *)
(*                                                                         *)
(* AllowN is one critical section.  WaitN is three: AllowN, the reading of *)
(* the missing tokens, and AllowN again once the timer has fired.          *)
(***************************************************************************)
EXTENDS Integers

CONSTANTS
    Callers,   \* goroutines that call Wait, WaitN or Execute with WaitOnLimit
    Amounts,   \* the n that callers ask for
    Rate,      \* RateLimiterConfig.Rate, in units per tick
    Token,     \* units per token
    Burst,     \* RateLimiterConfig.Burst, in tokens
    MaxWait,   \* RateLimiterConfig.MaxWait, in ticks
    MaxTime    \* bound on the clock

\* NewRateLimiter replaces zero and negative settings by positive defaults.
ASSUME LimiterAssumption ==
    /\ Amounts \subseteq Nat \ {0}
    /\ Rate \in Nat \ {0}
    /\ Token \in Nat \ {0}
    /\ Burst \in Nat \ {0}
    /\ MaxWait \in Nat \ {0}
    /\ MaxTime \in Nat

VARIABLES
    tokens,       \* rl.tokens, in units
    lastRefresh,  \* rl.lastRefresh
    now,          \* the clock
    pc,           \* where each caller of WaitN is
    need,         \* the n of each such caller
    deadline,     \* when its time.After fires
    robbed,       \* history: the units granted to others since it computed its wait
    capped,       \* history: whether MaxWait cut its wait short
    spent         \* history: units granted since time t, for every t

bucketVars == <<tokens, lastRefresh>>
callerVars == <<pc, need, deadline, robbed, capped>>
vars == <<bucketVars, now, callerVars, spent>>

Capacity == Burst * Token

Times == 0..MaxTime

Init ==
    /\ tokens = Capacity
    /\ lastRefresh = 0
    /\ now = 0
    /\ pc = [p \in Callers |-> "idle"]
    /\ need = [p \in Callers |-> 0]
    /\ deadline = [p \in Callers |-> 0]
    /\ robbed = [p \in Callers |-> 0]
    /\ capped = [p \in Callers |-> FALSE]
    /\ spent = [t \in Times |-> 0]

-----------------------------------------------------------------------------
\* Mutant: the refill is not capped at the burst.
RefilledUncapped == tokens + Rate * (now - lastRefresh)

\* refillLocked: what the bucket holds once the elapsed time is credited.
Refilled ==
    LET filled == tokens + Rate * (now - lastRefresh)
    IN  IF filled > Capacity THEN Capacity ELSE filled

\* Mutant: a grant leaves lastRefresh alone, so the same time is credited again.
GrantKeepsRefresh(n) ==
    /\ Refilled >= n * Token
    /\ tokens' = Refilled - n * Token
    /\ spent' = [t \in Times |-> IF t <= now THEN spent[t] + n * Token ELSE spent[t]]
    /\ UNCHANGED lastRefresh

\* AllowN(n) returning true and returning false; both refill the bucket.
Grant(n) ==
    /\ Refilled >= n * Token
    /\ tokens' = Refilled - n * Token
    /\ lastRefresh' = now
    /\ spent' = [t \in Times |-> IF t <= now THEN spent[t] + n * Token ELSE spent[t]]

Deny(n) ==
    /\ Refilled < n * Token
    /\ tokens' = Refilled
    /\ lastRefresh' = now
    /\ UNCHANGED spent

\* A grant of n tokens takes what those who sleep had counted on.
Rob(sleepers, n) ==
    robbed' = [q \in Callers |-> IF q \in sleepers /\ pc[q] = "sleeping"
                                 THEN robbed[q] + n * Token ELSE robbed[q]]

-----------------------------------------------------------------------------
\* Allow, AllowN, and Execute without WaitOnLimit, by any goroutine.
Allow(n) ==
    \/ /\ Grant(n)
       /\ Rob(Callers, n)
       /\ UNCHANGED <<now, pc, need, deadline, capped>>
    \/ /\ Deny(n)
       /\ UNCHANGED <<now, callerVars>>

\* WaitN, up to its first AllowN.  A context that is already done returns before
\* anything is touched.
WaitGranted(p, n) ==
    /\ pc[p] = "idle"
    /\ Grant(n)
    /\ Rob(Callers \ {p}, n)
    /\ UNCHANGED <<now, pc, need, deadline, capped>>

WaitRefused(p, n) ==
    /\ pc[p] = "idle"
    /\ Deny(n)
    /\ pc' = [pc EXCEPT ![p] = "computing"]
    /\ need' = [need EXCEPT ![p] = n]
    /\ UNCHANGED <<now, deadline, robbed, capped>>

\* Mutant: the wait is computed for one token too few.
WaitTimeOneShort(p) ==
    LET tokensNeeded == (need[p] - 1) * Token - tokens
    IN  IF tokensNeeded > 0 THEN tokensNeeded \div Rate ELSE 0

\* The wait until the missing tokens have accrued, as a time.Duration.
WaitTime(p) ==
    LET tokensNeeded == need[p] * Token - tokens
    IN  IF tokensNeeded > 0 THEN tokensNeeded \div Rate ELSE 0

\* The second critical section: it reads rl.tokens as the last refill left it,
\* and the timer starts afterwards.
ComputeWait(p) ==
    /\ pc[p] = "computing"
    /\ pc' = [pc EXCEPT ![p] = "sleeping"]
    /\ robbed' = [robbed EXCEPT ![p] = 0]
    /\ capped' = [capped EXCEPT ![p] = WaitTime(p) > MaxWait]
    /\ deadline' = [deadline EXCEPT ![p] =
                      now + (IF WaitTime(p) > MaxWait THEN MaxWait ELSE WaitTime(p))]
    /\ UNCHANGED <<bucketVars, now, need, spent>>

\* The timer fired: one more AllowN decides.  Deny is ErrRateLimitExceeded.
WakeGranted(p) ==
    /\ pc[p] = "sleeping"
    /\ now >= deadline[p]
    /\ Grant(need[p])
    /\ Rob(Callers \ {p}, need[p])
    /\ pc' = [pc EXCEPT ![p] = "idle"]
    /\ UNCHANGED <<now, need, deadline, capped>>

WakeExceeded(p) ==
    /\ pc[p] = "sleeping"
    /\ now >= deadline[p]
    /\ Deny(need[p])
    /\ pc' = [pc EXCEPT ![p] = "idle"]
    /\ UNCHANGED <<now, need, deadline, robbed, capped>>

\* ctx.Done() wins the select, before or after the timer fired.
WaitCancelled(p) ==
    /\ pc[p] = "sleeping"
    /\ pc' = [pc EXCEPT ![p] = "idle"]
    /\ UNCHANGED <<bucketVars, now, need, deadline, robbed, capped, spent>>

\* Tokens: reading refills.
ReadTokens ==
    /\ tokens' = Refilled
    /\ lastRefresh' = now
    /\ UNCHANGED <<now, callerVars, spent>>

\* Reset fills the bucket: the windows of the rate start anew, and what was taken from
\* those who sleep is back.
Reset ==
    /\ tokens' = Capacity
    /\ lastRefresh' = now
    /\ spent' = [t \in Times |-> 0]
    /\ robbed' = [p \in Callers |-> 0]
    /\ UNCHANGED <<now, pc, need, deadline, capped>>

Tick ==
    /\ now < MaxTime
    /\ now' = now + 1
    /\ UNCHANGED <<bucketVars, callerVars, spent>>

Next ==
    \/ \E n \in Amounts : Allow(n)
    \/ \E p \in Callers, n \in Amounts : WaitGranted(p, n) \/ WaitRefused(p, n)
    \/ \E p \in Callers :
          ComputeWait(p) \/ WakeGranted(p) \/ WakeExceeded(p) \/ WaitCancelled(p)
    \/ ReadTokens
    \/ Reset
    \/ Tick

Spec == Init /\ [][Next]_vars

-----------------------------------------------------------------------------
(***************************************************************************)
(* Properties.                                                             *)
(***************************************************************************)

\* Types; the bucket is never in debt and never above the burst.
TypeOK ==
    /\ tokens \in 0..Capacity
    /\ now \in Times
    /\ lastRefresh \in 0..now
    /\ pc \in [Callers -> {"idle", "computing", "sleeping"}]
    /\ need \in [Callers -> Amounts \cup {0}]
    /\ deadline \in [Callers -> Nat]
    /\ robbed \in [Callers -> Nat]
    /\ capped \in [Callers -> BOOLEAN]
    /\ spent \in [Times -> Nat]

\* The rate limit, over every window of time: whatever mixture of Allow, Wait
\* and wake-ups ran, the tokens granted since any instant t (Reset aside) are at
\* most the burst plus what accrued since t at the configured rate.
RateBounded == \A t \in 0..now : spent[t] <= Capacity + Rate * (now - t)

\* A waiter whose timer has fired and whose wait MaxWait did not cut short misses of
\* its n tokens (n within the burst) at most what was granted to others while it
\* slept, up to less than one tick's refill, which the conversion to time.Duration
\* drops.  So WaitN answers ErrRateLimitExceeded for no cause but these four.  The
\* last two make it do less than "WaitN blocks until n tokens are available"
\* (ratelimit.go:82) says: it waits once, and does not resume the wait.
RefusalHasCause ==
    \A p \in Callers :
        pc[p] = "sleeping" /\ now >= deadline[p] /\ ~capped[p] /\ need[p] <= Burst
        => Refilled + robbed[p] + Rate > need[p] * Token

=============================================================================
