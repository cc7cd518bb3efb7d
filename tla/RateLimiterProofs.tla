------------------------- MODULE RateLimiterProofs -------------------------
(***************************************************************************)
(* Proofs about RateLimiter for every rate, burst, number of callers and   *)
(* length of the run.  The bound on what is granted since an instant t     *)
(* becomes inductive when the tokens still in the bucket are added to what *)
(* was granted and the clock is replaced by the time of the last refill.   *)
(***************************************************************************)
EXTENDS RateLimiter, TLAPS

\* What was granted since t and what is left come from the burst and the refills
\* since t; nothing was granted after the last refill.
Conservation ==
    /\ \A t \in 0..lastRefresh :
          spent[t] + tokens <= Capacity + Rate * (lastRefresh - t)
    /\ \A t \in Times : t > lastRefresh => spent[t] = 0

\* What the refills up to the deadline of a waiter are worth, with what was taken.
Until(t) == IF t > lastRefresh THEN t - lastRefresh ELSE 0

WaiterOnTrack ==
    \A p \in Callers :
        pc[p] = "sleeping" /\ ~capped[p] /\ need[p] <= Burst
        => tokens + robbed[p] + Rate * Until(deadline[p]) + Rate > need[p] * Token

IInv == TypeOK /\ Conservation /\ WaiterOnTrack

-----------------------------------------------------------------------------
\* Multiplication by a natural number distributes and is monotone.
LEMMA Scale ==
    ASSUME NEW k \in Nat, NEW a \in Int, NEW b \in Int
    PROVE  /\ k * a \in Int
           /\ k * (a + b) = k * a + k * b
           /\ k * (a - b) = k * a - k * b
           /\ a <= b => k * a <= k * b
           /\ 0 <= a => 0 <= k * a
           /\ k * 0 = 0
<1>1. k * a \in Int /\ k * (a + b) = k * a + k * b /\ k * (a - b) = k * a - k * b /\ k * 0 = 0
  BY Z3
<1>2. 0 <= a => 0 <= k * a
  BY Z3
<1>3. a <= b => k * a <= k * b
  <2> SUFFICES ASSUME a <= b PROVE k * a <= k * b
    OBVIOUS
  <2>1. 0 <= k * (b - a)
    BY Z3
  <2>2. k * (b - a) = k * b - k * a
    BY Z3
  <2>3. QED
    BY <2>1, <2>2, <1>1
<1>4. QED
  BY <1>1, <1>2, <1>3

\* Dividing by the rate drops less than one tick's refill.
LEMMA Truncation ==
    ASSUME NEW x \in Nat, NEW k \in Nat \ {0}
    PROVE  x \div k \in Nat /\ k * (x \div k) + k > x
BY Z3

\* The bucket's capacity bounds every amount within the burst.
LEMMA CapacityFacts ==
    /\ Capacity \in Nat
    /\ \A n \in Nat : n * Token \in Nat /\ (n <= Burst => n * Token <= Capacity)
<1>1. Capacity \in Nat
  BY LimiterAssumption, Scale DEF Capacity
<1>2. ASSUME NEW n \in Nat PROVE n * Token \in Nat /\ (n <= Burst => n * Token <= Capacity)
  <2>1. n * Token = Token * n /\ Burst * Token = Token * Burst
    BY LimiterAssumption, Z3
  <2>2. 0 <= Token * n /\ Token * n \in Int /\ (n <= Burst => Token * n <= Token * Burst)
    BY LimiterAssumption, Scale
  <2>3. QED
    BY <2>1, <2>2 DEF Capacity
<1>3. QED
  BY <1>1, <1>2

\* A refill only adds, never beyond the capacity, and never more than accrued.
LEMMA RefillFacts ==
    ASSUME TypeOK
    PROVE  /\ Refilled \in 0..Capacity
           /\ tokens <= Refilled
           /\ Refilled <= tokens + Rate * (now - lastRefresh)
           /\ Refilled = Capacity \/ Refilled = tokens + Rate * (now - lastRefresh)
<1>1. now - lastRefresh \in Nat /\ tokens \in Nat /\ tokens <= Capacity /\ Capacity \in Nat
  BY CapacityFacts, LimiterAssumption DEF TypeOK, Times
<1>2. Rate * (now - lastRefresh) \in Int /\ 0 <= Rate * (now - lastRefresh)
  BY <1>1, Scale, LimiterAssumption
<1>3. QED
  BY <1>1, <1>2 DEF Refilled

\* Taking n units (or none) from a refilled bucket keeps the books balanced.
LEMMA RefillConserves ==
    ASSUME TypeOK, Conservation, NEW taken \in Nat, taken <= Refilled,
           tokens' = Refilled - taken, lastRefresh' = now,
           spent' = [t \in Times |-> IF t <= now THEN spent[t] + taken ELSE spent[t]]
    PROVE  Conservation'
<1> USE LimiterAssumption
<1>0. /\ now \in Nat /\ lastRefresh \in Nat /\ lastRefresh <= now /\ now <= MaxTime
      /\ tokens \in Nat /\ Capacity \in Nat /\ Refilled \in Nat /\ Refilled <= Capacity
  BY RefillFacts, CapacityFacts DEF TypeOK, Times
<1>1. ASSUME NEW t \in 0..now
      PROVE  spent'[t] + tokens' <= Capacity + Rate * (now - t)
  <2>1. t \in Times /\ spent[t] \in Nat /\ spent'[t] = spent[t] + taken
    BY <1>0 DEF Times, TypeOK
  <2>2. CASE t <= lastRefresh
    <3>1. spent[t] + tokens <= Capacity + Rate * (lastRefresh - t)
      BY <1>0, <2>2 DEF Conservation
    <3>2. Rate * (now - t) = Rate * (lastRefresh - t) + Rate * (now - lastRefresh)
      <4>1. now - t = (lastRefresh - t) + (now - lastRefresh)
        BY <1>0
      <4>2. QED
        BY <1>0, <4>1, Scale
    <3>3. Refilled <= tokens + Rate * (now - lastRefresh)
      BY RefillFacts
    <3>4. Rate * (lastRefresh - t) \in Int /\ Rate * (now - lastRefresh) \in Int
      BY <1>0, Scale
    <3>5. QED
      BY <1>0, <2>1, <3>1, <3>2, <3>3, <3>4
  <2>3. CASE t > lastRefresh
    <3>1. spent[t] = 0
      BY <2>1, <2>3 DEF Conservation
    <3>2. Rate * (now - t) \in Int /\ 0 <= Rate * (now - t)
      BY <1>0, Scale
    <3>3. QED
      BY <1>0, <2>1, <3>1, <3>2
  <2>4. QED
    BY <1>0, <2>2, <2>3
<1>2. ASSUME NEW t \in Times, t > now PROVE spent'[t] = 0
  BY <1>0, <1>2 DEF Conservation, Times
<1>3. QED
  BY <1>1, <1>2 DEF Conservation

\* A refill leaves a waiter for m tokens until d, robbed of l units, on track.
LEMMA RefillKeepsTrack ==
    ASSUME TypeOK, NEW d \in Nat, NEW m \in Nat, NEW l \in Nat, m <= Burst,
           tokens + l + Rate * Until(d) + Rate > m * Token,
           lastRefresh' = now
    PROVE  Refilled + l + Rate * Until(d)' + Rate > m * Token
<1> USE LimiterAssumption
<1>0. /\ now \in Nat /\ lastRefresh \in Nat /\ lastRefresh <= now /\ tokens \in Nat
      /\ Refilled \in Nat
  BY RefillFacts, CapacityFacts DEF TypeOK, Times
<1> DEFINE u == Until(d)
           v == IF d > now THEN d - now ELSE 0
<1>1. Until(d)' = v
  BY DEF Until
<1>2. u \in Nat /\ v \in Nat /\ now - lastRefresh \in Nat /\ u <= v + (now - lastRefresh)
  BY <1>0 DEF Until
<1> HIDE DEF u, v
<1>3. Rate * u <= Rate * v + Rate * (now - lastRefresh)
  <2>1. Rate * (v + (now - lastRefresh)) = Rate * v + Rate * (now - lastRefresh)
    BY <1>2, Scale
  <2>2. Rate * u <= Rate * (v + (now - lastRefresh))
    BY <1>2, Scale
  <2>3. QED
    BY <2>1, <2>2
<1>4. /\ Rate * u \in Int /\ Rate * v \in Int /\ 0 <= Rate * v
      /\ Rate * (now - lastRefresh) \in Int
  BY <1>2, Scale
<1>5. m * Token \in Nat /\ m * Token <= Capacity
  BY CapacityFacts
<1>6. tokens + l + Rate * u + Rate > m * Token
  BY DEF u
<1>7. CASE Refilled = Capacity
  BY <1>0, <1>1, <1>4, <1>5, <1>7
<1>8. CASE Refilled = tokens + Rate * (now - lastRefresh)
  BY <1>0, <1>1, <1>3, <1>4, <1>5, <1>6, <1>8
<1>9. QED
  BY <1>7, <1>8, RefillFacts

-----------------------------------------------------------------------------
\* NewRateLimiter establishes the invariant.
LEMMA InitIInv == Init => IInv
<1> SUFFICES ASSUME Init PROVE IInv
  OBVIOUS
<1> USE LimiterAssumption, CapacityFacts
<1>1. TypeOK
  BY DEF Init, TypeOK, Times
<1>2. Conservation
  <2>1. Rate * (0 - 0) = 0
    BY Scale
  <2>2. QED
    BY <2>1 DEF Init, Conservation, Times
<1>3. WaiterOnTrack
  BY DEF Init, WaiterOnTrack
<1>4. QED
  BY <1>1, <1>2, <1>3 DEF IInv

\* The amounts and the callers' needs are natural numbers.
LEMMA AmountFacts ==
    /\ \A n \in Amounts : n \in Nat /\ n * Token \in Nat
    /\ TypeOK => \A p \in Callers : need[p] \in Nat /\ need[p] * Token \in Nat
<1>1. \A n \in Amounts \cup {0} : n \in Nat
  BY LimiterAssumption
<1>2. TypeOK => \A p \in Callers : need[p] \in Amounts \cup {0}
  BY DEF TypeOK
<1>3. QED
  BY <1>1, <1>2, CapacityFacts

\* AllowN returning true, whoever called it.
LEMMA GrantStep ==
    ASSUME TypeOK, Conservation, NEW n \in Nat, Grant(n), now' = now
    PROVE  /\ Conservation'
           /\ tokens' \in 0..Capacity /\ lastRefresh' \in 0..now
           /\ spent' \in [Times -> Nat]
<1>1. n * Token \in Nat /\ Capacity \in Nat
  BY CapacityFacts
<1>2. Conservation'
  BY <1>1, RefillConserves DEF Grant
<1>3. tokens' \in 0..Capacity
  BY <1>1, RefillFacts DEF Grant
<1>4. spent' \in [Times -> Nat]
  BY <1>1 DEF Grant, TypeOK
<1>5. QED
  BY <1>2, <1>3, <1>4 DEF Grant, TypeOK, Times

\* A refill without a grant: AllowN returning false, and Tokens.
LEMMA RefillStep ==
    ASSUME TypeOK, Conservation, tokens' = Refilled, lastRefresh' = now, now' = now, spent' = spent
    PROVE  /\ Conservation'
           /\ tokens' \in 0..Capacity /\ lastRefresh' \in 0..now
<1>1. spent = [t \in Times |-> IF t <= now THEN spent[t] + 0 ELSE spent[t]]
  BY DEF TypeOK
<1>2. Refilled \in 0..Capacity /\ Capacity \in Nat
  BY RefillFacts, CapacityFacts
<1>3. Conservation'
  BY <1>1, <1>2, RefillConserves
<1>4. QED
  BY <1>2, <1>3 DEF TypeOK, Times

\* Waiters stay on track when others take n units, or none, from the refilled bucket.
LEMMA RefillTrack ==
    ASSUME TypeOK, WaiterOnTrack, NEW taken \in Nat,
           tokens' = Refilled - taken, lastRefresh' = now,
           NEW p \in Callers, need'[p] = need[p], deadline'[p] = deadline[p],
           robbed'[p] = robbed[p] + taken,
           pc[p] = "sleeping", ~capped[p], need[p] <= Burst
    PROVE  tokens' + robbed'[p] + Rate * Until(deadline[p])' + Rate > need'[p] * Token
<1>1. deadline[p] \in Nat /\ need[p] \in Nat /\ robbed[p] \in Nat /\ need[p] * Token \in Nat
  BY AmountFacts DEF TypeOK
<1>2. tokens + robbed[p] + Rate * Until(deadline[p]) + Rate > need[p] * Token
  BY DEF WaiterOnTrack
<1>3. PICK d \in Nat : d = deadline[p]
  BY <1>1
<1>4. PICK m \in Nat : m = need[p]
  BY <1>1
<1>5. PICK l \in Nat : l = robbed[p]
  BY <1>1
<1>6. Refilled + l + Rate * Until(d)' + Rate > m * Token
  BY <1>2, <1>3, <1>4, <1>5, RefillKeepsTrack
<1>7. Until(deadline[p])' = Until(d)'
  BY <1>3 DEF Until
<1>8. Refilled \in Nat /\ Rate * Until(d)' \in Int
  <2>1. now \in Nat /\ Refilled \in Nat
    BY RefillFacts, CapacityFacts, LimiterAssumption DEF TypeOK, Times
  <2>2. Until(d)' \in Nat
    BY <2>1 DEF Until
  <2>3. QED
    BY <2>1, <2>2, Scale, LimiterAssumption
<1>9. QED
  BY <1>1, <1>4, <1>5, <1>6, <1>7, <1>8, LimiterAssumption

\* AllowN returning true to somebody who does not sleep, or sleeps no more: those who
\* do are robbed of what was granted.
LEMMA GrantTrack ==
    ASSUME TypeOK, WaiterOnTrack, NEW n \in Nat, Grant(n), NEW others, Rob(others, n),
           UNCHANGED <<need, deadline, capped>>,
           \A q \in Callers : pc'[q] = "sleeping" => pc[q] = "sleeping" /\ q \in others
    PROVE  WaiterOnTrack'
<1> SUFFICES ASSUME NEW q \in Callers, pc'[q] = "sleeping", ~capped'[q], need'[q] <= Burst
             PROVE  tokens' + robbed'[q] + Rate * Until(deadline[q])' + Rate > need'[q] * Token
  BY DEF WaiterOnTrack, Until
<1>1. n * Token \in Nat
  BY CapacityFacts
<1>2. robbed'[q] = robbed[q] + n * Token
  BY DEF Rob
<1>3. QED
  BY <1>1, <1>2, RefillTrack DEF Grant

\* Being robbed adds a natural number.
LEMMA RobType ==
    ASSUME TypeOK, NEW n \in Nat, NEW others, Rob(others, n)
    PROVE  robbed' \in [Callers -> Nat]
<1>1. n * Token \in Nat
  BY CapacityFacts
<1>2. \A q \in Callers : robbed[q] \in Nat /\ robbed[q] + n * Token \in Nat
  BY <1>1 DEF TypeOK
<1>3. QED
  BY <1>2 DEF Rob

\* A refill without a grant concerns nobody who sleeps.
LEMMA RefillOnly ==
    ASSUME TypeOK, WaiterOnTrack, tokens' = Refilled, lastRefresh' = now,
           UNCHANGED <<deadline, robbed, capped>>,
           \A q \in Callers : pc'[q] = "sleeping" => pc[q] = "sleeping" /\ need'[q] = need[q]
    PROVE  WaiterOnTrack'
<1> SUFFICES ASSUME NEW q \in Callers, pc'[q] = "sleeping", ~capped'[q], need'[q] <= Burst
             PROVE  tokens' + robbed'[q] + Rate * Until(deadline[q])' + Rate > need'[q] * Token
  BY DEF WaiterOnTrack, Until
<1>1. Refilled = Refilled - 0 /\ robbed[q] = robbed[q] + 0
  BY RefillFacts, CapacityFacts DEF TypeOK
<1>2. QED
  BY <1>1, RefillTrack

\* Every critical section of the limiter, every timer and every tick preserves
\* the invariant.
LEMMA NextIInv == IInv /\ [Next]_vars => IInv'
<1> SUFFICES ASSUME IInv, [Next]_vars PROVE IInv'
  OBVIOUS
<1> USE LimiterAssumption DEF IInv
<1>1. ASSUME NEW n \in Amounts, Allow(n) PROVE IInv'
  <2>1. CASE Grant(n) /\ Rob(Callers, n)
             /\ UNCHANGED <<now, pc, need, deadline, capped>>
    <3>1. Conservation' /\ TypeOK'
      BY <2>1, GrantStep, RobType, AmountFacts DEF TypeOK
    <3>2. WaiterOnTrack'
      BY <2>1, GrantTrack, AmountFacts
    <3>3. QED
      BY <3>1, <3>2
  <2>2. CASE Deny(n) /\ UNCHANGED <<now, callerVars>>
    <3>1. Conservation' /\ TypeOK'
      BY <2>2, RefillStep DEF Deny, TypeOK, callerVars
    <3>2. WaiterOnTrack'
      BY <2>2, RefillOnly DEF Deny, callerVars
    <3>3. QED
      BY <3>1, <3>2
  <2>3. QED
    BY <1>1, <2>1, <2>2 DEF Allow
<1>2. ASSUME NEW p \in Callers, NEW n \in Amounts, WaitGranted(p, n) PROVE IInv'
  <2>1. Conservation' /\ TypeOK'
    BY <1>2, GrantStep, RobType, AmountFacts DEF WaitGranted, TypeOK
  <2>2. WaiterOnTrack'
    BY <1>2, GrantTrack, AmountFacts DEF WaitGranted
  <2>3. QED
    BY <2>1, <2>2
<1>3. ASSUME NEW p \in Callers, NEW n \in Amounts, WaitRefused(p, n) PROVE IInv'
  <2>1. Conservation' /\ TypeOK'
    BY <1>3, RefillStep DEF WaitRefused, Deny, TypeOK
  <2>2. WaiterOnTrack'
    BY <1>3, RefillOnly DEF WaitRefused, Deny, TypeOK
  <2>3. QED
    BY <2>1, <2>2
<1>4. ASSUME NEW p \in Callers, ComputeWait(p) PROVE IInv'
  <2>0. /\ need[p] \in Nat /\ need[p] * Token \in Nat /\ tokens \in Nat /\ now \in Nat
        /\ lastRefresh \in Nat /\ lastRefresh <= now
    BY AmountFacts, CapacityFacts DEF TypeOK, Times
  <2>1. WaitTime(p) \in Nat /\ tokens + Rate * WaitTime(p) + Rate > need[p] * Token
    <3>1. CASE need[p] * Token - tokens > 0
      <4> DEFINE x == need[p] * Token - tokens
      <4>1. x \in Nat /\ WaitTime(p) = x \div Rate
        BY <2>0, <3>1 DEF WaitTime
      <4>2. x \div Rate \in Nat /\ Rate * (x \div Rate) + Rate > x
        BY <4>1, Truncation
      <4>3. Rate * WaitTime(p) \in Int
        BY <4>1, <4>2, Scale
      <4>4. QED
        BY <2>0, <4>1, <4>2, <4>3
    <3>2. CASE ~(need[p] * Token - tokens > 0)
      BY <2>0, <3>2, Scale DEF WaitTime
    <3>3. QED
      BY <3>1, <3>2
  <2>2. TypeOK'
    <3>1. now + (IF WaitTime(p) > MaxWait THEN MaxWait ELSE WaitTime(p)) \in Nat
      BY <2>0, <2>1
    <3>2. QED
      BY <1>4, <2>1, <3>1 DEF ComputeWait, bucketVars, TypeOK
  <2>3. Conservation'
    BY <1>4 DEF ComputeWait, bucketVars, Conservation
  <2>4. ASSUME NEW q \in Callers, pc'[q] = "sleeping", ~capped'[q], need'[q] <= Burst
        PROVE  (tokens + robbed[q] + Rate * Until(deadline[q]) + Rate > need[q] * Token)'
    <3>1. CASE q = p
      <4>1. deadline'[p] = now + WaitTime(p) /\ need'[p] = need[p] /\ tokens' = tokens
            /\ lastRefresh' = lastRefresh /\ robbed'[p] = 0
        BY <1>4, <2>1, <2>4, <3>1 DEF ComputeWait, bucketVars, TypeOK
      <4>2. Until(deadline[p])' \in Nat /\ WaitTime(p) <= Until(deadline[p])'
        BY <2>0, <2>1, <4>1 DEF Until
      <4>3. Rate * WaitTime(p) <= Rate * Until(deadline[p])'
            /\ Rate * WaitTime(p) \in Int /\ Rate * Until(deadline[p])' \in Int
        BY <2>1, <4>2, Scale
      <4>4. QED
        BY <2>0, <2>1, <3>1, <4>1, <4>3
    <3>2. CASE q # p
      <4>1. /\ pc[q] = "sleeping" /\ ~capped[q] /\ need[q] <= Burst
            /\ robbed'[q] = robbed[q]
            /\ deadline'[q] = deadline[q] /\ need'[q] = need[q] /\ tokens' = tokens
            /\ lastRefresh' = lastRefresh
        BY <1>4, <2>4, <3>2 DEF ComputeWait, bucketVars, TypeOK
      <4>2. Until(deadline[q])' = Until(deadline[q])
        BY <4>1 DEF Until
      <4>3. QED
        BY <4>1, <4>2 DEF WaiterOnTrack
    <3>3. QED
      BY <3>1, <3>2
  <2>5. WaiterOnTrack'
    BY <2>4 DEF WaiterOnTrack
  <2>6. QED
    BY <2>2, <2>3, <2>5
<1>5. ASSUME NEW p \in Callers, WakeGranted(p) PROVE IInv'
  <2>1. Conservation' /\ TypeOK'
    BY <1>5, GrantStep, RobType, AmountFacts DEF WakeGranted, TypeOK
  <2>2. WaiterOnTrack'
    <3>1. \A q \in Callers : pc'[q] = "sleeping" => pc[q] = "sleeping" /\ q \in Callers \ {p}
      BY <1>5 DEF WakeGranted, TypeOK
    <3>2. QED
      BY <1>5, <3>1, GrantTrack, AmountFacts DEF WakeGranted
  <2>3. QED
    BY <2>1, <2>2
<1>6. ASSUME NEW p \in Callers, WakeExceeded(p) PROVE IInv'
  <2>1. Conservation' /\ TypeOK'
    BY <1>6, RefillStep DEF WakeExceeded, Deny, TypeOK
  <2>2. WaiterOnTrack'
    BY <1>6, RefillOnly DEF WakeExceeded, Deny, TypeOK
  <2>3. QED
    BY <2>1, <2>2
<1>7. ASSUME NEW p \in Callers, WaitCancelled(p) PROVE IInv'
  BY <1>7 DEF WaitCancelled, bucketVars, TypeOK, Conservation, WaiterOnTrack, Until
<1>8. ASSUME ReadTokens PROVE IInv'
  <2>1. Conservation' /\ TypeOK'
    BY <1>8, RefillStep DEF ReadTokens, TypeOK, callerVars
  <2>2. WaiterOnTrack'
    BY <1>8, RefillOnly DEF ReadTokens, callerVars
  <2>3. QED
    BY <2>1, <2>2
<1>9. ASSUME Reset PROVE IInv'
  <2>1. TypeOK'
    BY <1>9, CapacityFacts DEF Reset, TypeOK, callerVars, Times
  <2>2. Conservation'
    <3>1. ASSUME NEW t \in 0..now PROVE Rate * (now - t) \in Int /\ 0 <= Rate * (now - t)
      BY <3>1, Scale DEF TypeOK, Times
    <3>2. QED
      BY <1>9, <3>1, CapacityFacts DEF Reset, Conservation, TypeOK, Times
  <2>3. ASSUME NEW p \in Callers, need'[p] <= Burst
        PROVE  (tokens + robbed[p] + Rate * Until(deadline[p]) + Rate > need[p] * Token)'
    <3>1. need'[p] \in Nat /\ need'[p] * Token \in Nat /\ need'[p] * Token <= Capacity
      BY <1>9, <2>3, AmountFacts, CapacityFacts DEF Reset, callerVars
    <3>2. Until(deadline[p])' \in Nat
      BY <2>1 DEF Until, TypeOK, Times
    <3>3. Rate * Until(deadline[p])' \in Int /\ 0 <= Rate * Until(deadline[p])'
      BY <3>2, Scale
    <3>4. QED
      BY <1>9, <3>1, <3>3, CapacityFacts DEF Reset
  <2>4. WaiterOnTrack'
    BY <2>3 DEF WaiterOnTrack
  <2>5. QED
    BY <2>1, <2>2, <2>4
<1>10. ASSUME Tick PROVE IInv'
  BY <1>10 DEF Tick, bucketVars, callerVars, TypeOK, Times, Conservation, WaiterOnTrack, Until
<1>11. ASSUME UNCHANGED vars PROVE IInv'
  BY <1>11 DEF vars, bucketVars, callerVars, TypeOK, Conservation, WaiterOnTrack, Until
<1>12. QED
  BY <1>1, <1>2, <1>3, <1>4, <1>5, <1>6, <1>7, <1>8, <1>9, <1>10, <1>11 DEF Next

\* The inductive invariant holds in every reachable state of the limiter.
THEOREM Invariance == Spec => []IInv
<1>1. QED
  BY InitIInv, NextIInv, PTL DEF Spec

\* Types; in particular the bucket is never in debt and never above the burst.
THEOREM TypeCorrect == Spec => []TypeOK
<1>1. IInv => TypeOK
  BY DEF IInv
<1>2. QED
  BY <1>1, Invariance, PTL

\* The rate limit holds over every window of time, for every rate and burst and
\* any number of concurrent callers.
THEOREM RateLimit == Spec => []RateBounded
<1>1. IInv => RateBounded
  <2> SUFFICES ASSUME IInv, NEW t \in 0..now
               PROVE  spent[t] <= Capacity + Rate * (now - t)
    BY DEF RateBounded
  <2> USE LimiterAssumption
  <2>0. /\ now \in Nat /\ lastRefresh \in Nat /\ lastRefresh <= now /\ t \in Times
        /\ spent[t] \in Nat /\ tokens \in Nat /\ Capacity \in Nat
    BY CapacityFacts DEF IInv, TypeOK, Times
  <2>1. CASE t <= lastRefresh
    <3>1. spent[t] + tokens <= Capacity + Rate * (lastRefresh - t)
      BY <2>0, <2>1 DEF IInv, Conservation
    <3>2. Rate * (lastRefresh - t) <= Rate * (now - t)
          /\ Rate * (lastRefresh - t) \in Int /\ Rate * (now - t) \in Int
      BY <2>0, Scale
    <3>3. QED
      BY <2>0, <3>1, <3>2
  <2>2. CASE t > lastRefresh
    <3>1. spent[t] = 0
      BY <2>0, <2>2 DEF IInv, Conservation
    <3>2. Rate * (now - t) \in Int /\ 0 <= Rate * (now - t)
      BY <2>0, Scale
    <3>3. QED
      BY <2>0, <3>1, <3>2
  <2>3. QED
    BY <2>0, <2>1, <2>2
<1>2. QED
  BY <1>1, Invariance, PTL

\* For every configuration and any number of callers, a waiter that MaxWait did not cut
\* short is refused n tokens within the burst only for what others were granted while
\* it slept, or for the part of a tick that its wait was truncated by.
THEOREM Refusals == Spec => []RefusalHasCause
<1>1. IInv => RefusalHasCause
  <2> SUFFICES ASSUME IInv, NEW p \in Callers, pc[p] = "sleeping", now >= deadline[p],
                      ~capped[p], need[p] <= Burst
               PROVE  Refilled + robbed[p] + Rate > need[p] * Token
    BY DEF RefusalHasCause
  <2> USE LimiterAssumption
  <2>0. /\ now \in Nat /\ lastRefresh \in Nat /\ lastRefresh <= now /\ tokens \in Nat
        /\ deadline[p] \in Nat /\ need[p] \in Nat /\ need[p] * Token \in Nat
        /\ robbed[p] \in Nat
    BY AmountFacts, CapacityFacts DEF IInv, TypeOK, Times
  <2>1. tokens + robbed[p] + Rate * Until(deadline[p]) + Rate > need[p] * Token
    BY DEF IInv, WaiterOnTrack
  <2>2. Until(deadline[p]) \in Nat /\ Until(deadline[p]) <= now - lastRefresh
    BY <2>0 DEF Until
  <2>3. Rate * Until(deadline[p]) <= Rate * (now - lastRefresh)
        /\ Rate * Until(deadline[p]) \in Int /\ Rate * (now - lastRefresh) \in Int
    BY <2>0, <2>2, Scale
  <2>4. CASE Refilled = Capacity
    BY <2>0, <2>4, CapacityFacts
  <2>5. CASE Refilled = tokens + Rate * (now - lastRefresh)
    BY <2>0, <2>1, <2>3, <2>5
  <2>6. QED
    BY <2>4, <2>5, RefillFacts DEF IInv
<1>2. QED
  BY <1>1, Invariance, PTL

=============================================================================
