----------------------------- MODULE JWKSProofs -----------------------------
(***************************************************************************)
(* What concurrent calls of GetKey are told about rotated keys, proved for *)
(* any number of callers and keys and any number of rotations.             *)
(***************************************************************************)
EXTENDS JWKS, TLAPS

\* The singleflight group: a call is in flight exactly while one caller is in
\* refresh, and only then somebody waits.
SingleFlight ==
    /\ \A p \in Callers : Refreshing(p) \/ pc[p] = "waiting" => flying
    /\ flying => \E p \in Callers : Refreshing(p)
    /\ \A p, q \in Callers : Refreshing(p) /\ Refreshing(q) => p = q

WaitersDoNotLead == \A p \in Callers : pc[p] = "waiting" => ~led[p]

\* A response in hand is at least as new as the one that is installed.
ResponsesAreNewer == \A p \in Callers : pc[p] = "answered" => asOf <= responseAsOf[p]

\* The history missed records what it says.
MissesAreSeen ==
    \A p \in Callers :
        pc[p] # "idle" => missed[p] \/ Finds(want[p], published \cap RSAKids)

\* A leader that is done with its request finds its key in the cache, and will
\* after any response that is in hand, or the key was missing during its call.
LeadersSee ==
    \A p \in Callers :
        led[p] =>
            /\ pc[p] \in {"refreshed", "looking"} => missed[p] \/ Finds(want[p], keys)
            /\ pc[p] \in {"answered", "looking"} =>
                 \A q \in Callers :
                    pc[q] = "answered" =>
                        missed[p] \/ Finds(want[p], response[q] \cap RSAKids)

IInv ==
    /\ TypeOK
    /\ SingleFlight
    /\ WaitersDoNotLead
    /\ ResponsesAreNewer
    /\ MissesAreSeen
    /\ LeadersSee

-----------------------------------------------------------------------------
LEMMA InitIInv == Init => IInv
<1> SUFFICES ASSUME Init PROVE IInv
  OBVIOUS
<1>1. TypeOK
  <2>1. /\ keys \subseteq RSAKids /\ lastFetched \subseteq RSAKids /\ keys \subseteq lastFetched
        /\ response \in [Callers -> SUBSET Kids] /\ published \in SUBSET Kids
    BY DEF Init
  <2>2. /\ age \in 0..CacheTTL /\ epoch \in 0..MaxEpoch /\ asOf \in 0..epoch
        /\ responseAsOf \in [Callers -> 0..epoch]
    BY ProviderAssumption DEF Init
  <2>3. /\ flying \in BOOLEAN
        /\ led \in [Callers -> BOOLEAN] /\ missed \in [Callers -> BOOLEAN]
    BY DEF Init
  <2>4. pc \in [Callers -> Locations] /\ want \in [Callers -> Kids \cup {AnyKid}]
    BY DEF Init, Locations
  <2> QED
    BY <2>1, <2>2, <2>3, <2>4 DEF TypeOK
<1>2. ~flying /\ \A p \in Callers : pc[p] = "idle" /\ ~led[p]
  BY DEF Init
<1> QED
  BY <1>1, <1>2 DEF IInv, SingleFlight, Refreshing, WaitersDoNotLead,
     ResponsesAreNewer, MissesAreSeen, LeadersSee

\* The types are kept by every step.
LEMMA TypeKept == TypeOK /\ [Next]_vars => TypeOK'
<1> SUFFICES ASSUME TypeOK, [Next]_vars PROVE TypeOK'
  OBVIOUS
<1> USE ProviderAssumption DEF TypeOK, Locations, cacheVars, serverVars, callVars
<1>1. ASSUME NEW p \in Callers, Hit(p) PROVE TypeOK'
  BY <1>1 DEF Hit, vars
<1>2. ASSUME NEW p \in Callers, Miss(p) PROVE TypeOK'
  BY <1>2 DEF Miss, Go
<1>3. ASSUME NEW p \in Callers, Do(p) PROVE TypeOK'
  BY <1>3 DEF Do, Go
<1>4. ASSUME NEW p \in Callers, DoReturnsNil(p) \/ DoReturnsError(p) PROVE TypeOK'
  BY <1>4 DEF DoReturnsNil, DoReturnsError, DoReturns
<1>5. ASSUME NEW p \in Callers, KeyFound(p) \/ KeyNotFound(p) \/ KeyKept(p) \/ KeyLost(p)
      PROVE  TypeOK'
  BY <1>5 DEF KeyFound, KeyNotFound, KeyKept, KeyLost, Returns, Go
<1>6. ASSUME NEW p \in Callers, EndpointAnswers(p) PROVE TypeOK'
  BY <1>6 DEF EndpointAnswers, Go
<1>7. ASSUME NEW p \in Callers, RefreshFails(p) PROVE TypeOK'
  BY <1>7 DEF RefreshFails, Go
<1>8. ASSUME NEW p \in Callers, Install(p) PROVE TypeOK'
  BY <1>8 DEF Install, Go, Forget
<1>9. CASE Rotate
  BY <1>9 DEF Rotate
<1>10. CASE Tick
  BY <1>10 DEF Tick
<1>11. CASE UNCHANGED vars
  BY <1>11 DEF vars
<1> QED
  BY <1>1, <1>2, <1>3, <1>4, <1>5, <1>6, <1>7, <1>8, <1>9, <1>10, <1>11
  DEF Next, Continue

\* One caller at a time refreshes, and those who wait for it do not lead.
LEMMA SingleFlightKept ==
    TypeOK /\ SingleFlight /\ WaitersDoNotLead /\ [Next]_vars =>
        SingleFlight' /\ WaitersDoNotLead'
<1> SUFFICES ASSUME TypeOK, SingleFlight, WaitersDoNotLead, [Next]_vars
             PROVE  SingleFlight' /\ WaitersDoNotLead'
  OBVIOUS
<1> DEFINE Kept == SingleFlight' /\ WaitersDoNotLead'
<1> USE DEF TypeOK, SingleFlight, WaitersDoNotLead, Refreshing, callVars
<1>1. ASSUME NEW p \in Callers, Hit(p) PROVE Kept
  BY <1>1 DEF Hit, vars
<1>2. ASSUME NEW p \in Callers, Miss(p) PROVE Kept
  BY <1>2 DEF Miss, Go
<1>3. ASSUME NEW p \in Callers, Do(p) PROVE Kept
  BY <1>3 DEF Do, Go
<1>4. ASSUME NEW p \in Callers, DoReturnsNil(p) \/ DoReturnsError(p) PROVE Kept
  BY <1>4 DEF DoReturnsNil, DoReturnsError, DoReturns
<1>5. ASSUME NEW p \in Callers, KeyFound(p) \/ KeyNotFound(p) \/ KeyKept(p) \/ KeyLost(p)
      PROVE  Kept
  BY <1>5 DEF KeyFound, KeyNotFound, KeyKept, KeyLost, Returns, Go
<1>6. ASSUME NEW p \in Callers, EndpointAnswers(p) PROVE Kept
  BY <1>6 DEF EndpointAnswers, Go
<1>7. ASSUME NEW p \in Callers, RefreshFails(p) PROVE Kept
  BY <1>7 DEF RefreshFails, Go
<1>8. ASSUME NEW p \in Callers, Install(p) PROVE Kept
  BY <1>8 DEF Install, Go
<1>9. CASE Rotate
  BY <1>9 DEF Rotate
<1>10. CASE Tick
  BY <1>10 DEF Tick
<1>11. CASE UNCHANGED vars
  BY <1>11 DEF vars
<1> QED
  BY <1>1, <1>2, <1>3, <1>4, <1>5, <1>6, <1>7, <1>8, <1>9, <1>10, <1>11
  DEF Next, Continue

\* What is installed never overtakes a response in hand: a response is as new as
\* can be when it arrives, and nobody else installs one before its own turn.
LEMMA ResponsesKept ==
    TypeOK /\ SingleFlight /\ ResponsesAreNewer /\ [Next]_vars => ResponsesAreNewer'
<1> SUFFICES ASSUME TypeOK, SingleFlight, ResponsesAreNewer, [Next]_vars
             PROVE  ResponsesAreNewer'
  OBVIOUS
<1> USE DEF TypeOK, ResponsesAreNewer
<1>1. ASSUME NEW p \in Callers, Hit(p) PROVE ResponsesAreNewer'
  BY <1>1 DEF Hit, vars
<1>2. ASSUME NEW p \in Callers, Miss(p) PROVE ResponsesAreNewer'
  BY <1>2 DEF Miss, Go
<1>3. ASSUME NEW p \in Callers, Do(p) PROVE ResponsesAreNewer'
  BY <1>3 DEF Do, Go
<1>4. ASSUME NEW p \in Callers, DoReturnsNil(p) \/ DoReturnsError(p)
      PROVE  ResponsesAreNewer'
  BY <1>4 DEF DoReturnsNil, DoReturnsError, DoReturns
<1>5. ASSUME NEW p \in Callers, KeyFound(p) \/ KeyNotFound(p) \/ KeyKept(p) \/ KeyLost(p)
      PROVE  ResponsesAreNewer'
  BY <1>5 DEF KeyFound, KeyNotFound, KeyKept, KeyLost, Returns, Go
<1>6. ASSUME NEW p \in Callers, EndpointAnswers(p) PROVE ResponsesAreNewer'
  BY <1>6 DEF EndpointAnswers, Go
<1>7. ASSUME NEW p \in Callers, RefreshFails(p) PROVE ResponsesAreNewer'
  BY <1>7 DEF RefreshFails, Go
<1>8. ASSUME NEW p \in Callers, Install(p) PROVE ResponsesAreNewer'
  <2>1. \A q \in Callers : pc'[q] # "answered"
    BY <1>8 DEF Install, Go, SingleFlight, Refreshing
  <2> QED
    BY <2>1
<1>9. CASE Rotate
  BY <1>9 DEF Rotate
<1>10. CASE Tick
  BY <1>10 DEF Tick
<1>11. CASE UNCHANGED vars
  BY <1>11 DEF vars
<1> QED
  BY <1>1, <1>2, <1>3, <1>4, <1>5, <1>6, <1>7, <1>8, <1>9, <1>10, <1>11
  DEF Next, Continue

\* missed keeps up with the endpoint.
LEMMA MissesKept == TypeOK /\ MissesAreSeen /\ [Next]_vars => MissesAreSeen'
<1> SUFFICES ASSUME TypeOK, MissesAreSeen, [Next]_vars PROVE MissesAreSeen'
  OBVIOUS
<1> USE DEF TypeOK, MissesAreSeen, callVars, serverVars
<1>1. ASSUME NEW p \in Callers, Hit(p) PROVE MissesAreSeen'
  BY <1>1 DEF Hit, vars
<1>2. ASSUME NEW p \in Callers, Miss(p) PROVE MissesAreSeen'
  BY <1>2 DEF Miss, Go
<1>3. ASSUME NEW p \in Callers, Do(p) PROVE MissesAreSeen'
  BY <1>3 DEF Do, Go
<1>4. ASSUME NEW p \in Callers, DoReturnsNil(p) \/ DoReturnsError(p) PROVE MissesAreSeen'
  BY <1>4 DEF DoReturnsNil, DoReturnsError, DoReturns
<1>5. ASSUME NEW p \in Callers, KeyFound(p) \/ KeyNotFound(p) \/ KeyKept(p) \/ KeyLost(p)
      PROVE  MissesAreSeen'
  BY <1>5 DEF KeyFound, KeyNotFound, KeyKept, KeyLost, Returns, Go
<1>6. ASSUME NEW p \in Callers, EndpointAnswers(p) PROVE MissesAreSeen'
  BY <1>6 DEF EndpointAnswers, Go
<1>7. ASSUME NEW p \in Callers, RefreshFails(p) PROVE MissesAreSeen'
  BY <1>7 DEF RefreshFails, Go
<1>8. ASSUME NEW p \in Callers, Install(p) PROVE MissesAreSeen'
  BY <1>8 DEF Install, Go
<1>9. CASE Rotate
  BY <1>9 DEF Rotate
<1>10. CASE Tick
  BY <1>10 DEF Tick
<1>11. CASE UNCHANGED vars
  BY <1>11 DEF vars
<1> QED
  BY <1>1, <1>2, <1>3, <1>4, <1>5, <1>6, <1>7, <1>8, <1>9, <1>10, <1>11
  DEF Next, Continue

\* A leader's view of its key survives every step.
LEMMA LeadersKept == IInv /\ [Next]_vars => LeadersSee'
<1> SUFFICES ASSUME IInv, [Next]_vars PROVE LeadersSee'
  OBVIOUS
<1> USE DEF IInv, TypeOK, LeadersSee, callVars, cacheVars
<1>1. ASSUME NEW p \in Callers, Hit(p) PROVE LeadersSee'
  BY <1>1 DEF Hit, vars
<1>2. ASSUME NEW p \in Callers, Miss(p) PROVE LeadersSee'
  BY <1>2 DEF Miss, Go
<1>3. ASSUME NEW p \in Callers, Do(p) PROVE LeadersSee'
  BY <1>3 DEF Do, Go
<1>4. ASSUME NEW p \in Callers, DoReturnsNil(p) \/ DoReturnsError(p) PROVE LeadersSee'
  BY <1>4 DEF DoReturnsNil, DoReturnsError, DoReturns, WaitersDoNotLead,
     SingleFlight, Refreshing
<1>5. ASSUME NEW p \in Callers, KeyFound(p) \/ KeyNotFound(p) \/ KeyKept(p) \/ KeyLost(p)
      PROVE  LeadersSee'
  BY <1>5 DEF KeyFound, KeyNotFound, KeyKept, KeyLost, Returns, Go
<1>6. ASSUME NEW p \in Callers, EndpointAnswers(p) PROVE LeadersSee'
  BY <1>6 DEF EndpointAnswers, Go, MissesAreSeen, SingleFlight, Refreshing
<1>7. ASSUME NEW p \in Callers, RefreshFails(p) PROVE LeadersSee'
  BY <1>7 DEF RefreshFails, Go
<1>8. ASSUME NEW p \in Callers, Install(p) PROVE LeadersSee'
  BY <1>8 DEF Install, Go, SingleFlight, Refreshing
<1>9. CASE Rotate
  BY <1>9 DEF Rotate
<1>10. CASE Tick
  BY <1>10 DEF Tick
<1>11. CASE UNCHANGED vars
  BY <1>11 DEF vars
<1> QED
  BY <1>1, <1>2, <1>3, <1>4, <1>5, <1>6, <1>7, <1>8, <1>9, <1>10, <1>11
  DEF Next, Continue

LEMMA StepIInv == IInv /\ [Next]_vars => IInv'
BY TypeKept, SingleFlightKept, ResponsesKept, MissesKept, LeadersKept DEF IInv

THEOREM Invariance == Spec => []IInv
BY InitIInv, StepIInv, PTL DEF Spec

-----------------------------------------------------------------------------
\* The cache and its backup hold RSA keys only, and what is cached is backed up,
\* whatever GetKey, refresh and the endpoint do.
THEOREM TypeCorrect == Spec => []TypeOK
<1>1. IInv => TypeOK
  BY DEF IInv
<1> QED
  BY Invariance, <1>1, PTL

\* A caller that led the refresh of its GetKey is told ErrKeyNotFound only if the
\* endpoint lacked the key at some time during its call.
THEOREM NotFoundTruth == Spec => []NotFoundIsTrue
<1>1. IInv => NotFoundIsTrue
  BY DEF IInv, LeadersSee, NotFoundIsTrue
<1> QED
  BY Invariance, <1>1, PTL

\* For any number of callers, whoever waits in sfGroup.Do waits for exactly one
\* caller that is in refresh: no follower is left behind when a leader returns.
THEOREM FollowersLed == Spec => []FollowersAreLed
<1>1. IInv => FollowersAreLed
  BY DEF IInv, SingleFlight, FollowersAreLed
<1> QED
  BY Invariance, <1>1, PTL

\* No refresh replaces the cached keys by an older response.
THEOREM NoOlderKeys == Spec => KeysNeverGoBack
<1>1. IInv /\ [Next]_vars => [asOf' >= asOf]_vars
  <2> SUFFICES ASSUME IInv, Next PROVE asOf' >= asOf
    OBVIOUS
  <2>0. asOf \in Int
    BY DEF IInv, TypeOK
  <2>1. CASE \E p \in Callers : Install(p)
    BY <2>0, <2>1 DEF IInv, TypeOK, ResponsesAreNewer, Install, Go
  <2>2. CASE ~ \E p \in Callers : Install(p)
    <3>1. asOf' = asOf
      BY <2>2 DEF Next, Continue, Hit, vars, Miss, Do, DoReturnsNil, DoReturnsError,
         DoReturns, KeyFound, KeyNotFound, KeyKept, KeyLost, Returns,
         EndpointAnswers, RefreshFails, Rotate, Tick
    <3> QED
      BY <2>0, <3>1
  <2> QED
    BY <2>1, <2>2
<1> QED
  BY Invariance, <1>1, PTL DEF Spec, KeysNeverGoBack

=============================================================================
