----------------------------- MODULE AuthProofs -----------------------------
(***************************************************************************)
(* Proofs about RBAC and Auth, for any number of callers, credentials and  *)
(* roles, any order of authenticators of different kinds and any CacheTTL, *)
(* Timeout and KeyTimeout.                                                 *)
(*                                                                         *)
(* AcceptanceIsFresh rests on how old what a request relies on can be: a   *)
(* cache entry by its age and the time of the introspection that made it,  *)
(* an answer of the endpoint by the time of its flight, and the success of *)
(* an earlier authenticator by the waits for those that came after it.     *)
(***************************************************************************)
EXTENDS Auth, TLAPS

(***************************************************************************)
(* The authorizer.  The worklist of collectRoles computes the roles        *)
(* reached by inheritance, for every configuration, whatever its cycles    *)
(* and missing roles.                                                      *)
(*                                                                         *)
(* The invariant of the loop: what was found or is still to do lies in the *)
(* closure of the roles it started from, includes those, and includes what *)
(* any found role inherits.  When nothing is left to do, the found roles   *)
(* are therefore closed, and nothing but the closure.                      *)
(***************************************************************************)

\* Configured or not, a role inherits a list of roles.
LEMMA InheritsType == \A r \in RoleNames : Inherits(r) \in RoleLists
<1> TAKE r \in RoleNames
<1>1. CASE r \in DOMAIN Config
  <2>1. Config[r] \in RoleConfig
    BY <1>1, RBACAssumption
  <2> QED BY <1>1, <2>1 DEF Inherits, RoleConfig
<1>2. CASE r \notin DOMAIN Config
  BY <1>2 DEF Inherits, NoRoles, RoleLists
<1> QED BY <1>1, <1>2

\* The names on a list are names of roles, and there are none on an empty one.
LEMMA NamesType ==
    /\ \A list : Names(list) \subseteq RoleNames
    /\ NoRoles \in RoleLists /\ Names(NoRoles) = {}
BY DEF Names, NoRoles, RoleLists

\* The closure contains the roles it is of, is closed, and lies in every closed set
\* around them.
LEMMA ClosureFacts ==
    ASSUME NEW start \in SUBSET RoleNames
    PROVE  /\ start \subseteq Closure(start)
           /\ Closure(start) \subseteq RoleNames
           /\ Closed(Closure(start))
           /\ \A S \in SUBSET RoleNames :
                start \subseteq S /\ Closed(S) => Closure(start) \subseteq S
<1>1. start \subseteq Closure(start) /\ Closure(start) \subseteq RoleNames
  BY DEF Closure
<1>2. \A S \in SUBSET RoleNames :
        start \subseteq S /\ Closed(S) => Closure(start) \subseteq S
  BY DEF Closure
<1>3. Closed(Closure(start))
  <2> SUFFICES ASSUME NEW r \in Closure(start), NEW q \in Names(Inherits(r))
               PROVE  q \in Closure(start)
    BY DEF Closed
  <2>1. q \in RoleNames
    BY NamesType
  <2>2. ASSUME NEW S \in SUBSET RoleNames, start \subseteq S, Closed(S)
        PROVE  q \in S
    <3>1. r \in S
      BY <1>2, <2>2
    <3> QED BY <3>1, <2>2 DEF Closed
  <2> QED BY <2>1, <2>2 DEF Closure
<1> QED BY <1>1, <1>2, <1>3

LEMMA StartRolesType ==
    \A x \in Subjects : StartRoles(x) \in RoleLists /\ Names(StartRoles(x)) \in SUBSET RoleNames
BY RBACAssumption, NamesType DEF StartRoles, Subjects

-----------------------------------------------------------------------------
\* The invariant of the loop in collectRoles.
Collecting(c) ==
    /\ subject[c].known
    /\ found[c] \cup Names(todo[c]) \subseteq Closure(Names(StartRoles(subject[c])))
    /\ Names(StartRoles(subject[c])) \subseteq found[c] \cup Names(todo[c])
    /\ \A r \in found[c] : Names(Inherits(r)) \subseteq found[c] \cup Names(todo[c])

RBACInv ==
    /\ RBACTypeOK
    /\ \A c \in Callers : authz[c] = "collecting" => Collecting(c)
    /\ AuthorizesByClosure

\* A caller that a step does not touch keeps what it has.
LEMMA OthersKeep ==
    ASSUME RBACInv, NEW c \in Callers, NEW d \in Callers \ {c},
           authz'[d] = authz[d], subject'[d] = subject[d], request'[d] = request[d],
           todo'[d] = todo[d], found'[d] = found[d]
    PROVE  /\ authz'[d] = "collecting" => Collecting(d)'
           /\ authz'[d] \in {"permitted", "forbidden"} =>
                (authz'[d] = "permitted" <=>
                   /\ subject'[d].known
                   /\ AnyRolePermits(Closure(Names(StartRoles(subject'[d]))), request'[d]))
BY DEF RBACInv, Collecting, AuthorizesByClosure

LEMMA InitInv == RBACInit => RBACInv
BY NamesType DEF RBACInit, RBACInv, RBACTypeOK, AuthorizesByClosure, NoSubject, Subjects

LEMMA AuthorizeInv ==
    ASSUME RBACInv, NEW c \in Callers, NEW s \in Subjects, NEW q \in Requests, Authorize(c, s, q)
    PROVE  RBACInv'
<1> USE DEF Authorize
<1>1. StartRoles(s) \in RoleLists /\ Names(StartRoles(s)) \in SUBSET RoleNames
  BY StartRolesType
<1>2. RBACTypeOK'
  BY <1>1, NamesType DEF RBACInv, RBACTypeOK
<1>3. authz'[c] = "collecting" => Collecting(c)'
  BY <1>1, ClosureFacts DEF Collecting, RBACInv, RBACTypeOK
<1>4. authz'[c] \in {"permitted", "forbidden"} => authz'[c] = "forbidden" /\ ~subject'[c].known
  BY DEF RBACInv, RBACTypeOK
<1>5. \A d \in Callers \ {c} : /\ authz'[d] = authz[d] /\ subject'[d] = subject[d]
                              /\ request'[d] = request[d] /\ todo'[d] = todo[d]
                              /\ found'[d] = found[d]
  BY DEF RBACInv, RBACTypeOK
<1> QED BY <1>2, <1>3, <1>4, <1>5, OthersKeep DEF RBACInv, AuthorizesByClosure

LEMMA CollectInv ==
    ASSUME RBACInv, NEW c \in Callers, Collect(c)
    PROVE  RBACInv'
<1> DEFINE New(r) == [x \in RoleNames |->
                        IF r \notin found[c] /\ x \notin found[c] \cup {r}
                        THEN Inherits(r)[x] ELSE 0]
<1>1. PICK r \in Names(todo[c]) :
        /\ found' = [found EXCEPT ![c] = @ \cup {r}]
        /\ todo' = [todo EXCEPT ![c] = Processed(@, r, New(r))]
  BY DEF Collect
<1>2. UNCHANGED <<authz, subject, request>> /\ authz[c] = "collecting"
  BY DEF Collect
<1>3. /\ r \in RoleNames /\ Inherits(r) \in RoleLists /\ todo[c] \in RoleLists
      /\ todo[c][r] \in Nat /\ todo[c][r] > 0
  BY <1>1, InheritsType DEF RBACInv, RBACTypeOK, Names, RoleLists
<1>4. /\ New(r) \in RoleLists
      /\ r \in found[c] => Names(New(r)) = {}
      /\ r \notin found[c] => Names(New(r)) = Names(Inherits(r)) \ (found[c] \cup {r})
  BY <1>3 DEF Names, RoleLists
<1> HIDE DEF New
<1>5. /\ Processed(todo[c], r, New(r)) \in RoleLists
      /\ Names(Processed(todo[c], r, New(r))) \subseteq Names(todo[c]) \cup Names(New(r))
      /\ (Names(todo[c]) \ {r}) \cup Names(New(r))
            \subseteq Names(Processed(todo[c], r, New(r)))
  BY <1>3, <1>4 DEF Processed, Names, RoleLists
<1>6. RBACTypeOK'
  BY <1>1, <1>2, <1>3, <1>5 DEF RBACInv, RBACTypeOK
<1>7. found'[c] = found[c] \cup {r} /\ todo'[c] = Processed(todo[c], r, New(r))
  BY <1>1 DEF RBACInv, RBACTypeOK
<1>8. Collecting(c)'
  <2> DEFINE start == Names(StartRoles(subject[c]))
  <2>1. Collecting(c) /\ start \in SUBSET RoleNames
    BY <1>2, StartRolesType DEF RBACInv, RBACTypeOK
  <2>2. r \in Closure(start) /\ Names(Inherits(r)) \subseteq Closure(start)
    BY <1>1, <2>1, ClosureFacts DEF Collecting, Closed
  <2>3. Names(New(r)) \subseteq Names(Inherits(r))
    BY <1>4
  <2>4. found'[c] \cup Names(todo'[c]) \subseteq Closure(start)
    BY <1>5, <1>7, <2>1, <2>2, <2>3 DEF Collecting
  <2>5. found[c] \cup Names(todo[c]) \subseteq found'[c] \cup Names(todo'[c])
    BY <1>5, <1>7
  <2>6. ASSUME NEW q \in found'[c]
        PROVE  Names(Inherits(q)) \subseteq found'[c] \cup Names(todo'[c])
    <3>1. CASE q \in found[c]
      BY <2>1, <2>5, <3>1 DEF Collecting
    <3>2. CASE q \notin found[c]
      BY <1>4, <1>5, <1>7, <2>6, <3>2
    <3> QED BY <3>1, <3>2
  <2>7. start \subseteq found'[c] \cup Names(todo'[c]) /\ subject[c].known
    BY <2>1, <2>5 DEF Collecting
  <2> QED BY <1>2, <2>4, <2>6, <2>7 DEF Collecting
<1>9. \A d \in Callers \ {c} : /\ authz'[d] = authz[d] /\ subject'[d] = subject[d]
                              /\ request'[d] = request[d] /\ todo'[d] = todo[d]
                              /\ found'[d] = found[d]
  BY <1>1, <1>2 DEF RBACInv, RBACTypeOK
<1> QED BY <1>2, <1>6, <1>8, <1>9, OthersKeep DEF RBACInv, AuthorizesByClosure

LEMMA DecideInv ==
    ASSUME RBACInv, NEW c \in Callers, Decide(c)
    PROVE  RBACInv'
<1> USE DEF Decide
<1>1. RBACTypeOK'
  BY DEF RBACInv, RBACTypeOK
<1>2. found[c] = Closure(Names(StartRoles(subject[c])))
  <2>1. /\ Collecting(c) /\ found[c] \in SUBSET RoleNames
        /\ Names(StartRoles(subject[c])) \in SUBSET RoleNames
    BY StartRolesType DEF RBACInv, RBACTypeOK
  <2>2. Names(StartRoles(subject[c])) \subseteq found[c] /\ Closed(found[c])
    BY <2>1 DEF Collecting, Closed
  <2> QED BY <2>1, <2>2, ClosureFacts DEF Collecting
<1>3. authz'[c] = IF AnyRolePermits(found[c], request[c]) THEN "permitted" ELSE "forbidden"
  BY DEF RBACInv, RBACTypeOK
<1>4. subject[c].known
  BY DEF RBACInv, Collecting
<1>5. \A d \in Callers \ {c} : /\ authz'[d] = authz[d] /\ subject'[d] = subject[d]
                              /\ request'[d] = request[d] /\ todo'[d] = todo[d]
                              /\ found'[d] = found[d]
  BY DEF RBACInv, RBACTypeOK
<1> QED BY <1>1, <1>2, <1>3, <1>4, <1>5, OthersKeep DEF RBACInv, AuthorizesByClosure

LEMMA ReturnInv ==
    ASSUME RBACInv, NEW c \in Callers, Return(c)
    PROVE  RBACInv'
<1> USE DEF Return
<1>1. RBACTypeOK' /\ authz'[c] = "idle"
  BY NamesType DEF RBACInv, RBACTypeOK, NoSubject, Subjects
<1>2. \A d \in Callers \ {c} : /\ authz'[d] = authz[d] /\ subject'[d] = subject[d]
                              /\ request'[d] = request[d] /\ todo'[d] = todo[d]
                              /\ found'[d] = found[d]
  BY DEF RBACInv, RBACTypeOK
<1> QED BY <1>1, <1>2, OthersKeep DEF RBACInv, AuthorizesByClosure

LEMMA NextInv == RBACInv /\ [RBACNext]_rbacVars => RBACInv'
<1> SUFFICES ASSUME RBACInv, [RBACNext]_rbacVars PROVE RBACInv'
  OBVIOUS
<1>1. ASSUME NEW c \in Callers, NEW s \in Subjects, NEW q \in Requests, Authorize(c, s, q)
      PROVE  RBACInv'
  BY <1>1, AuthorizeInv
<1>2. ASSUME NEW c \in Callers, Collect(c) PROVE RBACInv'
  BY <1>2, CollectInv
<1>3. ASSUME NEW c \in Callers, Decide(c) PROVE RBACInv'
  BY <1>3, DecideInv
<1>4. ASSUME NEW c \in Callers, Return(c) PROVE RBACInv'
  BY <1>4, ReturnInv
<1>5. CASE UNCHANGED rbacVars
  BY <1>5 DEF rbacVars, RBACInv, RBACTypeOK, Collecting, AuthorizesByClosure
<1> QED BY <1>1, <1>2, <1>3, <1>4, <1>5 DEF RBACNext

-----------------------------------------------------------------------------
LEMMA RBACInvariance == RBACSpec => []RBACInv
BY InitInv, NextInv, PTL DEF RBACSpec

\* The decisions of SimpleRBACAuthorizer.Authorize are those of the roles reached by
\* inheritance, for any number of callers and every configuration of roles.
THEOREM RolesCorrect == RBACSpec => []AuthorizesByClosure
<1>1. RBACInv => AuthorizesByClosure
  BY DEF RBACInv
<1> QED BY <1>1, RBACInvariance, PTL

-----------------------------------------------------------------------------
(***************************************************************************)
(* The authenticators.                                                     *)
(***************************************************************************)

\* The authenticators have names and places.
LEMMA Places ==
    /\ Len(Authenticators) \in Nat
    /\ DOMAIN Authenticators = 1..Len(Authenticators)
    /\ \A n \in 1..Len(Authenticators) : Authenticators[n] \in {"jwt", "api_key", "oauth2"}
BY AuthAssumption

\* The types of what a caller has.
LEMMA CallerTypes ==
    ASSUME TypeOK, NEW c \in Callers
    PROVE  /\ jwtToken[c] \in Bearers \cup {None}
           /\ bearer[c] \in Bearers \cup {None} /\ key[c] \in Keys \cup {None}
           /\ at[c] \in Nat /\ 1 <= at[c] /\ at[c] <= Len(Authenticators) + 1
           /\ held[c] \in Infos \cup {None}
           /\ flight[c] \in Nat
           /\ verdict[c] \in {None, "active", "inactive"}
           /\ first[c] \in Credentials \cup {None} /\ who[c] \in Credentials \cup {None}
           /\ faulted[c] \in BOOLEAN
<1>1. at[c] \in 1..(Len(Authenticators) + 1)
  BY DEF TypeOK
<1>2. at[c] \in Nat /\ 1 <= at[c] /\ at[c] <= Len(Authenticators) + 1
  BY <1>1, Places
<1> QED BY <1>2 DEF TypeOK

-----------------------------------------------------------------------------
(***************************************************************************)
(* How old a success can be when the turn of the authenticator at place n  *)
(* begins.                                                                 *)
(***************************************************************************)
Age(cred, n) ==
    VerdictAge(cred) + WaitBetween(cred, "jwt", n) + WaitBetween(cred, "oauth2", n)

\* Numbers.
LEMMA Numbers ==
    /\ CacheTTL \in Nat \ {0} /\ Timeout \in Nat \ {0} /\ KeyTimeout \in Nat
    /\ Gone = CacheTTL + 1
    /\ \A name : Wait(name) \in Nat
    /\ \A cred : VerdictAge(cred) \in Nat
    /\ \A cred, name, n : WaitBetween(cred, name, n) \in Nat
    /\ \A cred, n : Age(cred, n) \in Nat
    /\ \A cred : Grace(cred) \in Nat /\ Horizon(cred) = Grace(cred) + 1
<1>1. \A name : Wait(name) \in Nat
  BY AuthAssumption DEF Wait
<1>2. \A cred : VerdictAge(cred) \in Nat
  BY AuthAssumption DEF VerdictAge
<1>3. \A cred, name, n : WaitBetween(cred, name, n) \in Nat
  BY <1>1 DEF WaitBetween
<1>4. \A cred, n : Age(cred, n) \in Nat
  BY <1>2, <1>3 DEF Age
<1>5. \A cred : Grace(cred) \in Nat /\ Horizon(cred) = Grace(cred) + 1
  BY <1>2, <1>3 DEF Grace, Horizon
<1> QED BY <1>1, <1>2, <1>3, <1>4, <1>5, AuthAssumption DEF Gone

\* What Grace is, in both settings of StopOnFirst.
LEMMA GraceIsAge ==
    ASSUME NEW cred
    PROVE  Grace(cred) = IF stopOnFirst THEN VerdictAge(cred)
                         ELSE Age(cred, Len(Authenticators) + 1)
BY Numbers DEF Grace, Age

\* The wait for an authenticator is not over before it was waited for.
LEMMA WaitsAddUp ==
    ASSUME NEW cred, NEW name, NEW n \in Nat
    PROVE  WaitBetween(cred, name, n) <= WaitBetween(cred, name, n + 1)
<1>1. ASSUME NEW j \in DOMAIN Authenticators, NEW k \in DOMAIN Authenticators, j < k /\ k < n
      PROVE  j < k /\ k < n + 1
  BY <1>1, Places
<1> QED BY <1>1, Numbers DEF WaitBetween

\* A turn after the success makes it older by the wait for that turn at the most.
LEMMA TurnAges ==
    ASSUME NEW cred, NEW n \in DOMAIN Authenticators, NEW i \in DOMAIN Authenticators,
           i < n, Authenticators[i] = MethodOf(cred)
    PROVE  Age(cred, n) + Wait(Authenticators[n]) <= Age(cred, n + 1)
<1>0. n \in Nat /\ n < n + 1
  BY Places
<1>1. WaitBetween(cred, Authenticators[n], n + 1) = Wait(Authenticators[n])
  BY <1>0 DEF WaitBetween
<1>2. WaitBetween(cred, Authenticators[n], n) = 0
  <2>1. ASSUME NEW k \in DOMAIN Authenticators, k < n PROVE Authenticators[k] # Authenticators[n]
    <3>1. k # n
      BY <2>1, Places
    <3> QED BY <3>1, AuthAssumption
  <2> QED BY <2>1 DEF WaitBetween
<1>3. /\ WaitBetween(cred, "jwt", n) <= WaitBetween(cred, "jwt", n + 1)
      /\ WaitBetween(cred, "oauth2", n) <= WaitBetween(cred, "oauth2", n + 1)
  BY <1>0, WaitsAddUp
<1>4. CASE Authenticators[n] = "jwt"
  BY <1>1, <1>2, <1>3, <1>4, Numbers DEF Age
<1>5. CASE Authenticators[n] = "oauth2"
  BY <1>1, <1>2, <1>3, <1>5, Numbers DEF Age
<1>6. CASE Authenticators[n] = "api_key"
  <2>1. Wait(Authenticators[n]) = 0
    BY <1>6 DEF Wait
  <2> QED BY <1>3, <2>1, Numbers DEF Age
<1> QED BY <1>4, <1>5, <1>6, Places

LEMMA LapsedType ==
    ASSUME TypeOK
    PROVE  \A cred \in Credentials : lapsed[cred] \in Nat /\ lapsed[cred] <= Horizon(cred)
<1> TAKE cred \in Credentials
<1>1. lapsed[cred] \in 0..Horizon(cred)
  BY DEF TypeOK
<1> QED BY <1>1, Numbers

\* Nothing that can be had is None.
LEMMA NoneIsNone == None \notin Credentials /\ None \notin Bearers /\ None \notin Keys
BY AuthAssumption DEF None, Credentials

\* Where a caller is, and what it then has.
Flow(c) ==
    /\ pc[c] = "looked up" => at[c] <= Len(Authenticators) /\ Authenticators[at[c]] = "api_key"
    /\ pc[c] = "getting key" => /\ at[c] <= Len(Authenticators)
                                /\ Authenticators[at[c]] = "jwt"
                                /\ jwtToken[c] \in JWTs
                                /\ flight[c] <= KeyTimeout
    /\ pc[c] = "in flight" => /\ at[c] <= Len(Authenticators)
                              /\ Authenticators[at[c]] = "oauth2"
                              /\ bearer[c] \in Bearers
                              /\ verdict[c] = "active" => bearer[c] \in Opaque
                              /\ flight[c] <= Timeout
    /\ pc[c] \notin {"getting key", "in flight"} => flight[c] = 0
    /\ pc[c] # "in flight" => verdict[c] = None
    /\ pc[c] = "accepted" => who[c] \in Credentials
    /\ pc[c] \in {"idle", "authorizing"} => at[c] = 1 /\ first[c] = None

\* The success that a caller relies on came from an authenticator before, and is not
\* older than the waits since and the present one.
FreshFirst(c) ==
    first[c] # None =>
        /\ ~stopOnFirst
        /\ \E n \in DOMAIN Authenticators :
             n < at[c] /\ Authenticators[n] = MethodOf(first[c])
        /\ lapsed[first[c]] <= Age(first[c], at[c]) + flight[c]

\* How long the credentials that a caller relies on can have been void.
FreshSoFar(c) ==
    /\ pc[c] = "looked up" /\ held[c] \in Infos \ void => lapsed[held[c]] = 0
    /\ pc[c] = "in flight" /\ verdict[c] = "active" => lapsed[bearer[c]] <= flight[c]
    /\ FreshFirst(c)
    /\ pc[c] = "accepted" => lapsed[who[c]] <= Grace(who[c])

\* A token was refused only where it is not good.
JustAt(c, n) ==
    /\ Authenticators[n] = "jwt" => jwtToken[c] \notin JWTs \ void
    /\ Authenticators[n] = "oauth2" => bearer[c] \notin Opaque \ void

\* The places inside the turn of an authenticator.
Busy == {"trying", "getting key", "looked up", "in flight"}

JustSoFar(c) ==
    /\ pc[c] \in Busy /\ first[c] = None /\ ~faulted[c] =>
         \A n \in DOMAIN Authenticators : n < at[c] => JustAt(c, n)
    /\ pc[c] = "in flight" /\ verdict[c] = "inactive" => bearer[c] \notin Opaque \ void
    /\ pc[c] = "refused" /\ ~faulted[c] =>
         \A n \in DOMAIN Authenticators : JustAt(c, n)

CallerInv(c) == Flow(c) /\ FreshSoFar(c) /\ JustSoFar(c)

\* What is good has not lapsed, and a cache entry is never much older than its token.
WorldInv ==
    /\ \A cred \in Credentials : Good(cred) => lapsed[cred] = 0
    /\ \A b \in Opaque : cache[b] <= CacheTTL => lapsed[b] <= cache[b] + Timeout

AuthInv == TypeOK /\ RBACInv /\ WorldInv /\ \A c \in Callers : CallerInv(c)

-----------------------------------------------------------------------------
LEMMA AuthInitInv == Init => AuthInv
<1> SUFFICES ASSUME Init PROVE AuthInv
  OBVIOUS
<1> USE DEF Init
<1>1. RBACInv
  BY InitInv
<1>2. \A cred \in Credentials : Horizon(cred) \in Nat /\ Grace(cred) \in Nat
  BY Numbers
<1>3. TypeOK
  <2>1. Gone \in Nat
    BY AuthAssumption DEF Gone
  <2>2. \A cred \in Credentials : lapsed[cred] \in 0..Horizon(cred)
    BY <1>2
  <2>3. \A k \in Keys : store[k] = None
    OBVIOUS
  <2> QED BY <1>1, <2>1, <2>2, <2>3, AuthAssumption, Places
          DEF TypeOK, RBACInv, None, Bearers
<1>4. WorldInv
  <2>1. ASSUME NEW cred \in Credentials, Good(cred) PROVE lapsed[cred] = 0
    <3>1. cred \notin Infos
      <4> SUFFICES ASSUME cred \in Infos PROVE FALSE
        OBVIOUS
      <4>1. store[KeyOf[cred]] = None
        BY DEF Keys
      <4> QED BY <2>1, <4>1, AuthAssumption DEF Good, None
    <3> QED BY <3>1, <2>1
  <2>2. \A b \in Opaque : cache[b] > CacheTTL
    BY AuthAssumption DEF Gone, Bearers
  <2> QED BY <2>1, <2>2, AuthAssumption DEF WorldInv, Gone, Bearers
<1>5. ASSUME NEW c \in Callers PROVE CallerInv(c)
  BY AuthAssumption
  DEF CallerInv, Flow, FreshSoFar, FreshFirst, JustSoFar, Busy, None, Credentials, Bearers
<1> QED BY <1>1, <1>3, <1>4, <1>5 DEF AuthInv

-----------------------------------------------------------------------------
(***************************************************************************)
(* The step of a caller leaves the other callers and the world alone.      *)
(***************************************************************************)
Local(c) ==
    /\ stopOnFirst' = stopOnFirst /\ store' = store /\ void' = void /\ lapsed' = lapsed
    /\ \A d \in Callers \ {c} :
         /\ pc'[d] = pc[d] /\ jwtToken'[d] = jwtToken[d] /\ bearer'[d] = bearer[d]
         /\ at'[d] = at[d] /\ held'[d] = held[d]
         /\ flight'[d] = flight[d] /\ verdict'[d] = verdict[d] /\ first'[d] = first[d]
         /\ who'[d] = who[d] /\ faulted'[d] = faulted[d]

\* The other callers keep their part of the invariant.
LEMMA OtherCallers ==
    ASSUME AuthInv, NEW c \in Callers, Local(c), NEW d \in Callers \ {c}
    PROVE  CallerInv(d)'
<1>1. CallerInv(d)
  BY DEF AuthInv
<1>2. \A n \in DOMAIN Authenticators : JustAt(d, n)' = JustAt(d, n)
  BY DEF Local, JustAt
<1>3. FreshFirst(d)'
  BY <1>1 DEF CallerInv, FreshSoFar, FreshFirst, Local
<1>4. Flow(d)'
  BY <1>1 DEF CallerInv, Flow, Local
<1>5. FreshSoFar(d)'
  <2>1. Grace(who[d])' = Grace(who[d])
    BY DEF Local, Grace
  <2> QED BY <1>1, <1>3, <2>1 DEF CallerInv, FreshSoFar, Local
<1>6. JustSoFar(d)'
  BY <1>1, <1>2 DEF CallerInv, JustSoFar, Local
<1> QED BY <1>4, <1>5, <1>6 DEF CallerInv

\* Without a new cache entry the world is as it was.
LEMMA WorldKept ==
    ASSUME AuthInv, NEW c \in Callers, Local(c), UNCHANGED cache
    PROVE  WorldInv'
BY DEF AuthInv, WorldInv, Local, Good

\* TypeOK, split into what belongs to everybody and what belongs to the callers.
WorldTypes ==
    /\ RBACTypeOK
    /\ stopOnFirst \in BOOLEAN
    /\ store \in [Keys -> Infos \cup {None}]
    /\ \A k \in Keys : store[k] # None => KeyOf[store[k]] = k
    /\ cache \in [Bearers -> 0..Gone]
    /\ \A b \in JWTs : cache[b] = Gone
    /\ void \subseteq Credentials
    /\ DOMAIN lapsed = Credentials
    /\ \A cred \in Credentials : lapsed[cred] \in 0..Horizon(cred)

LocalTypes ==
    /\ pc \in [Callers -> {"idle", "trying", "getting key", "looked up", "in flight",
                           "accepted", "refused", "authorizing"}]
    /\ jwtToken \in [Callers -> Bearers \cup {None}]
    /\ bearer \in [Callers -> Bearers \cup {None}]
    /\ key \in [Callers -> Keys \cup {None}]
    /\ at \in [Callers -> 1..(Len(Authenticators) + 1)]
    /\ held \in [Callers -> Infos \cup {None}]
    /\ flight \in [Callers -> Nat]
    /\ verdict \in [Callers -> {None, "active", "inactive"}]
    /\ first \in [Callers -> Credentials \cup {None}]
    /\ who \in [Callers -> Credentials \cup {None}]
    /\ faulted \in [Callers -> BOOLEAN]

LEMMA TypeParts == TypeOK <=> WorldTypes /\ LocalTypes
BY DEF TypeOK, WorldTypes, LocalTypes

LEMMA TypePartsNext ==
    ASSUME WorldTypes', LocalTypes'
    PROVE  TypeOK'
BY DEF TypeOK, WorldTypes, LocalTypes

LEMMA WorldTypesKept ==
    ASSUME WorldTypes, UNCHANGED worldVars, UNCHANGED cache, RBACTypeOK'
    PROVE  WorldTypes'
<1>1. \A cred \in Credentials : Horizon(cred)' = Horizon(cred)
  BY DEF Horizon, Grace, worldVars
<1> QED BY <1>1 DEF WorldTypes, worldVars

\* What the steps of a caller have in common: if the types and the caller's own part
\* hold afterwards, the whole does.
LEMMA CallerStep ==
    ASSUME AuthInv, NEW c \in Callers, Local(c), TypeOK', RBACInv', WorldInv', CallerInv(c)'
    PROVE  AuthInv'
BY OtherCallers DEF AuthInv

\* Nothing that the authorizer looks at changes.
LEMMA RBACKept ==
    ASSUME AuthInv, UNCHANGED rbacVars
    PROVE  RBACInv'
BY NextInv DEF AuthInv

-----------------------------------------------------------------------------
(***************************************************************************)
(* The two outcomes of an authenticator.                                   *)
(***************************************************************************)

\* A turn takes no longer than its wait.
LEMMA FlightBound ==
    ASSUME TypeOK, NEW c \in Callers, Flow(c), pc[c] \in Busy, at[c] <= Len(Authenticators)
    PROVE  flight[c] <= Wait(Authenticators[at[c]])
<1>1. CASE pc[c] = "getting key"
  BY <1>1 DEF Flow, Wait
<1>2. CASE pc[c] = "in flight"
  BY <1>2 DEF Flow, Wait
<1>3. CASE pc[c] \notin {"getting key", "in flight"}
  <2>1. flight[c] = 0
    BY <1>3 DEF Flow
  <2> QED BY <2>1, Numbers
<1> QED BY <1>1, <1>2, <1>3

\* What an earlier success has aged in this turn.
LEMMA FirstAges ==
    ASSUME AuthInv, NEW c \in Callers, Local(c),
           pc[c] \in Busy, at[c] <= Len(Authenticators), first[c] # None,
           at'[c] = at[c] + 1, first'[c] = first[c], flight'[c] = 0
    PROVE  FreshFirst(c)'
<1>1. /\ TypeOK /\ Flow(c) /\ FreshFirst(c) /\ at[c] \in Nat /\ flight[c] \in Nat
      /\ at[c] \in DOMAIN Authenticators /\ first[c] \in Credentials
  <2>1. TypeOK /\ Flow(c) /\ FreshFirst(c)
    BY DEF AuthInv, CallerInv, FreshSoFar
  <2>2. /\ at[c] \in Nat /\ 1 <= at[c] /\ flight[c] \in Nat
        /\ first[c] \in Credentials \cup {None}
    BY <2>1, CallerTypes
  <2>3. at[c] \in DOMAIN Authenticators
    BY <2>2, Places
  <2> QED BY <2>1, <2>2, <2>3
<1>2. PICK n \in DOMAIN Authenticators : n < at[c] /\ Authenticators[n] = MethodOf(first[c])
  BY <1>1 DEF FreshFirst
<1>3. lapsed[first[c]] <= Age(first[c], at[c]) + flight[c] /\ lapsed[first[c]] \in Nat
  BY <1>1, LapsedType DEF FreshFirst
<1>4. flight[c] <= Wait(Authenticators[at[c]])
  BY <1>1, FlightBound
<1>5. Age(first[c], at[c]) + Wait(Authenticators[at[c]]) <= Age(first[c], at[c] + 1)
  BY <1>1, <1>2, TurnAges
<1>6. lapsed[first[c]] <= Age(first[c], at[c] + 1) + 0
  BY <1>1, <1>3, <1>4, <1>5, Numbers
<1>7. n < at[c] + 1
  BY <1>1, <1>2, Places
<1>8. ~stopOnFirst
  BY <1>1 DEF FreshFirst
<1> QED BY <1>2, <1>6, <1>7, <1>8 DEF FreshFirst, Local

\* The next authenticator has its turn, and nothing else has happened.
LEMMA NextTurn ==
    ASSUME AuthInv, NEW c \in Callers, Local(c),
           pc[c] \in Busy, at[c] <= Len(Authenticators),
           pc'[c] = "trying", at'[c] = at[c] + 1, first'[c] = first[c],
           jwtToken'[c] = jwtToken[c], bearer'[c] = bearer[c],
           flight'[c] = 0, verdict'[c] = None,
           faulted'[c] \/ JustAt(c, at[c]), faulted[c] => faulted'[c]
    PROVE  CallerInv(c)'
<1>1. /\ TypeOK /\ Flow(c) /\ FreshSoFar(c) /\ JustSoFar(c) /\ at[c] \in Nat
  BY CallerTypes DEF AuthInv, CallerInv
<1>2. Flow(c)'
  BY DEF Flow
<1>3. FreshSoFar(c)'
  <2>1. FreshFirst(c)'
    <3>1. CASE first[c] # None
      BY <3>1, FirstAges
    <3>2. CASE first[c] = None
      BY <3>2 DEF FreshFirst
    <3> QED BY <3>1, <3>2
  <2> QED BY <2>1 DEF FreshSoFar
<1>4. JustSoFar(c)'
  <2>1. \A n \in DOMAIN Authenticators : JustAt(c, n)' = JustAt(c, n)
    BY DEF JustAt, Local
  <2>2. ASSUME first'[c] = None, ~faulted'[c], NEW n \in DOMAIN Authenticators, n < at'[c]
        PROVE  JustAt(c, n)'
    <3>1. CASE n < at[c]
      BY <1>1, <2>1, <2>2, <3>1 DEF JustSoFar, Busy
    <3>2. CASE n = at[c]
      BY <2>1, <2>2, <3>2
    <3> QED BY <1>1, <2>2, <3>1, <3>2, Places
  <2> QED BY <2>2 DEF JustSoFar, None
<1> QED BY <1>2, <1>3, <1>4 DEF CallerInv

\* An authenticator succeeds with a credential that is fresh enough.
LEMMA Success ==
    ASSUME AuthInv, NEW c \in Callers, Local(c), NEW cred \in Credentials,
           pc[c] \in Busy, at[c] <= Len(Authenticators), Succeeds(c, cred),
           flight'[c] = 0, verdict'[c] = None,
           Authenticators[at[c]] = MethodOf(cred), lapsed[cred] <= VerdictAge(cred)
    PROVE  CallerInv(c)'
<1>1. /\ TypeOK /\ FreshFirst(c) /\ at[c] \in Nat /\ at[c] \in DOMAIN Authenticators
      /\ None \notin Credentials /\ lapsed'[cred] = lapsed[cred] /\ lapsed[cred] \in Nat
  <2>1. TypeOK /\ FreshFirst(c)
    BY DEF AuthInv, CallerInv, FreshSoFar
  <2>2. at[c] \in Nat /\ 1 <= at[c]
    BY <2>1, CallerTypes
  <2>3. at[c] \in DOMAIN Authenticators
    BY <2>2, Places
  <2>4. lapsed' = lapsed
    BY DEF Local
  <2> QED BY <2>1, <2>2, <2>3, <2>4, NoneIsNone, LapsedType
<1>2. CASE stopOnFirst
  <2>1. /\ pc'[c] = "accepted" /\ who'[c] = cred /\ first'[c] = first[c] /\ at'[c] = at[c]
        /\ first[c] = None
    BY <1>1, <1>2 DEF Succeeds, FreshFirst, TypeOK
  <2>2. Flow(c)' /\ JustSoFar(c)'
    BY <2>1 DEF Flow, JustSoFar, Busy
  <2>3. FreshSoFar(c)'
    <3>1. Grace(who[c])' = VerdictAge(cred)
      BY <1>2, <2>1, GraceIsAge DEF Grace, Local
    <3> QED BY <1>1, <2>1, <3>1 DEF FreshSoFar, FreshFirst
  <2> QED BY <2>2, <2>3 DEF CallerInv
<1>3. CASE ~stopOnFirst
  <2>1. /\ pc'[c] = "trying" /\ at'[c] = at[c] + 1
        /\ first'[c] = IF first[c] = None THEN cred ELSE first[c]
        /\ first'[c] # None
    BY <1>1, <1>3 DEF Succeeds, TypeOK
  <2>2. Flow(c)'
    BY <2>1 DEF Flow
  <2>3. JustSoFar(c)'
    BY <2>1 DEF JustSoFar
  <2>4. FreshFirst(c)'
    <3>1. CASE first[c] # None
      BY <2>1, <3>1, FirstAges
    <3>2. CASE first[c] = None
      <4>1. lapsed[cred] <= Age(cred, at[c] + 1) + 0
        BY <1>1, Numbers DEF Age
      <4>2. at[c] < at[c] + 1
        BY <1>1
      <4>3. first'[c] = cred /\ ~stopOnFirst'
        BY <1>3, <2>1, <3>2 DEF Local
      <4> QED BY <1>1, <2>1, <4>1, <4>2, <4>3 DEF FreshFirst
    <3> QED BY <3>1, <3>2
  <2>5. FreshSoFar(c)'
    BY <2>1, <2>4 DEF FreshSoFar
  <2> QED BY <2>2, <2>3, <2>5 DEF CallerInv
<1> QED BY <1>2, <1>3

-----------------------------------------------------------------------------
(***************************************************************************)
(* The steps of a caller.                                                  *)
(***************************************************************************)
LEMMA ArriveInv ==
    ASSUME AuthInv, NEW c \in Callers, NEW creds \in Carried[c], Arrive(c, creds)
    PROVE  AuthInv'
<1> USE DEF Arrive
<1>1. /\ creds.jwt \in Bearers \cup {None} /\ creds.bearer \in Bearers \cup {None}
      /\ creds.key \in Keys \cup {None}
  BY AuthAssumption DEF None
<1>2. RBACInv'
  BY RBACKept
<1>3. TypeOK'
  <2>1. WorldTypes'
    BY <1>2, TypeParts, WorldTypesKept DEF AuthInv, RBACInv
  <2>2. LocalTypes'
    BY <1>1, TypeParts DEF AuthInv, LocalTypes
  <2> QED BY <2>1, <2>2, TypePartsNext
<1>4. Local(c)
  BY DEF AuthInv, TypeOK, Local, worldVars
<1>5. WorldInv'
  BY <1>4, WorldKept
<1>6. CallerInv(c)'
  <2>1. /\ pc'[c] = "trying" /\ at'[c] = at[c] /\ first'[c] = first[c] /\ who'[c] = who[c]
        /\ flight'[c] = flight[c] /\ verdict'[c] = verdict[c]
    BY DEF AuthInv, TypeOK
  <2>2. pc[c] = "idle" /\ Flow(c) /\ FreshSoFar(c) /\ JustSoFar(c)
    BY DEF AuthInv, CallerInv
  <2>3. at[c] = 1 /\ first[c] = None /\ flight[c] = 0 /\ verdict[c] = None
    BY <2>2 DEF Flow
  <2>4. Flow(c)'
    BY <2>1, <2>3 DEF Flow
  <2>5. FreshSoFar(c)'
    BY <2>1, <2>3 DEF FreshSoFar, FreshFirst
  <2>6. JustSoFar(c)'
    <3>1. \A n \in DOMAIN Authenticators : ~(n < at'[c])
      BY <2>1, <2>3, Places
    <3> QED BY <2>1, <2>3, <3>1 DEF JustSoFar, None
  <2> QED BY <2>4, <2>5, <2>6 DEF CallerInv
<1> QED BY <1>2, <1>3, <1>4, <1>5, <1>6, CallerStep

\* The caller goes on to the next authenticator.
LEMMA SkipInv ==
    ASSUME AuthInv, NEW c \in Callers, Skip(c)
    PROVE  AuthInv'
<1>1. /\ pc[c] = "trying" /\ at[c] <= Len(Authenticators)
      /\ ~Supports(c, Authenticators[at[c]])
      /\ at' = [at EXCEPT ![c] = @ + 1]
      /\ UNCHANGED <<worldVars, cache, pc, requestVars, held, flight, verdict, first, who,
                     faulted, rbacVars>>
  BY DEF Skip, Trying
<1>2. RBACInv'
  BY <1>1, RBACKept
<1>3. TypeOK'
  <2>1. WorldTypes'
    BY <1>1, <1>2, TypeParts, WorldTypesKept DEF AuthInv, RBACInv
  <2>2. at[c] + 1 \in 1..(Len(Authenticators) + 1)
    BY <1>1, CallerTypes, Places DEF AuthInv
  <2>3. LocalTypes'
    BY <1>1, <2>2, TypeParts DEF AuthInv, LocalTypes, requestVars
  <2> QED BY <2>1, <2>3, TypePartsNext
<1>4. Local(c)
  BY <1>1 DEF AuthInv, TypeOK, Local, worldVars, requestVars
<1>5. WorldInv'
  BY <1>1, <1>4, WorldKept
<1>6. CallerInv(c)'
  <2>1. /\ pc'[c] = "trying" /\ at'[c] = at[c] + 1 /\ first'[c] = first[c]
        /\ jwtToken'[c] = jwtToken[c] /\ bearer'[c] = bearer[c] /\ faulted'[c] = faulted[c]
    BY <1>1 DEF AuthInv, TypeOK, requestVars
  <2>2. flight'[c] = 0 /\ verdict'[c] = None
    BY <1>1 DEF AuthInv, CallerInv, Flow
  <2>3. JustAt(c, at[c])
    BY <1>1, NoneIsNone DEF JustAt, Supports, SupportsJWT, SupportsOAuth2, Bearers
  <2>4. pc[c] \in Busy
    BY <1>1 DEF Busy
  <2> QED BY <1>1, <1>4, <2>1, <2>2, <2>3, <2>4, NextTurn
<1> QED BY <1>2, <1>3, <1>4, <1>5, <1>6, CallerStep

\* What an authenticator may do to the caller whose turn it is: nothing but to fail or
\* to succeed, and to leave neither a flight nor a verdict behind.
Ends(c) ==
    /\ UNCHANGED <<worldVars, requestVars, rbacVars>>
    /\ held' \in [Callers -> Infos \cup {None}]
    /\ flight' \in [Callers -> Nat] /\ flight'[c] = 0
    /\ verdict' \in [Callers -> {None, "active", "inactive"}] /\ verdict'[c] = None
    /\ faulted' \in [Callers -> BOOLEAN] /\ (faulted[c] => faulted'[c])
    /\ \A d \in Callers \ {c} : /\ held'[d] = held[d] /\ flight'[d] = flight[d]
                                /\ verdict'[d] = verdict[d] /\ faulted'[d] = faulted[d]

LEMMA FailsInv ==
    ASSUME AuthInv, NEW c \in Callers, pc[c] \in Busy, at[c] <= Len(Authenticators),
           Ends(c), Fails(c), UNCHANGED cache, faulted'[c] \/ JustAt(c, at[c])
    PROVE  AuthInv'
<1> USE DEF Ends, Fails
<1>1. RBACInv'
  BY RBACKept
<1>2. TypeOK'
  <2>1. WorldTypes'
    BY <1>1, TypeParts, WorldTypesKept DEF AuthInv, RBACInv
  <2>2. at[c] + 1 \in 1..(Len(Authenticators) + 1)
    BY CallerTypes, Places DEF AuthInv
  <2>3. LocalTypes'
    BY <2>2, TypeParts DEF AuthInv, LocalTypes, requestVars
  <2> QED BY <2>1, <2>3, TypePartsNext
<1>3. Local(c)
  BY DEF AuthInv, TypeOK, Local, worldVars, requestVars
<1>4. WorldInv'
  BY <1>3, WorldKept
<1>5. CallerInv(c)'
  <2>1. /\ pc'[c] = "trying" /\ at'[c] = at[c] + 1 /\ first'[c] = first[c]
        /\ jwtToken'[c] = jwtToken[c] /\ bearer'[c] = bearer[c]
    BY DEF AuthInv, TypeOK, requestVars
  <2> QED BY <1>3, <2>1, NextTurn
<1> QED BY <1>1, <1>2, <1>3, <1>4, <1>5, CallerStep

LEMMA SucceedsInv ==
    ASSUME AuthInv, NEW c \in Callers, NEW cred \in Credentials,
           pc[c] \in Busy, at[c] <= Len(Authenticators),
           Ends(c), Succeeds(c, cred), WorldTypes', WorldInv',
           Authenticators[at[c]] = MethodOf(cred), lapsed[cred] <= VerdictAge(cred)
    PROVE  AuthInv'
<1> USE DEF Ends
<1>1. RBACInv'
  BY RBACKept
<1>2. LocalTypes /\ at[c] + 1 \in 1..(Len(Authenticators) + 1)
  BY CallerTypes, Places, TypeParts DEF AuthInv
<1>2a. /\ pc' \in [Callers -> {"idle", "trying", "getting key", "looked up", "in flight",
                              "accepted", "refused", "authorizing"}]
      /\ \A d \in Callers \ {c} : pc'[d] = pc[d]
  BY <1>2 DEF Succeeds, LocalTypes
<1>2b. /\ at' \in [Callers -> 1..(Len(Authenticators) + 1)]
      /\ first' \in [Callers -> Credentials \cup {None}]
      /\ who' \in [Callers -> Credentials \cup {None}]
      /\ \A d \in Callers \ {c} : at'[d] = at[d] /\ first'[d] = first[d] /\ who'[d] = who[d]
  <2>1. CASE stopOnFirst
    <3>1. at' = at /\ first' = first /\ who' = [who EXCEPT ![c] = cred]
      BY <2>1 DEF Succeeds
    <3> QED BY <1>2, <3>1 DEF LocalTypes
  <2>2. CASE ~stopOnFirst
    <3>1. /\ at' = [at EXCEPT ![c] = at[c] + 1] /\ who' = who
          /\ first' = [first EXCEPT ![c] = IF first[c] = None THEN cred ELSE first[c]]
      BY <2>2 DEF Succeeds
    <3>2. at' \in [Callers -> 1..(Len(Authenticators) + 1)]
      BY <1>2, <3>1 DEF LocalTypes
    <3>3. first' \in [Callers -> Credentials \cup {None}]
      BY <1>2, <3>1 DEF LocalTypes
    <3> QED BY <1>2, <3>1, <3>2, <3>3 DEF LocalTypes
  <2> QED BY <2>1, <2>2
<1>3. TypeOK'
  <2>1. LocalTypes'
    BY <1>2, <1>2a, <1>2b DEF LocalTypes, requestVars
  <2> QED BY <2>1, TypePartsNext
<1>4. Local(c)
  BY <1>2a, <1>2b DEF Local, worldVars, requestVars
<1>5. CallerInv(c)'
  BY <1>4, Success
<1> QED BY <1>1, <1>3, <1>4, <1>5, CallerStep

LEMMA ParseFailsInv ==
    ASSUME AuthInv, NEW c \in Callers, ParseFails(c)
    PROVE  AuthInv'
<1>1. /\ pc[c] = "trying" /\ pc[c] \in Busy /\ at[c] <= Len(Authenticators)
      /\ Authenticators[at[c]] = "jwt" /\ jwtToken[c] \notin JWTs /\ Fails(c)
      /\ UNCHANGED <<worldVars, cache, requestVars, held, flight, verdict, faulted, rbacVars>>
  BY DEF ParseFails, Trying, Busy
<1>2. flight[c] = 0 /\ verdict[c] = None
  BY <1>1 DEF AuthInv, CallerInv, Flow
<1>3. Ends(c)
  BY <1>1, <1>2 DEF Ends, AuthInv, TypeOK
<1>4. JustAt(c, at[c])
  BY <1>1 DEF JustAt
<1> QED BY <1>1, <1>3, <1>4, FailsInv

LEMMA AskForKeyInv ==
    ASSUME AuthInv, NEW c \in Callers, AskForKey(c)
    PROVE  AuthInv'
<1>1. /\ pc[c] = "trying" /\ at[c] <= Len(Authenticators)
      /\ Authenticators[at[c]] = "jwt" /\ jwtToken[c] \in JWTs
      /\ pc' = [pc EXCEPT ![c] = "getting key"]
      /\ UNCHANGED <<worldVars, cache, requestVars, at, held, flight, verdict, first, who,
                     faulted, rbacVars>>
  BY DEF AskForKey, Trying
<1>2. RBACInv'
  BY <1>1, RBACKept
<1>3. TypeOK'
  <2>1. WorldTypes'
    BY <1>1, <1>2, TypeParts, WorldTypesKept DEF AuthInv, RBACInv
  <2>2. LocalTypes'
    BY <1>1, TypeParts DEF AuthInv, LocalTypes, requestVars
  <2> QED BY <2>1, <2>2, TypePartsNext
<1>4. Local(c)
  BY <1>1 DEF AuthInv, TypeOK, Local, worldVars, requestVars
<1>5. WorldInv'
  BY <1>1, <1>4, WorldKept
<1>6. CallerInv(c)'
  <2>1. pc'[c] = "getting key"
    BY <1>1 DEF AuthInv, TypeOK
  <2>2. /\ Flow(c) /\ FreshSoFar(c) /\ JustSoFar(c) /\ verdict[c] = None
        /\ flight[c] = 0 /\ flight[c] <= KeyTimeout
    <3>1. Flow(c) /\ FreshSoFar(c) /\ JustSoFar(c) /\ pc[c] = "trying"
      BY <1>1 DEF AuthInv, CallerInv, Trying
    <3>2. flight[c] = 0 /\ verdict[c] = None
      BY <3>1 DEF Flow
    <3> QED BY <3>1, <3>2, Numbers
  <2>3. Flow(c)'
    BY <1>1, <2>1, <2>2 DEF Flow, requestVars
  <2>4. FreshSoFar(c)'
    BY <1>1, <2>1, <2>2 DEF FreshSoFar, FreshFirst, worldVars
  <2>5. JustSoFar(c)'
    <3>1. \A n \in DOMAIN Authenticators : JustAt(c, n)' = JustAt(c, n)
      BY <1>1 DEF JustAt, worldVars, requestVars
    <3> QED BY <1>1, <2>1, <2>2, <3>1 DEF JustSoFar, Busy
  <2> QED BY <2>3, <2>4, <2>5 DEF CallerInv
<1> QED BY <1>2, <1>3, <1>4, <1>5, <1>6, CallerStep

\* Whatever the key provider answers ends the turn of JWT.
LEMMA KeyAnswered ==
    ASSUME AuthInv, NEW c \in Callers, pc[c] = "getting key",
           flight' = [flight EXCEPT ![c] = 0],
           faulted' \in {faulted, [faulted EXCEPT ![c] = TRUE]},
           UNCHANGED <<worldVars, cache, requestVars, held, verdict, rbacVars>>
    PROVE  /\ pc[c] \in Busy /\ at[c] <= Len(Authenticators) /\ Ends(c)
           /\ Authenticators[at[c]] = "jwt" /\ jwtToken[c] \in JWTs
<1>1. /\ at[c] <= Len(Authenticators) /\ Authenticators[at[c]] = "jwt"
      /\ jwtToken[c] \in JWTs /\ verdict[c] = None
  BY DEF AuthInv, CallerInv, Flow
<1>2. /\ faulted' \in [Callers -> BOOLEAN] /\ (faulted[c] => faulted'[c])
      /\ \A d \in Callers \ {c} : faulted'[d] = faulted[d]
  BY DEF AuthInv, TypeOK
<1>3. /\ flight' \in [Callers -> Nat] /\ flight'[c] = 0
      /\ \A d \in Callers \ {c} : flight'[d] = flight[d]
  BY DEF AuthInv, TypeOK
<1>4. Ends(c)
  BY <1>1, <1>2, <1>3 DEF Ends, AuthInv, TypeOK
<1> QED BY <1>1, <1>4 DEF Busy

LEMMA VerifyJWTInv ==
    ASSUME AuthInv, NEW c \in Callers, VerifyJWT(c)
    PROVE  AuthInv'
<1>1. /\ pc[c] = "getting key" /\ flight' = [flight EXCEPT ![c] = 0] /\ faulted' = faulted
      /\ UNCHANGED <<worldVars, cache, requestVars, held, verdict, rbacVars>>
  BY DEF VerifyJWT
<1>2. /\ pc[c] \in Busy /\ at[c] <= Len(Authenticators) /\ Ends(c)
      /\ Authenticators[at[c]] = "jwt" /\ jwtToken[c] \in JWTs
  BY <1>1, KeyAnswered
<1>3. CASE jwtToken[c] \notin void /\ Succeeds(c, jwtToken[c])
  <2>1. /\ jwtToken[c] \in Credentials /\ jwtToken[c] \notin Opaque
        /\ jwtToken[c] \notin Infos /\ MethodOf(jwtToken[c]) = "jwt"
    BY <1>2, AuthAssumption DEF Credentials, Bearers, MethodOf
  <2>2. lapsed[jwtToken[c]] <= VerdictAge(jwtToken[c])
    <3>1. lapsed[jwtToken[c]] = 0
      BY <1>3, <2>1 DEF AuthInv, WorldInv, Good
    <3> QED BY <3>1, Numbers
  <2>3. WorldTypes'
    BY <1>1, TypeParts, WorldTypesKept, RBACKept DEF AuthInv, RBACInv
  <2>4. WorldInv'
    BY <1>1 DEF AuthInv, WorldInv, Good, worldVars
  <2> QED BY <1>2, <1>3, <2>1, <2>2, <2>3, <2>4, SucceedsInv
<1>4. CASE jwtToken[c] \in void /\ Fails(c)
  <2>1. JustAt(c, at[c])
    BY <1>2, <1>4 DEF JustAt
  <2> QED BY <1>1, <1>2, <1>4, <2>1, FailsInv
<1> QED BY <1>3, <1>4 DEF VerifyJWT

LEMMA KeyProviderFailsInv ==
    ASSUME AuthInv, NEW c \in Callers, KeyProviderFails(c)
    PROVE  AuthInv'
<1>1. /\ pc[c] = "getting key" /\ flight' = [flight EXCEPT ![c] = 0] /\ Fails(c)
      /\ faulted' = [faulted EXCEPT ![c] = TRUE]
      /\ UNCHANGED <<worldVars, cache, requestVars, held, verdict, rbacVars>>
  BY DEF KeyProviderFails
<1>2. pc[c] \in Busy /\ at[c] <= Len(Authenticators) /\ Ends(c)
  BY <1>1, KeyAnswered
<1>3. faulted'[c]
  BY <1>1 DEF AuthInv, TypeOK
<1> QED BY <1>1, <1>2, <1>3, FailsInv

LEMMA LookupKeyInv ==
    ASSUME AuthInv, NEW c \in Callers, LookupKey(c)
    PROVE  AuthInv'
<1>1. /\ pc[c] = "trying" /\ at[c] <= Len(Authenticators)
      /\ Authenticators[at[c]] = "api_key" /\ key[c] # None
      /\ pc' = [pc EXCEPT ![c] = "looked up"]
      /\ held' = [held EXCEPT ![c] = store[key[c]]]
      /\ UNCHANGED <<worldVars, cache, requestVars, at, flight, verdict, first, who, faulted,
                     rbacVars>>
  BY DEF LookupKey, Trying, SupportsKey
<1>2. RBACInv'
  BY <1>1, RBACKept
<1>3. key[c] \in Keys /\ store[key[c]] \in Infos \cup {None}
  BY <1>1, CallerTypes DEF AuthInv, TypeOK
<1>4. TypeOK'
  <2>1. WorldTypes'
    BY <1>1, <1>2, TypeParts, WorldTypesKept DEF AuthInv, RBACInv
  <2>2. LocalTypes'
    BY <1>1, <1>3, TypeParts DEF AuthInv, LocalTypes, requestVars
  <2> QED BY <2>1, <2>2, TypePartsNext
<1>5. Local(c)
  BY <1>1 DEF AuthInv, TypeOK, Local, worldVars, requestVars
<1>6. WorldInv'
  BY <1>1, <1>5, WorldKept
<1>7. CallerInv(c)'
  <2>1. pc'[c] = "looked up" /\ held'[c] = store[key[c]]
    BY <1>1 DEF AuthInv, TypeOK
  <2>2. Flow(c) /\ FreshSoFar(c) /\ JustSoFar(c)
    BY DEF AuthInv, CallerInv
  <2>3. Flow(c)'
    BY <1>1, <2>1, <2>2 DEF Flow
  <2>4. ASSUME held'[c] \in Infos \ void PROVE lapsed[held'[c]] = 0
    <3>1. KeyOf[held'[c]] = key[c] /\ held'[c] \in Credentials
      BY <1>3, <2>1, <2>4, NoneIsNone DEF AuthInv, TypeOK, Credentials
    <3> QED BY <2>1, <2>4, <3>1 DEF AuthInv, WorldInv, Good
  <2>5. FreshSoFar(c)'
    BY <1>1, <2>1, <2>2, <2>4 DEF FreshSoFar, FreshFirst, worldVars
  <2>6. JustSoFar(c)'
    <3>1. \A n \in DOMAIN Authenticators : JustAt(c, n)' = JustAt(c, n)
      BY <1>1 DEF JustAt, worldVars, requestVars
    <3> QED BY <1>1, <2>1, <2>2, <3>1 DEF JustSoFar, Busy
  <2> QED BY <2>3, <2>5, <2>6 DEF CallerInv
<1> QED BY <1>2, <1>4, <1>5, <1>6, <1>7, CallerStep

LEMMA CheckKeyInv ==
    ASSUME AuthInv, NEW c \in Callers, CheckKey(c)
    PROVE  AuthInv'
<1>1. /\ pc[c] = "looked up" /\ pc[c] \in Busy
      /\ held' = [held EXCEPT ![c] = None]
      /\ UNCHANGED <<worldVars, cache, requestVars, flight, verdict, faulted, rbacVars>>
  BY DEF CheckKey, Busy
<1>2. /\ at[c] <= Len(Authenticators) /\ Authenticators[at[c]] = "api_key"
      /\ flight[c] = 0 /\ verdict[c] = None
  BY <1>1 DEF AuthInv, CallerInv, Flow
<1>3. Ends(c)
  BY <1>1, <1>2 DEF Ends, AuthInv, TypeOK
<1>4. CASE Fails(c)
  <2>1. JustAt(c, at[c])
    BY <1>2 DEF JustAt
  <2> QED BY <1>1, <1>2, <1>3, <1>4, <2>1, FailsInv
<1>5. CASE held[c] # None /\ held[c] \notin void /\ Succeeds(c, held[c])
  <2>1. held[c] \in Infos /\ held[c] \in Credentials /\ MethodOf(held[c]) = "api_key"
    BY <1>5, CallerTypes, AuthAssumption DEF AuthInv, Credentials, Bearers, MethodOf
  <2>2. lapsed[held[c]] <= VerdictAge(held[c])
    <3>1. lapsed[held[c]] = 0
      BY <1>1, <1>5, <2>1 DEF AuthInv, CallerInv, FreshSoFar
    <3> QED BY <3>1, Numbers
  <2>3. WorldTypes'
    BY <1>1, TypeParts, WorldTypesKept, RBACKept DEF AuthInv, RBACInv
  <2>4. WorldInv'
    BY <1>1 DEF AuthInv, WorldInv, Good, worldVars
  <2> QED BY <1>1, <1>2, <1>3, <1>5, <2>1, <2>2, <2>3, <2>4, SucceedsInv
<1> QED BY <1>4, <1>5 DEF CheckKey

LEMMA CacheHitInv ==
    ASSUME AuthInv, NEW c \in Callers, CacheHit(c)
    PROVE  AuthInv'
<1>1. /\ pc[c] = "trying" /\ pc[c] \in Busy /\ at[c] <= Len(Authenticators)
      /\ Authenticators[at[c]] = "oauth2" /\ bearer[c] # None
      /\ cache[bearer[c]] <= CacheTTL /\ Succeeds(c, bearer[c])
      /\ UNCHANGED <<worldVars, cache, requestVars, held, flight, verdict, faulted, rbacVars>>
  BY DEF CacheHit, Trying, SupportsOAuth2, Busy
<1>2. flight[c] = 0 /\ verdict[c] = None
  BY <1>1 DEF AuthInv, CallerInv, Flow
<1>3. Ends(c)
  BY <1>1, <1>2 DEF Ends, AuthInv, TypeOK
<1>4. bearer[c] \in Bearers /\ cache[bearer[c]] \in Nat
  <2>1. bearer[c] \in Bearers
    BY <1>1, CallerTypes DEF AuthInv
  <2>2. cache[bearer[c]] \in 0..Gone
    BY <2>1 DEF AuthInv, TypeOK
  <2> QED BY <2>1, <2>2, Numbers
<1>5. bearer[c] \in Opaque
  <2>1. bearer[c] \in JWTs => cache[bearer[c]] = Gone
    BY DEF AuthInv, TypeOK
  <2>2. bearer[c] \notin JWTs
    BY <1>1, <2>1, Numbers
  <2> QED BY <1>4, <2>2 DEF Bearers
<1>6. lapsed[bearer[c]] <= VerdictAge(bearer[c]) /\ MethodOf(bearer[c]) = "oauth2"
  <2>1. lapsed[bearer[c]] \in Nat /\ bearer[c] \in Credentials
    BY <1>4, LapsedType DEF AuthInv, Credentials
  <2>2. lapsed[bearer[c]] <= cache[bearer[c]] + Timeout
    BY <1>1, <1>5 DEF AuthInv, WorldInv
  <2>3. lapsed[bearer[c]] <= CacheTTL + Timeout
    BY <1>1, <1>4, <2>1, <2>2, Numbers
  <2>4. VerdictAge(bearer[c]) = CacheTTL + Timeout
    BY <1>5 DEF VerdictAge
  <2>5. MethodOf(bearer[c]) = "oauth2"
    BY <1>5, AuthAssumption DEF MethodOf
  <2> QED BY <2>3, <2>4, <2>5
<1>7. WorldTypes' /\ WorldInv'
  <2>1. WorldTypes'
    BY <1>1, TypeParts, WorldTypesKept, RBACKept DEF AuthInv, RBACInv
  <2>2. WorldInv'
    BY <1>1 DEF AuthInv, WorldInv, Good, worldVars
  <2> QED BY <2>1, <2>2
<1>8. bearer[c] \in Credentials
  BY <1>4 DEF Credentials
<1> QED BY <1>1, <1>3, <1>5, <1>6, <1>7, <1>8, SucceedsInv

LEMMA IntrospectInv ==
    ASSUME AuthInv, NEW c \in Callers, Introspect(c)
    PROVE  AuthInv'
<1>1. /\ pc[c] = "trying" /\ at[c] <= Len(Authenticators)
      /\ Authenticators[at[c]] = "oauth2" /\ bearer[c] # None
      /\ pc' = [pc EXCEPT ![c] = "in flight"]
      /\ UNCHANGED <<worldVars, cache, requestVars, at, held, flight, verdict, first, who,
                     faulted, rbacVars>>
  BY DEF Introspect, Trying, SupportsOAuth2
<1>2. RBACInv'
  BY <1>1, RBACKept
<1>3. TypeOK'
  <2>1. WorldTypes'
    BY <1>1, <1>2, TypeParts, WorldTypesKept DEF AuthInv, RBACInv
  <2>2. LocalTypes'
    BY <1>1, TypeParts DEF AuthInv, LocalTypes, requestVars
  <2> QED BY <2>1, <2>2, TypePartsNext
<1>4. Local(c)
  BY <1>1 DEF AuthInv, TypeOK, Local, worldVars, requestVars
<1>5. WorldInv'
  BY <1>1, <1>4, WorldKept
<1>6. CallerInv(c)'
  <2>1. pc'[c] = "in flight" /\ bearer'[c] = bearer[c] /\ bearer[c] \in Bearers
    BY <1>1, CallerTypes DEF AuthInv, TypeOK, requestVars
  <2>2. /\ Flow(c) /\ FreshSoFar(c) /\ JustSoFar(c) /\ verdict[c] = None
        /\ flight[c] = 0 /\ flight[c] <= Timeout
    <3>1. Flow(c) /\ FreshSoFar(c) /\ JustSoFar(c) /\ pc[c] = "trying"
      BY <1>1 DEF AuthInv, CallerInv, Trying
    <3>2. flight[c] = 0 /\ verdict[c] = None
      BY <3>1 DEF Flow
    <3> QED BY <3>1, <3>2, Numbers
  <2>3. Flow(c)'
    BY <1>1, <2>1, <2>2 DEF Flow, None
  <2>4. FreshSoFar(c)'
    BY <1>1, <2>1, <2>2 DEF FreshSoFar, FreshFirst, worldVars, None
  <2>5. JustSoFar(c)'
    <3>1. \A n \in DOMAIN Authenticators : JustAt(c, n)' = JustAt(c, n)
      BY <1>1 DEF JustAt, worldVars, requestVars
    <3> QED BY <1>1, <2>1, <2>2, <3>1 DEF JustSoFar, Busy, None
  <2> QED BY <2>3, <2>4, <2>5 DEF CallerInv
<1> QED BY <1>2, <1>3, <1>4, <1>5, <1>6, CallerStep

LEMMA EndpointDecidesInv ==
    ASSUME AuthInv, NEW c \in Callers, EndpointDecides(c)
    PROVE  AuthInv'
<1>1. /\ pc[c] = "in flight"
      /\ verdict' = [verdict EXCEPT ![c] =
                       IF bearer[c] \in Opaque \ void THEN "active" ELSE "inactive"]
      /\ UNCHANGED <<worldVars, cache, pc, requestVars, at, held, flight, first, who, faulted,
                     rbacVars>>
  BY DEF EndpointDecides
<1>2. RBACInv'
  BY <1>1, RBACKept
<1>3. TypeOK'
  <2>1. WorldTypes'
    BY <1>1, <1>2, TypeParts, WorldTypesKept DEF AuthInv, RBACInv
  <2>2. LocalTypes'
    BY <1>1, TypeParts DEF AuthInv, LocalTypes, requestVars
  <2> QED BY <2>1, <2>2, TypePartsNext
<1>4. Local(c)
  BY <1>1 DEF AuthInv, TypeOK, Local, worldVars, requestVars
<1>5. WorldInv'
  BY <1>1, <1>4, WorldKept
<1>6. CallerInv(c)'
  <2>1. /\ verdict'[c] = IF bearer[c] \in Opaque \ void THEN "active" ELSE "inactive"
        /\ bearer'[c] = bearer[c] /\ void' = void /\ lapsed' = lapsed
        /\ stopOnFirst' = stopOnFirst
    BY <1>1 DEF AuthInv, TypeOK, requestVars, worldVars
  <2>2. Flow(c) /\ FreshSoFar(c) /\ JustSoFar(c)
    BY DEF AuthInv, CallerInv
  <2>3. Flow(c)'
    <3>1. /\ at[c] <= Len(Authenticators) /\ Authenticators[at[c]] = "oauth2"
          /\ bearer[c] \in Bearers /\ flight[c] <= Timeout /\ flight' = flight
      BY <1>1, <2>2 DEF Flow
    <3>2. verdict'[c] = "active" => bearer'[c] \in Opaque
      BY <2>1
    <3>3. pc'[c] = "in flight" /\ at'[c] = at[c]
      BY <1>1
    <3> QED BY <2>1, <3>1, <3>2, <3>3 DEF Flow
  <2>4. verdict'[c] = "active" => lapsed[bearer[c]] <= flight[c]
    <3> SUFFICES ASSUME verdict'[c] = "active" PROVE lapsed[bearer[c]] <= flight[c]
      OBVIOUS
    <3>1. /\ bearer[c] \in Opaque \ void /\ bearer[c] \in Credentials
          /\ bearer[c] \notin Infos
      BY <2>1, AuthAssumption DEF Credentials, Bearers
    <3>2. lapsed[bearer[c]] = 0
      BY <3>1 DEF AuthInv, WorldInv, Good
    <3> QED BY <3>2, CallerTypes DEF AuthInv
  <2>5. FreshSoFar(c)'
    BY <1>1, <2>1, <2>2, <2>4 DEF FreshSoFar, FreshFirst
  <2>6. JustSoFar(c)'
    <3>1. \A n \in DOMAIN Authenticators : JustAt(c, n)' = JustAt(c, n)
      BY <1>1, <2>1 DEF JustAt, requestVars
    <3>2. verdict'[c] = "inactive" => bearer'[c] \notin Opaque \ void'
      BY <2>1
    <3>3. /\ pc'[c] = "in flight" /\ at'[c] = at[c] /\ first'[c] = first[c]
          /\ faulted'[c] = faulted[c]
      BY <1>1
    <3> QED BY <1>1, <2>2, <3>1, <3>2, <3>3 DEF JustSoFar, Busy
  <2> QED BY <2>3, <2>5, <2>6 DEF CallerInv
<1> QED BY <1>2, <1>3, <1>4, <1>5, <1>6, CallerStep

LEMMA ResponseInv ==
    ASSUME AuthInv, NEW c \in Callers, Response(c)
    PROVE  AuthInv'
<1>1. /\ pc[c] = "in flight" /\ pc[c] \in Busy
      /\ flight' = [flight EXCEPT ![c] = 0] /\ verdict' = [verdict EXCEPT ![c] = None]
      /\ UNCHANGED <<worldVars, requestVars, held, faulted, rbacVars>>
  BY DEF Response, Busy
<1>2. /\ at[c] <= Len(Authenticators) /\ Authenticators[at[c]] = "oauth2"
      /\ bearer[c] \in Bearers
  BY <1>1 DEF AuthInv, CallerInv, Flow
<1>3. Ends(c)
  BY <1>1 DEF Ends, AuthInv, TypeOK
<1>4. CASE verdict[c] # "active"
  <2>1. verdict[c] = "inactive" /\ Fails(c) /\ UNCHANGED cache
    BY <1>4, CallerTypes DEF Response, AuthInv
  <2>2. JustAt(c, at[c])
    BY <1>1, <1>2, <2>1 DEF JustAt, AuthInv, CallerInv, JustSoFar
  <2> QED BY <1>1, <1>2, <1>3, <2>1, <2>2, FailsInv
<1>5. CASE verdict[c] = "active"
  <2>1. cache' = [cache EXCEPT ![bearer[c]] = 0] /\ Succeeds(c, bearer[c])
    BY <1>5 DEF Response
  <2>2. /\ bearer[c] \in Opaque /\ bearer[c] \in Credentials /\ bearer[c] \notin JWTs
        /\ lapsed[bearer[c]] <= flight[c]
    BY <1>1, <1>2, <1>5, AuthAssumption
    DEF AuthInv, CallerInv, Flow, FreshSoFar, Credentials, Bearers
  <2>3. /\ lapsed[bearer[c]] <= Timeout /\ lapsed[bearer[c]] <= VerdictAge(bearer[c])
        /\ MethodOf(bearer[c]) = "oauth2"
    <3>1. flight[c] <= Timeout /\ flight[c] \in Nat /\ lapsed[bearer[c]] \in Nat
      BY <1>1, <2>2, LapsedType, CallerTypes DEF AuthInv, CallerInv, Flow
    <3>2. lapsed[bearer[c]] <= Timeout /\ lapsed[bearer[c]] <= CacheTTL + Timeout
      BY <2>2, <3>1, Numbers
    <3> QED BY <2>2, <3>2 DEF VerdictAge, MethodOf
  <2>4. WorldTypes'
    <3>1. RBACTypeOK'
      BY <1>1, RBACKept DEF RBACInv
    <3>2. \A cred \in Credentials : Horizon(cred)' = Horizon(cred)
      BY <1>1 DEF Horizon, Grace, worldVars
    <3>3. 0 \in 0..Gone
      BY Numbers
    <3>4. cache' \in [Bearers -> 0..Gone] /\ \A b \in JWTs : cache'[b] = Gone
      BY <2>1, <2>2, <3>3 DEF AuthInv, TypeOK, Bearers
    <3> QED BY <1>1, <3>1, <3>2, <3>4, TypeParts DEF AuthInv, WorldTypes, worldVars
  <2>5. WorldInv'
    <3>1. \A cred \in Credentials : Good(cred)' => lapsed'[cred] = 0
      BY <1>1 DEF AuthInv, WorldInv, Good, worldVars
    <3>2. ASSUME NEW b \in Opaque, cache'[b] <= CacheTTL
          PROVE  lapsed'[b] <= cache'[b] + Timeout
      <4>1. CASE b = bearer[c]
        <5>1. cache'[b] = 0
          BY <1>2, <2>1, <4>1 DEF AuthInv, TypeOK
        <5>2. lapsed'[b] = lapsed[bearer[c]]
          BY <1>1, <4>1 DEF worldVars
        <5>3. 0 + Timeout = Timeout
          BY Numbers
        <5> QED BY <2>3, <5>1, <5>2, <5>3
      <4>2. CASE b # bearer[c]
        <5>1. cache'[b] = cache[b]
          BY <2>1, <4>2 DEF AuthInv, TypeOK, Bearers
        <5> QED BY <1>1, <3>2, <5>1 DEF AuthInv, WorldInv, worldVars
      <4> QED BY <4>1, <4>2
    <3> QED BY <3>1, <3>2 DEF WorldInv
  <2> QED BY <1>1, <1>2, <1>3, <2>1, <2>2, <2>3, <2>4, <2>5, SucceedsInv
<1> QED BY <1>4, <1>5

\* Authenticate has returned, and nothing of the request is left.
LEMMA Released ==
    ASSUME NEW c \in Callers, pc'[c] \in {"idle", "authorizing"}, at'[c] = 1,
           first'[c] = None, flight'[c] = 0, verdict'[c] = None
    PROVE  CallerInv(c)'
<1>1. Flow(c)'
  BY DEF Flow
<1>2. FreshSoFar(c)'
  BY DEF FreshSoFar, FreshFirst
<1>3. JustSoFar(c)'
  BY DEF JustSoFar, Busy
<1> QED BY <1>1, <1>2, <1>3 DEF CallerInv

\* What Forget does to the types.
LEMMA ForgetTypes ==
    ASSUME AuthInv, NEW c \in Callers, Forget(c)
    PROVE  /\ jwtToken' \in [Callers -> Bearers \cup {None}]
           /\ bearer' \in [Callers -> Bearers \cup {None}]
           /\ key' \in [Callers -> Keys \cup {None}]
           /\ at' \in [Callers -> 1..(Len(Authenticators) + 1)]
           /\ first' \in [Callers -> Credentials \cup {None}]
           /\ who' \in [Callers -> Credentials \cup {None}]
           /\ faulted' \in [Callers -> BOOLEAN]
           /\ at'[c] = 1 /\ first'[c] = None
           /\ \A d \in Callers \ {c} :
                /\ jwtToken'[d] = jwtToken[d] /\ bearer'[d] = bearer[d]
                /\ at'[d] = at[d] /\ first'[d] = first[d]
                /\ who'[d] = who[d] /\ faulted'[d] = faulted[d]
<1>1. 1 \in 1..(Len(Authenticators) + 1)
  BY Places
<1>2. at' \in [Callers -> 1..(Len(Authenticators) + 1)] /\ at'[c] = 1
  BY <1>1 DEF AuthInv, TypeOK, Forget
<1>3. /\ jwtToken' \in [Callers -> Bearers \cup {None}]
      /\ bearer' \in [Callers -> Bearers \cup {None}] /\ key' \in [Callers -> Keys \cup {None}]
      /\ first' \in [Callers -> Credentials \cup {None}]
      /\ who' \in [Callers -> Credentials \cup {None}]
      /\ faulted' \in [Callers -> BOOLEAN]
  BY DEF AuthInv, TypeOK, Forget
<1>4. first'[c] = None
  BY DEF AuthInv, TypeOK, Forget
<1>5. \A d \in Callers \ {c} :
        /\ jwtToken'[d] = jwtToken[d] /\ bearer'[d] = bearer[d]
        /\ at'[d] = at[d] /\ first'[d] = first[d]
        /\ who'[d] = who[d] /\ faulted'[d] = faulted[d]
  BY DEF AuthInv, TypeOK, Forget
<1> QED BY <1>2, <1>3, <1>4, <1>5

LEMMA IntrospectionFailsInv ==
    ASSUME AuthInv, NEW c \in Callers, IntrospectionFails(c)
    PROVE  AuthInv'
<1>1. /\ pc' = [pc EXCEPT ![c] = "idle"] /\ flight' = [flight EXCEPT ![c] = 0]
      /\ verdict' = [verdict EXCEPT ![c] = None] /\ Forget(c)
      /\ UNCHANGED <<worldVars, cache, held, rbacVars>>
  BY DEF IntrospectionFails
<1>2. RBACInv'
  BY <1>1, RBACKept
<1>3. TypeOK'
  <2>1. WorldTypes'
    BY <1>1, <1>2, TypeParts, WorldTypesKept DEF AuthInv, RBACInv
  <2>2. LocalTypes'
    BY <1>1, TypeParts, ForgetTypes DEF AuthInv, LocalTypes
  <2> QED BY <2>1, <2>2, TypePartsNext
<1>4. Local(c)
  BY <1>1, ForgetTypes DEF AuthInv, TypeOK, Local, worldVars
<1>5. WorldInv'
  BY <1>1, <1>4, WorldKept
<1>6. pc'[c] = "idle" /\ flight'[c] = 0 /\ verdict'[c] = None
  BY <1>1 DEF AuthInv, TypeOK
<1>7. CallerInv(c)'
  BY <1>1, <1>6, ForgetTypes, Released
<1> QED BY <1>2, <1>3, <1>4, <1>5, <1>7, CallerStep

LEMMA FinishInv ==
    ASSUME AuthInv, NEW c \in Callers, Finish(c)
    PROVE  AuthInv'
<1>1. /\ pc[c] = "trying" /\ at[c] > Len(Authenticators)
      /\ pc' = [pc EXCEPT ![c] = IF first[c] # None THEN "accepted" ELSE "refused"]
      /\ who' = [who EXCEPT ![c] = first[c]]
      /\ UNCHANGED <<worldVars, cache, requestVars, at, held, flight, verdict, first, faulted,
                     rbacVars>>
  BY DEF Finish
<1>2. RBACInv'
  BY <1>1, RBACKept
<1>3. TypeOK'
  <2>1. WorldTypes'
    BY <1>1, <1>2, TypeParts, WorldTypesKept DEF AuthInv, RBACInv
  <2>2. LocalTypes'
    BY <1>1, TypeParts, CallerTypes DEF AuthInv, LocalTypes, requestVars
  <2> QED BY <2>1, <2>2, TypePartsNext
<1>4. Local(c)
  BY <1>1 DEF AuthInv, TypeOK, Local, worldVars, requestVars
<1>5. WorldInv'
  BY <1>1, <1>4, WorldKept
<1>6. CallerInv(c)'
  <2>1. /\ pc'[c] \in {"accepted", "refused"} /\ who'[c] = first[c]
        /\ pc'[c] = "accepted" => first[c] # None
        /\ pc'[c] = "refused" => first[c] = None
        /\ at'[c] = at[c] /\ first'[c] = first[c] /\ faulted'[c] = faulted[c]
        /\ flight'[c] = flight[c] /\ verdict'[c] = verdict[c] /\ lapsed' = lapsed
        /\ stopOnFirst' = stopOnFirst
    BY <1>1 DEF AuthInv, TypeOK, worldVars
  <2>2. Flow(c) /\ FreshSoFar(c) /\ JustSoFar(c)
    BY DEF AuthInv, CallerInv
  <2>3. Flow(c)'
    <3>1. first[c] # None => first[c] \in Credentials
      BY CallerTypes DEF AuthInv
    <3>2. flight[c] = 0 /\ verdict[c] = None
      BY <1>1, <2>2 DEF Flow
    <3> QED BY <2>1, <3>1, <3>2 DEF Flow
  <2>4. FreshSoFar(c)'
    <3>1. FreshFirst(c)'
      BY <2>1, <2>2 DEF FreshSoFar, FreshFirst
    <3>2. ASSUME first[c] # None PROVE lapsed[first[c]] <= Grace(first[c])
      <4>1. at[c] = Len(Authenticators) + 1
        BY <1>1, Places, CallerTypes DEF AuthInv
      <4>2. flight[c] = 0 /\ ~stopOnFirst /\ lapsed[first[c]] <= Age(first[c], at[c]) + 0
        BY <1>1, <2>2, <3>2 DEF Flow, FreshSoFar, FreshFirst
      <4>3. lapsed[first[c]] \in Nat
        BY <3>2, LapsedType, CallerTypes DEF AuthInv
      <4> QED BY <4>1, <4>2, <4>3, GraceIsAge, Numbers
    <3>3. Grace(who[c])' = Grace(first[c])
      BY <2>1 DEF Grace
    <3>4. pc'[c] = "accepted" => lapsed'[who'[c]] <= Grace(who[c])'
      BY <2>1, <3>2, <3>3
    <3> QED BY <2>1, <2>2, <3>1, <3>4 DEF FreshSoFar
  <2>5. JustSoFar(c)'
    <3>1. \A n \in DOMAIN Authenticators : JustAt(c, n)' = JustAt(c, n)
      BY <1>1 DEF JustAt, worldVars, requestVars
    <3>2. \A n \in DOMAIN Authenticators : n < at[c]
      BY <1>1, Places, CallerTypes DEF AuthInv
    <3>3. first[c] = None /\ ~faulted[c] => \A n \in DOMAIN Authenticators : JustAt(c, n)
      BY <1>1, <2>2, <3>2 DEF JustSoFar, Busy
    <3> QED BY <2>1, <3>1, <3>3 DEF JustSoFar, Busy
  <2> QED BY <2>3, <2>4, <2>5 DEF CallerInv
<1> QED BY <1>2, <1>3, <1>4, <1>5, <1>6, CallerStep

\* Who a request comes from, as the authorizer is told.
LEMMA AskedWith ==
    ASSUME AuthInv, NEW c \in Callers
    PROVE  (IF pc[c] = "accepted" THEN IdentityOf(who[c]) ELSE NoSubject) \in Subjects
<1>1. CASE pc[c] = "accepted"
  <2>1. who[c] \in Credentials
    BY <1>1 DEF AuthInv, CallerInv, Flow
  <2>2. RolesOf[who[c]] \in RoleLists
    BY <2>1, AuthAssumption
  <2> QED BY <1>1, <2>2, NamesType DEF IdentityOf, Subjects
<1>2. CASE pc[c] # "accepted"
  BY <1>2, NamesType DEF NoSubject, Subjects
<1> QED BY <1>1, <1>2

LEMMA ProceedInv ==
    ASSUME AuthInv, NEW c \in Callers, NEW q \in Requests, Proceed(c, q)
    PROVE  AuthInv'
<1> DEFINE s == IF pc[c] = "accepted" THEN IdentityOf(who[c]) ELSE NoSubject
<1>1. /\ pc[c] \in {"accepted", "refused"} /\ pc' = [pc EXCEPT ![c] = "authorizing"]
      /\ Authorize(c, s, q) /\ Forget(c)
      /\ UNCHANGED <<worldVars, cache, held, flight, verdict>>
  BY DEF Proceed
<1>2. s \in Subjects
  BY AskedWith
<1> HIDE DEF s
<1>3. RBACInv'
  BY <1>1, <1>2, AuthorizeInv DEF AuthInv
<1>4. TypeOK'
  <2>1. WorldTypes'
    BY <1>1, <1>3, TypeParts, WorldTypesKept DEF AuthInv, RBACInv
  <2>2. LocalTypes'
    BY <1>1, TypeParts, ForgetTypes DEF AuthInv, LocalTypes
  <2> QED BY <2>1, <2>2, TypePartsNext
<1>5. Local(c)
  BY <1>1, ForgetTypes DEF AuthInv, TypeOK, Local, worldVars
<1>6. WorldInv'
  BY <1>1, <1>5, WorldKept
<1>7. pc'[c] = "authorizing" /\ flight'[c] = 0 /\ verdict'[c] = None
  BY <1>1 DEF AuthInv, TypeOK, CallerInv, Flow
<1>8. CallerInv(c)'
  BY <1>1, <1>7, ForgetTypes, Released
<1> QED BY <1>3, <1>4, <1>5, <1>6, <1>8, CallerStep

LEMMA AuthorizingInv ==
    ASSUME AuthInv, NEW c \in Callers, Authorizing(c)
    PROVE  AuthInv'
<1>1. UNCHANGED <<worldVars, cache, pc, requestVars, at, held, flight, verdict, first, who,
                  faulted>>
  BY DEF Authorizing
<1>2. RBACInv'
  BY CollectInv, DecideInv DEF Authorizing, AuthInv
<1>3. TypeOK'
  <2>1. WorldTypes'
    BY <1>1, <1>2, TypeParts, WorldTypesKept DEF AuthInv, RBACInv
  <2>2. LocalTypes'
    BY <1>1, TypeParts DEF AuthInv, LocalTypes, requestVars
  <2> QED BY <2>1, <2>2, TypePartsNext
<1>4. Local(c)
  BY <1>1 DEF Local, worldVars, requestVars
<1>5. WorldInv'
  BY <1>1, <1>4, WorldKept
<1>6. CallerInv(c)'
  <2>1. CallerInv(c)
    BY DEF AuthInv
  <2>2. \A n \in DOMAIN Authenticators : JustAt(c, n)' = JustAt(c, n)
    BY <1>1 DEF JustAt, worldVars, requestVars
  <2>3. Flow(c)'
    BY <1>1, <2>1 DEF CallerInv, Flow, requestVars
  <2>4. FreshSoFar(c)'
    <3>1. Grace(who[c])' = Grace(who[c])
      BY <1>1 DEF Grace, worldVars
    <3> QED BY <1>1, <2>1, <3>1
            DEF CallerInv, FreshSoFar, FreshFirst, worldVars, requestVars
  <2>5. JustSoFar(c)'
    BY <1>1, <2>1, <2>2 DEF CallerInv, JustSoFar, worldVars, requestVars
  <2> QED BY <2>3, <2>4, <2>5 DEF CallerInv
<1> QED BY <1>2, <1>3, <1>4, <1>5, <1>6, CallerStep

LEMMA AnsweredInv ==
    ASSUME AuthInv, NEW c \in Callers, Answered(c)
    PROVE  AuthInv'
<1>1. /\ pc[c] = "authorizing" /\ pc' = [pc EXCEPT ![c] = "idle"]
      /\ UNCHANGED <<worldVars, cache, requestVars, at, held, flight, verdict, first, who,
                     faulted>>
  BY DEF Answered
<1>2. RBACInv'
  BY ReturnInv DEF Answered, AuthInv
<1>3. TypeOK'
  <2>1. WorldTypes'
    BY <1>1, <1>2, TypeParts, WorldTypesKept DEF AuthInv, RBACInv
  <2>2. LocalTypes'
    BY <1>1, TypeParts DEF AuthInv, LocalTypes, requestVars
  <2> QED BY <2>1, <2>2, TypePartsNext
<1>4. Local(c)
  BY <1>1 DEF AuthInv, TypeOK, Local, worldVars, requestVars
<1>5. WorldInv'
  BY <1>1, <1>4, WorldKept
<1>6. /\ pc'[c] = "idle" /\ at'[c] = 1 /\ first'[c] = None /\ flight'[c] = 0
      /\ verdict'[c] = None
  BY <1>1 DEF AuthInv, TypeOK, CallerInv, Flow
<1>7. CallerInv(c)'
  BY <1>6, Released
<1> QED BY <1>2, <1>3, <1>4, <1>5, <1>7, CallerStep

-----------------------------------------------------------------------------
(***************************************************************************)
(* The steps of the world: they leave every caller where it is.            *)
(***************************************************************************)
callerVars == <<pc, requestVars, at, held, flight, verdict, first, who, faulted, rbacVars>>

\* Credentials become void or good again, in no time.
LEMMA CallersKept ==
    ASSUME AuthInv, UNCHANGED callerVars, UNCHANGED stopOnFirst, void \subseteq void',
           \A cred \in Credentials : lapsed'[cred] \in {0, lapsed[cred]},
           NEW c \in Callers
    PROVE  CallerInv(c)'
<1>1. Flow(c) /\ FreshSoFar(c) /\ JustSoFar(c)
  BY DEF AuthInv, CallerInv
<1>2. /\ \A cred \in Credentials : lapsed[cred] \in Nat
      /\ flight[c] \in Nat /\ Timeout \in Nat /\ CacheTTL \in Nat
  BY LapsedType, CallerTypes, Numbers DEF AuthInv
<1>3. /\ pc'[c] = pc[c] /\ jwtToken'[c] = jwtToken[c] /\ bearer'[c] = bearer[c]
      /\ at'[c] = at[c] /\ held'[c] = held[c]
      /\ flight'[c] = flight[c] /\ verdict'[c] = verdict[c] /\ first'[c] = first[c]
      /\ who'[c] = who[c] /\ faulted'[c] = faulted[c] /\ stopOnFirst' = stopOnFirst
  BY DEF callerVars, requestVars
<1>4. Flow(c)'
  BY <1>1, <1>3 DEF Flow
<1>5. FreshSoFar(c)'
  <2>2. pc[c] = "looked up" /\ held[c] \in Infos \ void' => lapsed'[held[c]] = 0
    BY <1>1 DEF FreshSoFar, Credentials
  <2>3. ASSUME pc[c] = "in flight", verdict[c] = "active"
        PROVE  lapsed'[bearer[c]] <= flight[c]
    <3>1. bearer[c] \in Credentials /\ lapsed[bearer[c]] <= flight[c]
      BY <1>1, <2>3 DEF Flow, FreshSoFar, Credentials
    <3> QED BY <1>2, <3>1
  <2>4. FreshFirst(c)'
    <3> SUFFICES ASSUME first[c] # None
                 PROVE  /\ ~stopOnFirst
                        /\ \E n \in DOMAIN Authenticators :
                             n < at[c] /\ Authenticators[n] = MethodOf(first[c])
                        /\ lapsed'[first[c]] <= Age(first[c], at[c]) + flight[c]
      BY <1>3 DEF FreshFirst
    <3>1. first[c] \in Credentials /\ FreshFirst(c)
      BY <1>1, CallerTypes DEF AuthInv, FreshSoFar
    <3>2. lapsed'[first[c]] \in {0, lapsed[first[c]]} /\ lapsed[first[c]] \in Nat
      BY <1>2, <3>1
    <3>3. lapsed'[first[c]] <= Age(first[c], at[c]) + flight[c]
      BY <1>2, <3>1, <3>2, Numbers DEF FreshFirst
    <3> QED BY <3>1, <3>3 DEF FreshFirst
  <2>6. pc'[c] = "looked up" /\ held'[c] \in Infos \ void' => lapsed'[held'[c]] = 0
    BY <1>3, <2>2
  <2>7. pc'[c] = "in flight" /\ verdict'[c] = "active" => lapsed'[bearer'[c]] <= flight'[c]
    BY <1>3, <2>3
  <2>8. pc'[c] = "accepted" => lapsed'[who'[c]] <= Grace(who[c])'
    <3> SUFFICES ASSUME pc[c] = "accepted" PROVE lapsed'[who[c]] <= Grace(who[c])'
      BY <1>3
    <3>1. who[c] \in Credentials /\ lapsed[who[c]] <= Grace(who[c])
      BY <1>1 DEF Flow, FreshSoFar
    <3>2. Grace(who[c])' = Grace(who[c]) /\ Grace(who[c]) \in Nat
      BY <1>3, <3>1, Numbers DEF Grace
    <3> QED BY <1>2, <3>1, <3>2
  <2> QED BY <2>4, <2>6, <2>7, <2>8 DEF FreshSoFar
<1>6. JustSoFar(c)'
  <2>1. \A n \in DOMAIN Authenticators : JustAt(c, n) => JustAt(c, n)'
    BY <1>3 DEF JustAt
  <2> QED BY <1>1, <1>3, <2>1 DEF JustSoFar
<1> QED BY <1>4, <1>5, <1>6 DEF CallerInv

\* The types of the callers.
LEMMA LocalTypesKept ==
    ASSUME AuthInv, UNCHANGED callerVars
    PROVE  LocalTypes' /\ RBACInv'
<1>1. LocalTypes'
  BY TypeParts DEF AuthInv, LocalTypes, callerVars, requestVars
<1>2. RBACInv'
  BY RBACKept DEF callerVars
<1> QED BY <1>1, <1>2

LEMMA StoreInv ==
    ASSUME AuthInv, NEW newStore \in [Keys -> Infos \cup {None}], StoreIs(newStore),
           \A k \in Keys : newStore[k] # None => KeyOf[newStore[k]] = k
    PROVE  AuthInv'
<1>1. /\ store' = newStore
      /\ lapsed' = [cred \in Credentials |->
                      IF cred \notin void /\ cred \in Infos /\ newStore[KeyOf[cred]] = cred
                      THEN 0 ELSE lapsed[cred]]
      /\ UNCHANGED callerVars /\ UNCHANGED <<stopOnFirst, void, cache>>
  BY DEF StoreIs, callerVars
<1>2. \A cred \in Credentials : lapsed'[cred] \in {0, lapsed[cred]}
  BY <1>1
<1>3. WorldTypes'
  <2>1. \A cred \in Credentials : Horizon(cred)' = Horizon(cred) /\ Horizon(cred) \in Nat
    BY <1>1, Numbers DEF Horizon, Grace
  <2>2. \A cred \in Credentials : lapsed'[cred] \in 0..Horizon(cred)'
    <3> TAKE cred \in Credentials
    <3>1. lapsed[cred] \in Nat /\ lapsed[cred] <= Horizon(cred) /\ Horizon(cred) \in Nat
      BY <2>1, LapsedType DEF AuthInv
    <3>2. lapsed'[cred] \in {0, lapsed[cred]}
      BY <1>2
    <3>3. lapsed'[cred] \in 0..Horizon(cred)
      BY <3>1, <3>2
    <3> QED BY <2>1, <3>3
  <2>3. RBACTypeOK'
    BY <1>1, LocalTypesKept DEF RBACInv
  <2> QED BY <1>1, <2>2, <2>3, TypeParts DEF AuthInv, WorldTypes
<1>4. WorldInv'
  <2>1. ASSUME NEW cred \in Credentials, Good(cred)' PROVE lapsed'[cred] = 0
    <3>1. CASE cred \in Infos
      BY <1>1, <2>1, <3>1 DEF Good
    <3>2. CASE cred \notin Infos
      <4>1. Good(cred)
        BY <1>1, <2>1, <3>2 DEF Good
      <4>2. lapsed[cred] = 0
        BY <4>1 DEF AuthInv, WorldInv
      <4> QED BY <1>2, <4>2
    <3> QED BY <3>1, <3>2
  <2>2. ASSUME NEW b \in Opaque, cache[b] <= CacheTTL
        PROVE  lapsed'[b] <= cache[b] + Timeout
    <3>1. b \in Bearers /\ b \in Credentials
      BY DEF Bearers, Credentials
    <3>2. cache[b] \in 0..Gone
      BY <3>1 DEF AuthInv, TypeOK
    <3>3. cache[b] \in Nat
      BY <3>2, Numbers
    <3>4. lapsed[b] <= cache[b] + Timeout
      BY <2>2 DEF AuthInv, WorldInv
    <3> QED BY <1>2, <3>1, <3>3, <3>4, Numbers
  <2> QED BY <1>1, <2>1, <2>2 DEF WorldInv
<1>5. \A c \in Callers : CallerInv(c)'
  BY <1>1, <1>2, CallersKept
<1> QED BY <1>1, <1>3, <1>4, <1>5, LocalTypesKept, TypePartsNext DEF AuthInv

LEMMA AddInv ==
    ASSUME AuthInv, NEW i \in Infos, Add(i)
    PROVE  AuthInv'
<1> DEFINE newStore == [store EXCEPT ![KeyOf[i]] = i]
<1>1. newStore \in [Keys -> Infos \cup {None}]
  BY DEF AuthInv, TypeOK
<1>2. \A k \in Keys : newStore[k] # None => KeyOf[newStore[k]] = k
  BY DEF AuthInv, TypeOK
<1>3. StoreIs(newStore)
  BY DEF Add
<1> HIDE DEF newStore
<1> QED BY <1>1, <1>2, <1>3, StoreInv

LEMMA RemoveInv ==
    ASSUME AuthInv, NEW k \in Keys, Remove(k)
    PROVE  AuthInv'
<1> DEFINE newStore == [store EXCEPT ![k] = None]
<1>1. newStore \in [Keys -> Infos \cup {None}]
  BY DEF AuthInv, TypeOK
<1>2. \A j \in Keys : newStore[j] # None => KeyOf[newStore[j]] = j
  BY DEF AuthInv, TypeOK
<1>3. StoreIs(newStore)
  BY DEF Remove
<1> HIDE DEF newStore
<1> QED BY <1>1, <1>2, <1>3, StoreInv

LEMMA VoidInv ==
    ASSUME AuthInv, NEW cred \in Credentials, Void(cred)
    PROVE  AuthInv'
<1>1. /\ void' = void \cup {cred}
      /\ UNCHANGED callerVars /\ UNCHANGED <<stopOnFirst, store, lapsed, cache>>
  BY DEF Void, callerVars
<1>2. WorldTypes'
  <2>1. \A x \in Credentials : Horizon(x)' = Horizon(x)
    BY <1>1 DEF Horizon, Grace
  <2>2. RBACTypeOK'
    BY <1>1, LocalTypesKept DEF RBACInv
  <2> QED BY <1>1, <2>1, <2>2, TypeParts DEF AuthInv, WorldTypes
<1>3. WorldInv'
  BY <1>1 DEF AuthInv, WorldInv, Good
<1>4. \A c \in Callers : CallerInv(c)'
  BY <1>1, CallersKept
<1> QED BY <1>1, <1>2, <1>3, <1>4, LocalTypesKept, TypePartsNext DEF AuthInv

\* Whatever has lapsed lapses by one tick, and so does what the callers rely on.
LEMMA TickInv ==
    ASSUME AuthInv, Tick
    PROVE  AuthInv'
<1>1. /\ \A c \in Callers : pc[c] = "idle" \/ Waits(c)
      /\ flight' = [c \in Callers |-> IF Waits(c) THEN flight[c] + 1 ELSE 0]
      /\ cache' = [b \in Bearers |-> Least(cache[b] + 1, Gone)]
      /\ lapsed' = [cred \in Credentials |->
                      IF Good(cred) THEN 0 ELSE Least(lapsed[cred] + 1, Horizon(cred))]
      /\ UNCHANGED <<stopOnFirst, store, void, pc, requestVars, at, held, verdict, first, who,
                     faulted, rbacVars>>
  BY DEF Tick
<1>2. RBACInv'
  BY <1>1, RBACKept
<1>3. ASSUME NEW cred \in Credentials
      PROVE  /\ lapsed'[cred] \in Nat /\ lapsed'[cred] <= lapsed[cred] + 1
             /\ lapsed'[cred] <= Horizon(cred) /\ lapsed[cred] \in Nat
  <2>1. lapsed'[cred] = IF Good(cred) THEN 0 ELSE Least(lapsed[cred] + 1, Horizon(cred))
    BY <1>1
  <2>2. lapsed[cred] \in Nat /\ Grace(cred) \in Nat /\ Horizon(cred) = Grace(cred) + 1
    BY LapsedType, Numbers DEF AuthInv
  <2>3. Horizon(cred) \in Nat
    BY <2>2
  <2> QED BY <2>1, <2>2, <2>3 DEF Least
<1>4. ASSUME NEW b \in Bearers
      PROVE  /\ cache[b] \in Nat /\ cache'[b] \in 0..Gone
             /\ cache[b] = Gone => cache'[b] = Gone
             /\ cache'[b] <= CacheTTL => cache[b] <= CacheTTL /\ cache'[b] = cache[b] + 1
  <2>1. cache[b] \in 0..Gone
    BY DEF AuthInv, TypeOK
  <2>2. cache'[b] = Least(cache[b] + 1, Gone)
    BY <1>1
  <2> QED BY <2>1, <2>2, Numbers DEF Least
<1>5. TypeOK'
  <2>1. WorldTypes'
    <3>1. RBACTypeOK'
      BY <1>2 DEF RBACInv
    <3>2. cache' \in [Bearers -> 0..Gone]
      BY <1>1, <1>4
    <3>3. \A b \in JWTs : cache'[b] = Gone
      BY <1>4 DEF AuthInv, TypeOK, Bearers
    <3>4. \A cred \in Credentials : lapsed'[cred] \in 0..Horizon(cred)'
      <4> TAKE cred \in Credentials
      <4>1. Horizon(cred)' = Horizon(cred)
        BY <1>1 DEF Horizon, Grace
      <4>2. Horizon(cred) \in Nat
        BY Numbers
      <4> QED BY <1>3, <4>1, <4>2
    <3>5. DOMAIN lapsed' = Credentials
      BY <1>1
    <3> QED BY <1>1, <3>1, <3>2, <3>3, <3>4, <3>5, TypeParts DEF AuthInv, WorldTypes
  <2>2. flight' \in [Callers -> Nat]
    BY <1>1, CallerTypes DEF AuthInv
  <2>3. LocalTypes'
    BY <1>1, <2>2, TypeParts DEF AuthInv, LocalTypes, requestVars
  <2> QED BY <2>1, <2>3, TypePartsNext
<1>6. WorldInv'
  <2>1. \A cred \in Credentials : Good(cred)' => lapsed'[cred] = 0
    BY <1>1 DEF Good
  <2>2. ASSUME NEW b \in Opaque, cache'[b] <= CacheTTL
        PROVE  lapsed'[b] <= cache'[b] + Timeout
    <3>1. b \in Bearers /\ b \in Credentials
      BY DEF Bearers, Credentials
    <3>2. cache[b] \in Nat /\ cache[b] <= CacheTTL /\ cache'[b] = cache[b] + 1
      BY <1>4, <2>2, <3>1
    <3>3. lapsed[b] <= cache[b] + Timeout
      BY <3>2 DEF AuthInv, WorldInv
    <3>4. lapsed'[b] \in Nat /\ lapsed[b] \in Nat /\ lapsed'[b] <= lapsed[b] + 1
      BY <1>3, <3>1
    <3> QED BY <3>2, <3>3, <3>4, Numbers
  <2> QED BY <2>1, <2>2 DEF WorldInv
<1>7. ASSUME NEW c \in Callers PROVE CallerInv(c)'
  <2>1. Flow(c) /\ FreshSoFar(c) /\ JustSoFar(c)
    BY DEF AuthInv, CallerInv
  <2>2. CASE pc[c] = "idle"
    <3>1. /\ pc'[c] = "idle" /\ at'[c] = 1 /\ first'[c] = None /\ flight'[c] = 0
          /\ verdict'[c] = None
      BY <1>1, <2>1, <2>2 DEF Flow, Waits
    <3> QED BY <3>1, Released
  <2>3. CASE Waits(c)
    <3>1. /\ pc'[c] = pc[c] /\ pc[c] \in {"getting key", "in flight"} /\ at'[c] = at[c]
          /\ jwtToken'[c] = jwtToken[c] /\ bearer'[c] = bearer[c]
          /\ verdict'[c] = verdict[c] /\ first'[c] = first[c] /\ faulted'[c] = faulted[c]
          /\ void' = void /\ stopOnFirst' = stopOnFirst /\ flight'[c] = flight[c] + 1
      BY <1>1, <2>3 DEF requestVars, Waits
    <3>2. flight[c] \in Nat
      BY CallerTypes DEF AuthInv
    <3>3. Flow(c)'
      <4>1. /\ pc[c] = "getting key" => flight[c] + 1 <= KeyTimeout
            /\ pc[c] = "in flight" => flight[c] + 1 <= Timeout
        <5>1. KeyTimeout \in Nat /\ Timeout \in Nat
          BY Numbers
        <5>2. ASSUME pc[c] = "getting key" PROVE flight[c] + 1 <= KeyTimeout
          <6>1. flight[c] < KeyTimeout
            BY <2>3, <5>2 DEF Waits
          <6> QED BY <3>2, <5>1, <6>1
        <5>3. ASSUME pc[c] = "in flight" PROVE flight[c] + 1 <= Timeout
          <6>1. flight[c] < Timeout
            BY <2>3, <5>3 DEF Waits
          <6> QED BY <3>2, <5>1, <6>1
        <5> QED BY <5>2, <5>3, Zenon
      <4> QED BY <2>1, <3>1, <4>1 DEF Flow
    <3>4. FreshSoFar(c)'
      <4>1. ASSUME pc[c] = "in flight", verdict[c] = "active"
            PROVE  lapsed'[bearer[c]] <= flight[c] + 1
        <5>1. bearer[c] \in Credentials /\ lapsed[bearer[c]] <= flight[c]
          BY <2>1, <4>1 DEF Flow, FreshSoFar, Credentials
        <5> QED BY <1>3, <3>2, <5>1
      <4>2. FreshFirst(c)'
        <5> SUFFICES ASSUME first[c] # None
                     PROVE  /\ ~stopOnFirst
                            /\ \E n \in DOMAIN Authenticators :
                                 n < at[c] /\ Authenticators[n] = MethodOf(first[c])
                            /\ lapsed'[first[c]] <= Age(first[c], at[c]) + (flight[c] + 1)
          BY <3>1 DEF FreshFirst
        <5>1. first[c] \in Credentials /\ FreshFirst(c)
          BY <2>1, CallerTypes DEF AuthInv, FreshSoFar
        <5>2. lapsed[first[c]] <= Age(first[c], at[c]) + flight[c]
          BY <5>1 DEF FreshFirst
        <5>3. lapsed'[first[c]] <= Age(first[c], at[c]) + (flight[c] + 1)
          BY <1>3, <3>2, <5>1, <5>2, Numbers
        <5> QED BY <5>1, <5>3 DEF FreshFirst
      <4> QED BY <3>1, <4>1, <4>2 DEF FreshSoFar
    <3>5. JustSoFar(c)'
      <4>1. \A n \in DOMAIN Authenticators : JustAt(c, n)' = JustAt(c, n)
        BY <3>1 DEF JustAt
      <4> QED BY <2>1, <3>1, <4>1 DEF JustSoFar
    <3> QED BY <3>3, <3>4, <3>5 DEF CallerInv
  <2> QED BY <1>1, <2>2, <2>3
<1> QED BY <1>2, <1>5, <1>6, <1>7 DEF AuthInv

-----------------------------------------------------------------------------
LEMMA AuthNextInv == AuthInv /\ [Next]_vars => AuthInv'
<1> SUFFICES ASSUME AuthInv, [Next]_vars PROVE AuthInv'
  OBVIOUS
<1>1. ASSUME NEW c \in Callers, NEW creds \in Carried[c], Arrive(c, creds)
      PROVE  AuthInv'
  BY <1>1, ArriveInv
<1>2. ASSUME NEW c \in Callers, Continue(c) PROVE AuthInv'
  <2>1. ASSUME NEW q \in Requests, Proceed(c, q) PROVE AuthInv'
    BY <2>1, ProceedInv
  <2> QED BY <1>2, <2>1, SkipInv, FinishInv, ParseFailsInv, AskForKeyInv, VerifyJWTInv,
             KeyProviderFailsInv, LookupKeyInv, CheckKeyInv, CacheHitInv, IntrospectInv,
             ResponseInv, IntrospectionFailsInv, AuthorizingInv, AnsweredInv DEF Continue
<1>3. ASSUME NEW c \in Callers, EndpointDecides(c) PROVE AuthInv'
  BY <1>3, EndpointDecidesInv
<1>4. ASSUME NEW i \in Infos, Add(i) PROVE AuthInv'
  BY <1>4, AddInv
<1>5. ASSUME NEW k \in Keys, Remove(k) PROVE AuthInv'
  BY <1>5, RemoveInv
<1>6. ASSUME NEW cred \in Credentials, Void(cred) PROVE AuthInv'
  BY <1>6, VoidInv
<1>7. CASE Tick
  BY <1>7, TickInv
<1>8. CASE UNCHANGED vars
  <2>1. UNCHANGED callerVars /\ UNCHANGED worldVars /\ UNCHANGED cache
    BY <1>8 DEF vars, callerVars
  <2>2. LocalTypes' /\ RBACInv'
    BY <2>1, LocalTypesKept
  <2>3. TypeOK'
    BY <2>1, <2>2, TypeParts, TypePartsNext, WorldTypesKept DEF AuthInv, RBACInv
  <2>4. WorldInv'
    BY <2>1 DEF AuthInv, WorldInv, Good, worldVars
  <2>5. \A c \in Callers : CallerInv(c)'
    BY <2>1, CallersKept DEF worldVars
  <2> QED BY <2>2, <2>3, <2>4, <2>5 DEF AuthInv
<1> QED BY <1>1, <1>2, <1>3, <1>4, <1>5, <1>6, <1>7, <1>8 DEF Next

LEMMA Invariance == Spec => []AuthInv
BY AuthInitInv, AuthNextInv, PTL DEF Spec

\* Nobody's place changes in a step of the world, and the world in no step of a caller.
LEMMA OneOrTheOther == [Next]_vars => UNCHANGED pc \/ UNCHANGED worldVars
<1> SUFFICES ASSUME [Next]_vars PROVE UNCHANGED pc \/ UNCHANGED worldVars
  OBVIOUS
<1>1. ASSUME NEW c \in Callers, NEW creds, Arrive(c, creds) PROVE UNCHANGED worldVars
  BY <1>1 DEF Arrive
<1>2. ASSUME NEW c \in Callers, Continue(c) PROVE UNCHANGED worldVars
  <2>1. ASSUME NEW q \in Requests, Proceed(c, q) PROVE UNCHANGED worldVars
    BY <2>1 DEF Proceed
  <2>2. CASE Skip(c) \/ Finish(c) \/ LookupKey(c) \/ CheckKey(c)
    BY <2>2 DEF Skip, Finish, LookupKey, CheckKey
  <2>5. CASE ParseFails(c) \/ AskForKey(c) \/ VerifyJWT(c) \/ KeyProviderFails(c)
    BY <2>5 DEF ParseFails, AskForKey, VerifyJWT, KeyProviderFails
  <2>3. CASE CacheHit(c) \/ Introspect(c) \/ Response(c) \/ IntrospectionFails(c)
    BY <2>3 DEF CacheHit, Introspect, Response, IntrospectionFails
  <2>4. CASE Authorizing(c) \/ Answered(c)
    BY <2>4 DEF Authorizing, Answered
  <2> QED BY <1>2, <2>1, <2>2, <2>3, <2>4, <2>5 DEF Continue
<1>3. ASSUME NEW c \in Callers, EndpointDecides(c) PROVE UNCHANGED worldVars
  BY <1>3 DEF EndpointDecides
<1>4. ASSUME NEW i \in Infos, Add(i) PROVE UNCHANGED pc
  BY <1>4 DEF Add, StoreIs
<1>5. ASSUME NEW k \in Keys, Remove(k) PROVE UNCHANGED pc
  BY <1>5 DEF Remove, StoreIs
<1>6. ASSUME NEW cred \in Credentials, Void(cred) PROVE UNCHANGED pc
  BY <1>6 DEF Void
<1>7. CASE Tick
  BY <1>7 DEF Tick
<1>8. CASE UNCHANGED vars
  BY <1>8 DEF vars
<1> QED BY <1>1, <1>2, <1>3, <1>4, <1>5, <1>6, <1>7, <1>8 DEF Next

-----------------------------------------------------------------------------
\* The state of the authenticators, of the store and of the token cache keeps its type,
\* and only a token that the endpoint called active is ever in the cache.
THEOREM TypeCorrect == Spec => []TypeOK
<1>1. AuthInv => TypeOK
  BY DEF AuthInv
<1> QED BY <1>1, Invariance, PTL

\* CompositeAuthenticator refuses a token only where the authenticator for it did not find
\* it in the request, or was asked and the token was not good: for any order of
\* authenticators, whatever each of them reads in the request.
THEOREM Refusals == Spec => []RefusalIsJust
<1>1. AuthInv => RefusalIsJust
  BY DEF AuthInv, CallerInv, JustSoFar, JustAt, RefusalIsJust
<1> QED BY <1>1, Invariance, PTL

\* No caller is accepted with a credential that was void for longer than its grace, for
\* any cache lifetime, any timeouts of the endpoint and of the key provider, any order of
\* authenticators and any number of requests that overtake each other.
THEOREM Acceptances == Spec => AcceptanceIsFresh
<1>1. AuthInv /\ AuthInv' /\ [Next]_vars =>
        [\A c \in Callers : pc[c] # "accepted" /\ pc'[c] = "accepted" =>
            lapsed[who'[c]] <= Grace(who'[c])]_vars
  <2> SUFFICES ASSUME AuthInv', [Next]_vars, NEW c \in Callers,
                      pc[c] # "accepted", pc'[c] = "accepted"
               PROVE  lapsed[who'[c]] <= Grace(who'[c])
    OBVIOUS
  <2>1. UNCHANGED worldVars
    BY OneOrTheOther
  <2>2. lapsed'[who'[c]] <= Grace(who[c])'
    BY DEF AuthInv, CallerInv, FreshSoFar
  <2>3. Grace(who[c])' = Grace(who'[c])
    BY <2>1 DEF Grace, worldVars
  <2> QED BY <2>1, <2>2, <2>3 DEF worldVars
<1> QED BY <1>1, Invariance, PTL DEF Spec, AcceptanceIsFresh

\* The authorizer that requests reach through Authenticate is the authorizer of RBAC: it
\* is asked once for every request, with the identity that was accepted or with none.
THEOREM AuthorizerWithin == Spec => RBACSpec
<1>1. Init => RBACInit
  BY DEF Init
<1>2. AuthInv /\ [Next]_vars => [RBACNext]_rbacVars
  <2> SUFFICES ASSUME AuthInv, [Next]_vars PROVE RBACNext \/ UNCHANGED rbacVars
    OBVIOUS
  <2>1. ASSUME NEW c \in Callers, NEW creds, Arrive(c, creds) PROVE UNCHANGED rbacVars
    BY <2>1 DEF Arrive
  <2>2. ASSUME NEW c \in Callers, Continue(c) PROVE RBACNext \/ UNCHANGED rbacVars
    <3>1. ASSUME NEW q \in Requests, Proceed(c, q) PROVE RBACNext
      <4> DEFINE s == IF pc[c] = "accepted" THEN IdentityOf(who[c]) ELSE NoSubject
      <4>1. s \in Subjects
        BY AskedWith
      <4>2. Authorize(c, s, q)
        BY <3>1 DEF Proceed
      <4> HIDE DEF s
      <4> QED BY <4>1, <4>2 DEF RBACNext
    <3>2. CASE Skip(c) \/ Finish(c) \/ LookupKey(c) \/ CheckKey(c)
      BY <3>2 DEF Skip, Finish, LookupKey, CheckKey
    <3>5. CASE ParseFails(c) \/ AskForKey(c) \/ VerifyJWT(c) \/ KeyProviderFails(c)
      BY <3>5 DEF ParseFails, AskForKey, VerifyJWT, KeyProviderFails
    <3>3. CASE CacheHit(c) \/ Introspect(c) \/ Response(c) \/ IntrospectionFails(c)
      BY <3>3 DEF CacheHit, Introspect, Response, IntrospectionFails
    <3>4. CASE Authorizing(c) \/ Answered(c)
      BY <3>4 DEF Authorizing, Answered, RBACNext
    <3> QED BY <2>2, <3>1, <3>2, <3>3, <3>4, <3>5 DEF Continue
  <2>3. ASSUME NEW c \in Callers, EndpointDecides(c) PROVE UNCHANGED rbacVars
    BY <2>3 DEF EndpointDecides
  <2>4. ASSUME NEW i \in Infos, Add(i) PROVE UNCHANGED rbacVars
    BY <2>4 DEF Add, StoreIs
  <2>5. ASSUME NEW k \in Keys, Remove(k) PROVE UNCHANGED rbacVars
    BY <2>5 DEF Remove, StoreIs
  <2>6. ASSUME NEW cred \in Credentials, Void(cred) PROVE UNCHANGED rbacVars
    BY <2>6 DEF Void
  <2>7. CASE Tick
    BY <2>7 DEF Tick
  <2>8. CASE UNCHANGED vars
    BY <2>8 DEF vars
  <2> QED BY <2>1, <2>2, <2>3, <2>4, <2>5, <2>6, <2>7, <2>8 DEF Next
<1> QED BY <1>1, <1>2, Invariance, PTL DEF Spec, RBACSpec

\* So requests are authorized by the closure of the roles of the identity that was found.
THEOREM RequestsAuthorizedByClosure == Spec => []AuthorizesByClosure
BY AuthorizerWithin, RolesCorrect, PTL

=============================================================================
