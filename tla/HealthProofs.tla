---------------------------- MODULE HealthProofs ----------------------------
(***************************************************************************)
(* Proofs about Health, for any number of probes, names and checkers, any  *)
(* thresholds, and checks in parallel or one after the other.              *)
(*                                                                         *)
(* AnswerIsTrue rests on what is known of a result before it is in the     *)
(* answer: what a check delivers, and what runCheck takes from its         *)
(* channel, was seen during the probe, or the context of the probe is      *)
(* done.                                                                   *)
(***************************************************************************)
EXTENDS Health, SequenceTheorems, TLAPS

\* The severities.
LEMMA WorseFacts ==
    /\ Worse["healthy"] = 0 /\ Worse["degraded"] = 1 /\ Worse["unhealthy"] = 2
    /\ \A s \in Statuses : Worse[s] \in 0..2
BY DEF Worse, Statuses

\* A check reports a status, whatever the thresholds and the share of memory in use.
LEMMA StatusType ==
    ASSUME NEW c \in Checkers, NEW conditions \in [Checkers \ Memory -> Conditions], NEW used
    PROVE  Status(c, conditions, used) \in Statuses
<1>1. MemoryStatus(used) \in Statuses
  BY DEF MemoryStatus, Statuses
<1> QED BY <1>1, HealthAssumption DEF Status

\* The thresholds that NewMemoryChecker makes of any configuration.
LEMMA Thresholds == Warning \in 1..999 /\ Critical \in 1..1000
<1>1. Warning \in 1..999 /\ Sane(CriticalThreshold, 950) \in 1..999
  BY HealthAssumption DEF Warning, Sane
<1> QED BY <1>1 DEF Critical

\* Whatever thresholds are configured, out of range or in the wrong order, a
\* MemoryChecker calls unused memory healthy and exhausted memory unhealthy, and a
\* share of memory in use never better than a smaller one.
THEOREM MemoryReports ==
    /\ MemoryStatus(0) = "healthy"
    /\ \A used \in Nat : used >= 1000 => MemoryStatus(used) = "unhealthy"
    /\ \A more, less \in Nat :
         less <= more => Worse[MemoryStatus(less)] <= Worse[MemoryStatus(more)]
<1> USE Thresholds, WorseFacts DEF MemoryStatus
<1>1. MemoryStatus(0) = "healthy"
  OBVIOUS
<1>2. ASSUME NEW used \in Nat, used >= 1000 PROVE MemoryStatus(used) = "unhealthy"
  BY <1>2
<1>3. ASSUME NEW more \in Nat, NEW less \in Nat, less <= more
      PROVE  Worse[MemoryStatus(less)] <= Worse[MemoryStatus(more)]
  BY <1>3
<1> QED BY <1>1, <1>2, <1>3

-----------------------------------------------------------------------------
(***************************************************************************)
(* The order of registration.                                              *)
(***************************************************************************)
LEMMA RegisterOrder ==
    ASSUME NEW S, NEW s \in Seq(S), NEW e \in S, IsInjective(s), e \notin Range(s)
    PROVE  /\ Append(s, e) \in Seq(S)
           /\ IsInjective(Append(s, e))
           /\ Range(Append(s, e)) = Range(s) \cup {e}
BY DEF IsInjective, Range

LEMMA RemoveFirstIs ==
    ASSUME NEW S, NEW s \in Seq(S), NEW e, NEW i \in 1..Len(s), s[i] = e, IsInjective(s)
    PROVE  RemoveFirst(s, e) = SubSeq(s, 1, i-1) \o SubSeq(s, i+1, Len(s))
<1>1. {j \in 1..Len(s) : s[j] = e} = {i}
  BY DEF IsInjective
<1>2. Min({i}) = i
  BY DEF Min
<1>3. SelectInSeq(s, LAMBDA v : v = e) = i
  BY <1>1, <1>2 DEF SelectInSeq
<1> QED BY <1>3 DEF RemoveFirst, RemoveAt

\* Unregister takes a name out of the order and leaves the others in it, once each.
LEMMA UnregisterOrder ==
    ASSUME NEW S, NEW s \in Seq(S), NEW e, IsInjective(s)
    PROVE  /\ RemoveFirst(s, e) \in Seq(S)
           /\ IsInjective(RemoveFirst(s, e))
           /\ Range(RemoveFirst(s, e)) = Range(s) \ {e}
<1>1. CASE e \notin Range(s)
  <2>1. ~ \E i \in 1..Len(s) : s[i] = e
    BY <1>1 DEF Range
  <2>2. RemoveFirst(s, e) = s
    BY <2>1 DEF RemoveFirst
  <2> QED BY <1>1, <2>2
<1>2. CASE e \in Range(s)
  <2>1. PICK i \in 1..Len(s) : s[i] = e
    BY <1>2 DEF Range
  <2> DEFINE t == SubSeq(s, 1, i-1) \o SubSeq(s, i+1, Len(s))
  <2>2. RemoveFirst(s, e) = t
    BY <2>1, RemoveFirstIs
  <2> DEFINE before == SubSeq(s, 1, i-1)
             after == SubSeq(s, i+1, Len(s))
  <2>3. /\ before \in Seq(S) /\ Len(before) = i - 1
        /\ \A j \in 1..(i - 1) : before[j] = s[j]
    <3>1. \A j \in 1..(i - 1) : s[j] \in S
      BY <2>1
    <3> QED BY <2>1, <3>1, SubSeqProperties
  <2>4. /\ after \in Seq(S) /\ Len(after) = Len(s) - i
        /\ \A j \in 1..(Len(s) - i) : after[j] = s[i + j]
    <3>1. \A j \in (i + 1)..Len(s) : s[j] \in S
      BY <2>1
    <3>2. /\ after \in Seq(S)
          /\ Len(after) = IF i + 1 <= Len(s) THEN Len(s) - (i + 1) + 1 ELSE 0
          /\ \A j \in 1..(Len(s) - (i + 1) + 1) : after[j] = s[(i + 1) + j - 1]
      BY <2>1, <3>1, SubSeqProperties
    <3> HIDE DEF after
    <3>3. Len(after) = Len(s) - i
      BY <2>1, <3>2
    <3>4. ASSUME NEW j \in 1..(Len(s) - i) PROVE after[j] = s[i + j]
      <4>1. j \in 1..(Len(s) - (i + 1) + 1) /\ (i + 1) + j - 1 = i + j
        BY <2>1
      <4> QED BY <3>2, <4>1
    <3> QED BY <3>2, <3>3, <3>4
  <2> HIDE DEF before, after
  <2>5. /\ t \in Seq(S) /\ Len(t) = Len(before) + Len(after)
        /\ \A j \in 1..(Len(before) + Len(after)) :
              t[j] = IF j <= Len(before) THEN before[j] ELSE after[j - Len(before)]
    BY <2>3, <2>4, ConcatProperties DEF before, after
  <2> HIDE DEF t
  <2>6. Len(t) = Len(s) - 1 /\ DOMAIN t = 1..(Len(s) - 1)
    BY <2>1, <2>3, <2>4, <2>5
  <2>7. ASSUME NEW j \in 1..(Len(s) - 1)
        PROVE  t[j] = IF j < i THEN s[j] ELSE s[j + 1]
    <3>1. j \in 1..(Len(before) + Len(after))
      BY <2>1, <2>3, <2>4
    <3>2. CASE j < i
      BY <2>1, <2>3, <2>5, <3>1, <3>2
    <3>3. CASE ~(j < i)
      <4>1. j - (i - 1) \in 1..(Len(s) - i) /\ i + (j - (i - 1)) = j + 1
        BY <2>1, <3>3
      <4>2. after[j - (i - 1)] = s[j + 1]
        BY <2>4, <4>1
      <4> QED BY <2>1, <2>3, <2>5, <3>1, <3>3, <4>2
    <3> QED BY <3>2, <3>3
  <2>8. IsInjective(t)
    <3> SUFFICES ASSUME NEW a \in 1..(Len(s) - 1), NEW b \in 1..(Len(s) - 1), t[a] = t[b]
                 PROVE  a = b
      BY <2>6 DEF IsInjective
    <3> DEFINE Place(j) == IF j < i THEN j ELSE j + 1
    <3>1. Place(a) \in 1..Len(s) /\ Place(b) \in 1..Len(s) /\ s[Place(a)] = s[Place(b)]
      BY <2>1, <2>7
    <3>2. Place(a) = Place(b)
      BY <3>1 DEF IsInjective
    <3> QED BY <2>1, <3>2
  <2>9. Range(t) = Range(s) \ {e}
    <3>1. ASSUME NEW x \in Range(t) PROVE x \in Range(s) \ {e}
      <4>1. PICK j \in 1..(Len(s) - 1) : t[j] = x
        BY <2>6 DEF Range
      <4>2. CASE j < i
        BY <2>1, <2>7, <4>1, <4>2 DEF Range, IsInjective
      <4>3. CASE ~(j < i)
        BY <2>1, <2>7, <4>1, <4>3 DEF Range, IsInjective
      <4> QED BY <4>2, <4>3
    <3>2. ASSUME NEW x \in Range(s) \ {e} PROVE x \in Range(t)
      <4>1. PICK k \in 1..Len(s) : s[k] = x
        BY <3>2 DEF Range
      <4>2. k # i
        BY <2>1, <3>2, <4>1
      <4>3. CASE k < i
        <5>1. k \in 1..(Len(s) - 1) /\ t[k] = s[k]
          BY <2>1, <2>7, <4>3
        <5> QED BY <2>6, <4>1, <5>1 DEF Range
      <4>4. CASE k > i
        <5>1. k - 1 \in 1..(Len(s) - 1) /\ t[k - 1] = s[k]
          BY <2>1, <2>7, <4>4
        <5> QED BY <2>6, <4>1, <5>1 DEF Range
      <4> QED BY <2>1, <4>2, <4>3, <4>4
    <3> QED BY <3>1, <3>2
  <2> QED BY <2>2, <2>5, <2>8, <2>9
<1> QED BY <1>1, <1>2

-----------------------------------------------------------------------------
(***************************************************************************)
(* The probes.                                                             *)
(***************************************************************************)

\* What is known of a status that a check of n delivered: it was seen during the
\* probe, or the context is done and counts against the component.
Known(p, n, status) ==
    \/ status \in seen[p][n]
    \/ status \in {"unhealthy", "timed out"} /\ expired[p]

\* Only checkers of the copy are run, and they see what the component is like.
Watched(p) ==
    \A n \in Names :
        /\ task[p][n] # None => snapshot[p][n] # None
        /\ results[p][n] # None => snapshot[p][n] # None
        /\ snapshot[p][n] # None => seen[p][n] # {}
        /\ pc[p] # "idle" /\ snapshot[p][n] # None =>
             Status(snapshot[p][n], condition, usage) \in seen[p][n]

\* What was delivered, and what was taken, is known.
Delivered(p) ==
    \A n \in Names :
        /\ task[p][n] \in Statuses => Known(p, n, task[p][n])
        /\ results[p][n] # None => Known(p, n, results[p][n])

\* A probe at rest has no checks, one under way no answer, and a probe of a single
\* checker runs only that one.
Phases(p) ==
    /\ pc[p] = "idle" => \A n \in Names : task[p][n] = None /\ results[p][n] = None
    /\ pc[p] # "idle" => answer[p] = None
    /\ pc[p] = "one" => \A m, n \in Names :
          snapshot[p][m] # None /\ snapshot[p][n] # None => m = n

TrueAnswer(p) ==
    answer[p] \in Statuses =>
        /\ \A n \in Names : snapshot[p][n] # None =>
             \E s \in seen[p][n] : Worse[s] <= Worse[answer[p]]
        /\ \/ answer[p] = "healthy"
           \/ answer[p] = "unhealthy" /\ expired[p]
           \/ \E n \in Names : snapshot[p][n] # None /\ answer[p] \in seen[p][n]

ProbeInv(p) == Watched(p) /\ Delivered(p) /\ Phases(p) /\ TrueAnswer(p)

Inv == TypeOK /\ \A p \in Probes : ProbeInv(p)

\* What a probe has.
LEMMA ProbeTypes ==
    ASSUME TypeOK, NEW p \in Probes
    PROVE  /\ pc[p] \in {"idle", "all", "one"}
           /\ snapshot[p] \in [Names -> Checkers \cup {None}]
           /\ task[p] \in [Names -> Statuses \cup {None, "todo", "running"}]
           /\ results[p] \in [Names -> Statuses \cup {None, "timed out"}]
           /\ expired[p] \in BOOLEAN
           /\ answer[p] \in Answers \cup {None}
           /\ seen[p] \in [Names -> SUBSET Statuses]
BY DEF TypeOK

\* A probe that a step does not touch keeps what it has.
LEMMA OthersKeep ==
    ASSUME NEW q \in Probes, ProbeInv(q),
           pc'[q] = pc[q], snapshot'[q] = snapshot[q], task'[q] = task[q],
           results'[q] = results[q], expired'[q] = expired[q], answer'[q] = answer[q],
           seen'[q] = seen[q], UNCHANGED worldVars
    PROVE  ProbeInv(q)'
<1>1. Watched(q)'
  BY DEF ProbeInv, Watched, worldVars
<1>2. Delivered(q)'
  BY DEF ProbeInv, Delivered, Known
<1>3. Phases(q)'
  BY DEF ProbeInv, Phases
<1>4. TrueAnswer(q)'
  BY DEF ProbeInv, TrueAnswer
<1> QED BY <1>1, <1>2, <1>3, <1>4 DEF ProbeInv

LEMMA InitInv == Init => Inv
<1> SUFFICES ASSUME Init PROVE Inv
  OBVIOUS
<1>1. TypeOK
  BY DEF Init, TypeOK, IsInjective, Range, None
<1>2. ASSUME NEW p \in Probes PROVE ProbeInv(p)
  BY DEF Init, ProbeInv, Watched, Delivered, Known, Phases, TrueAnswer, None, Statuses
<1> QED BY <1>1, <1>2 DEF Inv

-----------------------------------------------------------------------------
\* Registering and removing a checker touches no probe.
LEMMA RegisterInv ==
    ASSUME Inv, NEW n \in Names, NEW c \in Checkers, Register(n, c)
    PROVE  Inv'
<1> USE DEF Register, probeVars
<1>1. checkers' \in [Names -> Checkers \cup {None}]
  BY DEF Inv, TypeOK
<1>2. /\ order' \in Seq(Names) /\ IsInjective(order')
      /\ Range(order') = {m \in Names : checkers'[m] # None}
  <2>1. {m \in Names : checkers'[m] # None} = {m \in Names : checkers[m] # None} \cup {n}
    BY HealthAssumption DEF Inv, TypeOK
  <2>2. CASE checkers[n] = None
    <3>1. /\ order \in Seq(Names) /\ IsInjective(order)
          /\ Range(order) = {m \in Names : checkers[m] # None}
      BY DEF Inv, TypeOK
    <3>2. n \notin Range(order) /\ order' = Append(order, n)
      BY <2>2, <3>1
    <3>3. /\ Append(order, n) \in Seq(Names) /\ IsInjective(Append(order, n))
          /\ Range(Append(order, n)) = Range(order) \cup {n}
      BY <3>1, <3>2, RegisterOrder
    <3> QED BY <2>1, <3>1, <3>2, <3>3
  <2>3. CASE checkers[n] # None
    BY <2>1, <2>3 DEF Inv, TypeOK
  <2> QED BY <2>2, <2>3
<1>3. TypeOK'
  BY <1>1, <1>2 DEF Inv, TypeOK, worldVars
<1>4. ASSUME NEW q \in Probes PROVE ProbeInv(q)'
  BY OthersKeep DEF Inv
<1> QED BY <1>3, <1>4 DEF Inv

LEMMA UnregisterInv ==
    ASSUME Inv, NEW n \in Names, Unregister(n)
    PROVE  Inv'
<1> USE DEF Unregister, probeVars
<1>1. checkers' \in [Names -> Checkers \cup {None}]
  BY DEF Inv, TypeOK
<1>2. /\ order' \in Seq(Names) /\ IsInjective(order')
      /\ Range(order') = {m \in Names : checkers'[m] # None}
  <2>1. {m \in Names : checkers'[m] # None} = {m \in Names : checkers[m] # None} \ {n}
    BY DEF Inv, TypeOK
  <2>2. /\ order \in Seq(Names) /\ IsInjective(order)
        /\ Range(order) = {m \in Names : checkers[m] # None}
    BY DEF Inv, TypeOK
  <2>3. /\ RemoveFirst(order, n) \in Seq(Names) /\ IsInjective(RemoveFirst(order, n))
        /\ Range(RemoveFirst(order, n)) = Range(order) \ {n}
    BY <2>2, UnregisterOrder
  <2> QED BY <2>1, <2>2, <2>3
<1>3. TypeOK'
  BY <1>1, <1>2 DEF Inv, TypeOK, worldVars
<1>4. ASSUME NEW q \in Probes PROVE ProbeInv(q)'
  BY OthersKeep DEF Inv
<1> QED BY <1>3, <1>4 DEF Inv

-----------------------------------------------------------------------------
\* A probe begins with a copy of the checkers, and sees what they are like.
LEMMA BeginInv ==
    ASSUME Inv, NEW p \in Probes, NEW chosen \in [Names -> Checkers \cup {None}],
           Begin(p, chosen),
           NEW kind \in {"idle", "all", "one"}, pc' = [pc EXCEPT ![p] = kind],
           NEW told \in {None, "not found"}, answer' = [answer EXCEPT ![p] = told],
           kind = "idle" => \A n \in Names : chosen[n] = None,
           kind # "idle" => told = None,
           kind = "one" => \A m, n \in Names : chosen[m] # None /\ chosen[n] # None => m = n
    PROVE  Inv'
<1> DEFINE first == [n \in Names |-> IF chosen[n] = None THEN {}
                                     ELSE {Status(chosen[n], condition, usage)}]
           todo == [n \in Names |-> IF chosen[n] = None THEN None ELSE "todo"]
           nothing == [n \in Names |-> None]
<1>1. /\ snapshot' = [snapshot EXCEPT ![p] = chosen] /\ task' = [task EXCEPT ![p] = todo]
      /\ results' = [results EXCEPT ![p] = nothing] /\ expired' = [expired EXCEPT ![p] = FALSE]
      /\ seen' = [seen EXCEPT ![p] = first]
      /\ UNCHANGED <<parallel, registryVars, worldVars>>
  BY DEF Begin
<1>2. /\ todo \in [Names -> Statuses \cup {None, "todo", "running"}]
      /\ nothing \in [Names -> Statuses \cup {None, "timed out"}]
  OBVIOUS
<1>3. first \in [Names -> SUBSET Statuses]
  <2>1. ASSUME NEW n \in Names, chosen[n] # None
        PROVE  Status(chosen[n], condition, usage) \in Statuses
    BY <2>1, StatusType DEF Inv, TypeOK
  <2> QED BY <2>1
<1>4. /\ \A n \in Names : todo[n] = IF chosen[n] = None THEN None ELSE "todo"
      /\ \A n \in Names : nothing[n] = None
      /\ \A n \in Names : chosen[n] = None => first[n] = {}
      /\ \A n \in Names : chosen[n] # None => first[n] = {Status(chosen[n], condition, usage)}
  OBVIOUS
<1> HIDE DEF first, todo, nothing
<1>5. TypeOK'
  <2>1. /\ snapshot' \in [Probes -> [Names -> Checkers \cup {None}]]
        /\ task' \in [Probes -> [Names -> Statuses \cup {None, "todo", "running"}]]
        /\ results' \in [Probes -> [Names -> Statuses \cup {None, "timed out"}]]
        /\ seen' \in [Probes -> [Names -> SUBSET Statuses]]
    BY <1>1, <1>2, <1>3 DEF Inv, TypeOK
  <2>2. /\ pc' \in [Probes -> {"idle", "all", "one"}] /\ expired' \in [Probes -> BOOLEAN]
        /\ answer' \in [Probes -> Answers \cup {None}]
    BY <1>1 DEF Inv, TypeOK, Answers
  <2> QED BY <1>1, <2>1, <2>2 DEF Inv, TypeOK, registryVars, worldVars
<1>6. /\ pc'[p] = kind /\ answer'[p] = told /\ snapshot'[p] = chosen /\ task'[p] = todo
      /\ results'[p] = nothing /\ seen'[p] = first
      /\ condition' = condition /\ usage' = usage
  BY <1>1 DEF Inv, TypeOK, worldVars
<1>7. ProbeInv(p)'
  <2>1. Watched(p)'
    BY <1>4, <1>6 DEF Watched
  <2>2. Delivered(p)'
    BY <1>4, <1>6 DEF Delivered, Statuses, None
  <2>3. Phases(p)'
    BY <1>4, <1>6 DEF Phases
  <2>4. TrueAnswer(p)'
    BY <1>6 DEF TrueAnswer, Statuses, None
  <2> QED BY <2>1, <2>2, <2>3, <2>4 DEF ProbeInv
<1>8. ASSUME NEW q \in Probes \ {p} PROVE ProbeInv(q)'
  BY <1>1, OthersKeep DEF Inv, TypeOK
<1> QED BY <1>5, <1>7, <1>8 DEF Inv

LEMMA CheckAllInv ==
    ASSUME Inv, NEW p \in Probes, CheckAll(p)
    PROVE  Inv'
<1>1. checkers \in [Names -> Checkers \cup {None}]
  BY DEF Inv, TypeOK
<1> QED BY <1>1, BeginInv DEF CheckAll

LEMMA CheckInv ==
    ASSUME Inv, NEW p \in Probes, NEW n \in Names, Check(p, n)
    PROVE  Inv'
<1> DEFINE chosen == [m \in Names |-> IF m = n THEN checkers[n] ELSE None]
<1>1. chosen \in [Names -> Checkers \cup {None}]
  BY DEF Inv, TypeOK
<1>2. Begin(p, chosen) /\ pc[p] = "idle"
  BY DEF Check
<1>3. CASE checkers[n] = None
  <2>1. /\ pc' = [pc EXCEPT ![p] = "idle"] /\ answer' = [answer EXCEPT ![p] = "not found"]
        /\ \A m \in Names : chosen[m] = None
    BY <1>3 DEF Check
  <2> HIDE DEF chosen
  <2> QED BY <1>1, <1>2, <2>1, BeginInv
<1>4. CASE checkers[n] # None
  <2>1. /\ pc' = [pc EXCEPT ![p] = "one"] /\ answer' = [answer EXCEPT ![p] = None]
        /\ \A l, m \in Names : chosen[l] # None /\ chosen[m] # None => l = m
    BY <1>4 DEF Check
  <2> HIDE DEF chosen
  <2> QED BY <1>1, <1>2, <2>1, BeginInv
<1> QED BY <1>3, <1>4

-----------------------------------------------------------------------------
\* A check starts, or delivers what is known.
LEMMA TaskInv ==
    ASSUME Inv, NEW p \in Probes, NEW n \in Names, NEW t \in Statuses \cup {"running"},
           task[p][n] # None, task' = [task EXCEPT ![p][n] = t],
           t \in Statuses => Known(p, n, t),
           UNCHANGED <<parallel, registryVars, worldVars, pc, snapshot, results, expired,
                       answer, seen>>
    PROVE  Inv'
<1>1. task' \in [Probes -> [Names -> Statuses \cup {None, "todo", "running"}]]
  BY DEF Inv, TypeOK
<1>2. TypeOK'
  BY <1>1 DEF Inv, TypeOK, registryVars, worldVars
<1>3. /\ task'[p][n] = t /\ \A m \in Names \ {n} : task'[p][m] = task[p][m]
      /\ \A q \in Probes \ {p} : task'[q] = task[q]
  BY DEF Inv, TypeOK
<1>4. pc[p] # "idle" /\ snapshot[p][n] # None
  BY DEF Inv, ProbeInv, Phases, Watched
<1>5. ProbeInv(p)'
  <2>1. Watched(p)'
    BY <1>3, <1>4 DEF Inv, ProbeInv, Watched, worldVars
  <2>2. Delivered(p)'
    <3> SUFFICES ASSUME NEW m \in Names
                 PROVE  /\ task'[p][m] \in Statuses => Known(p, m, task[p][m])'
                        /\ results'[p][m] # None => Known(p, m, results[p][m])'
      BY DEF Delivered
    <3>1. results'[p][m] # None => Known(p, m, results[p][m])'
      BY DEF Inv, ProbeInv, Delivered, Known
    <3>2. CASE m = n
      BY <1>3, <3>1, <3>2 DEF Known
    <3>3. CASE m # n
      BY <1>3, <3>1, <3>3 DEF Inv, ProbeInv, Delivered, Known
    <3> QED BY <3>2, <3>3
  <2>3. Phases(p)'
    BY <1>4 DEF Inv, ProbeInv, Phases
  <2>4. TrueAnswer(p)'
    BY DEF Inv, ProbeInv, TrueAnswer
  <2> QED BY <2>1, <2>2, <2>3, <2>4 DEF ProbeInv
<1>6. ASSUME NEW q \in Probes \ {p} PROVE ProbeInv(q)'
  BY <1>3, OthersKeep DEF Inv
<1> QED BY <1>2, <1>5, <1>6 DEF Inv

LEMMA StartCheckInv ==
    ASSUME Inv, NEW p \in Probes, NEW n \in Names, StartCheck(p, n)
    PROVE  Inv'
<1>1. task[p][n] # None /\ "running" \notin Statuses
  BY DEF StartCheck, None, Statuses
<1> QED BY <1>1, TaskInv DEF StartCheck

LEMMA CheckReturnsInv ==
    ASSUME Inv, NEW p \in Probes, NEW n \in Names, CheckReturns(p, n)
    PROVE  Inv'
<1>1. task[p][n] = "running" /\ task[p][n] # None
  BY DEF CheckReturns, None
<1>2. snapshot[p][n] # None /\ pc[p] # "idle" /\ snapshot[p][n] \in Checkers
  <2>1. snapshot[p][n] # None /\ pc[p] # "idle"
    BY <1>1 DEF Inv, ProbeInv, Watched, Phases
  <2>2. snapshot[p] \in [Names -> Checkers \cup {None}]
    BY ProbeTypes DEF Inv
  <2> QED BY <2>1, <2>2
<1>3. PICK status \in {Status(snapshot[p][n], condition, usage)} \cup
            (IF snapshot[p][n] \in Memory /\ expired[p] THEN {"unhealthy"} ELSE {}) :
         task' = [task EXCEPT ![p][n] = status]
  BY DEF CheckReturns
<1>4. Status(snapshot[p][n], condition, usage) \in Statuses
  BY <1>2, StatusType DEF Inv, TypeOK
<1>5. status \in Statuses
  BY <1>3, <1>4 DEF Statuses
<1>6. Known(p, n, status)
  BY <1>2, <1>3 DEF Inv, ProbeInv, Watched, Known
<1> QED BY <1>1, <1>3, <1>5, <1>6, TaskInv DEF CheckReturns

\* The select of runCheck takes what is known.
LEMMA ResultInv ==
    ASSUME Inv, NEW p \in Probes, NEW n \in Names, NEW status \in Statuses \cup {"timed out"},
           task[p][n] # None, Known(p, n, status), Result(p, n, status)
    PROVE  Inv'
<1> USE DEF Result
<1>1. results' \in [Probes -> [Names -> Statuses \cup {None, "timed out"}]]
  BY DEF Inv, TypeOK
<1>2. TypeOK'
  BY <1>1 DEF Inv, TypeOK, registryVars, worldVars
<1>3. /\ results'[p][n] = status /\ \A m \in Names \ {n} : results'[p][m] = results[p][m]
      /\ \A q \in Probes \ {p} : results'[q] = results[q]
  BY DEF Inv, TypeOK
<1>4. pc[p] # "idle" /\ snapshot[p][n] # None
  BY DEF Inv, ProbeInv, Phases, Watched
<1>5. ProbeInv(p)'
  <2>1. Watched(p)'
    BY <1>3, <1>4 DEF Inv, ProbeInv, Watched, worldVars
  <2>2. Delivered(p)'
    BY <1>3 DEF Inv, ProbeInv, Delivered, Known
  <2>3. Phases(p)'
    BY <1>4 DEF Inv, ProbeInv, Phases
  <2>4. TrueAnswer(p)'
    BY DEF Inv, ProbeInv, TrueAnswer
  <2> QED BY <2>1, <2>2, <2>3, <2>4 DEF ProbeInv
<1>6. ASSUME NEW q \in Probes \ {p} PROVE ProbeInv(q)'
  BY <1>3, OthersKeep DEF Inv
<1> QED BY <1>2, <1>5, <1>6 DEF Inv

LEMMA TakeResultInv ==
    ASSUME Inv, NEW p \in Probes, NEW n \in Names, TakeResult(p, n)
    PROVE  Inv'
<1>1. task[p][n] \in Statuses /\ task[p][n] # None /\ Result(p, n, task[p][n])
  BY DEF TakeResult, Statuses, None
<1>2. Known(p, n, task[p][n])
  BY <1>1 DEF Inv, ProbeInv, Delivered
<1> QED BY <1>1, <1>2, ResultInv

LEMMA TimesOutInv ==
    ASSUME Inv, NEW p \in Probes, NEW n \in Names, TimesOut(p, n)
    PROVE  Inv'
<1>1. task[p][n] # None /\ Result(p, n, "timed out")
  BY DEF TimesOut, Statuses, None
<1>2. Known(p, n, "timed out")
  BY DEF TimesOut, Known
<1> QED BY <1>1, <1>2, ResultInv

LEMMA ExpireInv ==
    ASSUME Inv, NEW p \in Probes, Expire(p)
    PROVE  Inv'
<1> USE DEF Expire
<1>1. TypeOK'
  BY DEF Inv, TypeOK, registryVars, worldVars
<1>2. expired'[p] /\ \A q \in Probes \ {p} : expired'[q] = expired[q]
  BY DEF Inv, TypeOK
<1>3. ProbeInv(p)'
  <2>1. Watched(p)'
    BY DEF Inv, ProbeInv, Watched, worldVars
  <2>2. Delivered(p)'
    BY <1>2 DEF Inv, ProbeInv, Delivered, Known
  <2>3. Phases(p)'
    BY DEF Inv, ProbeInv, Phases
  <2>4. TrueAnswer(p)'
    BY DEF Inv, ProbeInv, Phases, TrueAnswer, Statuses, None
  <2> QED BY <2>1, <2>2, <2>3, <2>4 DEF ProbeInv
<1>4. ASSUME NEW q \in Probes \ {p} PROVE ProbeInv(q)'
  BY <1>2, OthersKeep DEF Inv
<1> QED BY <1>1, <1>3, <1>4 DEF Inv

-----------------------------------------------------------------------------
\* An answer that is true of what was seen may be given.
LEMMA RespondInv ==
    ASSUME Inv, NEW p \in Probes, NEW kind \in {"all", "one"}, NEW status \in Statuses,
           Respond(p, kind, status),
           \A n \in Names : snapshot[p][n] # None =>
              \E s \in seen[p][n] : Worse[s] <= Worse[status],
           \/ status = "healthy"
           \/ status = "unhealthy" /\ expired[p]
           \/ \E n \in Names : snapshot[p][n] # None /\ status \in seen[p][n]
    PROVE  Inv'
<1> DEFINE nothing == [n \in Names |-> None]
<1>1. /\ pc' = [pc EXCEPT ![p] = "idle"] /\ answer' = [answer EXCEPT ![p] = status]
      /\ task' = [task EXCEPT ![p] = nothing] /\ results' = [results EXCEPT ![p] = nothing]
      /\ UNCHANGED <<parallel, registryVars, worldVars, snapshot, expired, seen>>
  BY DEF Respond
<1>2. /\ nothing \in [Names -> Statuses \cup {None, "todo", "running"}]
      /\ nothing \in [Names -> Statuses \cup {None, "timed out"}]
      /\ \A n \in Names : nothing[n] = None
  OBVIOUS
<1> HIDE DEF nothing
<1>3. TypeOK'
  <2>1. /\ task' \in [Probes -> [Names -> Statuses \cup {None, "todo", "running"}]]
        /\ results' \in [Probes -> [Names -> Statuses \cup {None, "timed out"}]]
        /\ pc' \in [Probes -> {"idle", "all", "one"}]
        /\ answer' \in [Probes -> Answers \cup {None}]
    BY <1>1, <1>2 DEF Inv, TypeOK, Answers
  <2> QED BY <1>1, <2>1 DEF Inv, TypeOK, registryVars, worldVars
<1>4. pc'[p] = "idle" /\ answer'[p] = status /\ task'[p] = nothing /\ results'[p] = nothing
  BY <1>1 DEF Inv, TypeOK
<1>5. ProbeInv(p)'
  <2>1. Watched(p)'
    BY <1>1, <1>2, <1>4 DEF Inv, ProbeInv, Watched
  <2>2. Delivered(p)'
    BY <1>2, <1>4 DEF Delivered, Statuses, None
  <2>3. Phases(p)'
    BY <1>2, <1>4 DEF Phases
  <2>4. TrueAnswer(p)'
    BY <1>1, <1>4 DEF TrueAnswer
  <2> QED BY <2>1, <2>2, <2>3, <2>4 DEF ProbeInv
<1>6. ASSUME NEW q \in Probes \ {p} PROVE ProbeInv(q)'
  BY <1>1, OthersKeep DEF Inv, TypeOK
<1> QED BY <1>3, <1>5, <1>6 DEF Inv

\* What OverallStatus makes of the statuses that were reported.
LEMMA OverallIs ==
    ASSUME NEW reported
    PROVE  \/ /\ OverallStatus(reported) = "unhealthy"
              /\ "unhealthy" \in reported \/ "timed out" \in reported
           \/ /\ OverallStatus(reported) = "degraded" /\ "degraded" \in reported
              /\ "unhealthy" \notin reported /\ "timed out" \notin reported
           \/ /\ OverallStatus(reported) = "healthy" /\ "degraded" \notin reported
              /\ "unhealthy" \notin reported /\ "timed out" \notin reported
<1> DEFINE bad == {"unhealthy", "timed out"} \cap reported
<1>1. CASE bad # {}
  BY <1>1 DEF OverallStatus
<1>2. CASE bad = {} /\ "degraded" \in reported
  BY <1>2 DEF OverallStatus
<1>3. CASE bad = {} /\ "degraded" \notin reported
  BY <1>3 DEF OverallStatus
<1> QED BY <1>1, <1>2, <1>3

\* The results that an answer is made of: one for every checker of the copy.
LEMMA ReportedIs ==
    ASSUME Inv, NEW p \in Probes,
           \A n \in Names : snapshot[p][n] # None => results[p][n] # None
    PROVE  /\ \A n \in Names : snapshot[p][n] # None =>
                /\ results[p][n] \in Reported(p)
                /\ results[p][n] \in Statuses \cup {"timed out"}
                /\ Known(p, n, results[p][n])
                /\ seen[p][n] # {} /\ seen[p][n] \subseteq Statuses
           /\ \A r \in Reported(p) : \E n \in Names : snapshot[p][n] # None /\ r = results[p][n]
<1>1. results[p] \in [Names -> Statuses \cup {None, "timed out"}]
  BY ProbeTypes DEF Inv
<1>2. seen[p] \in [Names -> SUBSET Statuses]
  BY ProbeTypes DEF Inv
<1>3. \A n \in Names : snapshot[p][n] # None =>
        Known(p, n, results[p][n]) /\ seen[p][n] # {}
  BY DEF Inv, ProbeInv, Delivered, Watched
<1> QED BY <1>1, <1>2, <1>3 DEF Reported

LEMMA RespondAllInv ==
    ASSUME Inv, NEW p \in Probes, RespondAll(p)
    PROVE  Inv'
<1> DEFINE status == OverallStatus(Reported(p))
<1>1. /\ Respond(p, "all", status)
      /\ \A n \in Names : snapshot[p][n] # None => results[p][n] # None
  BY DEF RespondAll, Respond
<1>2. status \in Statuses
  BY OverallIs DEF Statuses
<1>3. ASSUME NEW n \in Names, snapshot[p][n] # None
      PROVE  \E s \in seen[p][n] : Worse[s] <= Worse[status]
  <2>1. /\ results[p][n] \in Reported(p) /\ results[p][n] \in Statuses \cup {"timed out"}
        /\ Known(p, n, results[p][n]) /\ seen[p][n] # {} /\ seen[p][n] \subseteq Statuses
    BY <1>1, <1>3, ReportedIs
  <2>2. CASE status = "unhealthy"
    <3>1. PICK s \in seen[p][n] : s \in Statuses
      BY <2>1
    <3>2. Worse[s] \in 0..2 /\ Worse[status] = 2
      BY <3>1, <2>2, WorseFacts
    <3>3. Worse[s] <= Worse[status]
      BY <3>2
    <3> QED BY <3>1, <3>3
  <2>3. CASE status = "degraded"
    <3>1. results[p][n] \in {"healthy", "degraded"}
      BY <2>1, <2>3, OverallIs DEF Statuses
    <3>2. results[p][n] \in seen[p][n]
      BY <2>1, <3>1 DEF Known
    <3>3. Worse[results[p][n]] <= Worse[status]
      BY <2>3, <3>1, WorseFacts
    <3> QED BY <3>2, <3>3
  <2>4. CASE status = "healthy"
    <3>1. results[p][n] = "healthy"
      BY <2>1, <2>4, OverallIs DEF Statuses
    <3>2. "healthy" \in seen[p][n]
      BY <2>1, <3>1 DEF Known
    <3>3. Worse["healthy"] <= Worse[status]
      BY <2>4, WorseFacts
    <3> QED BY <3>2, <3>3
  <2> QED BY <1>2, <2>2, <2>3, <2>4 DEF Statuses
<1>4. \/ status = "healthy"
      \/ status = "unhealthy" /\ expired[p]
      \/ \E n \in Names : snapshot[p][n] # None /\ status \in seen[p][n]
  <2>1. CASE status = "unhealthy"
    <3>1. PICK r \in Reported(p) : r \in {"unhealthy", "timed out"}
      BY <2>1, OverallIs
    <3>2. PICK n \in Names : snapshot[p][n] # None /\ r = results[p][n]
      BY <1>1, ReportedIs
    <3>3. Known(p, n, r) /\ seen[p][n] \subseteq Statuses
      BY <1>1, <3>2, ReportedIs
    <3> QED BY <2>1, <3>1, <3>2, <3>3 DEF Known, Statuses
  <2>2. CASE status = "degraded"
    <3>1. "degraded" \in Reported(p)
      BY <2>2, OverallIs
    <3>2. PICK n \in Names : snapshot[p][n] # None /\ "degraded" = results[p][n]
      BY <1>1, <3>1, ReportedIs
    <3>3. Known(p, n, "degraded")
      BY <1>1, <3>2, ReportedIs
    <3> QED BY <2>2, <3>2, <3>3 DEF Known
  <2> QED BY <1>2, <2>1, <2>2 DEF Statuses
<1> HIDE DEF status
<1> QED BY <1>1, <1>2, <1>3, <1>4, RespondInv

LEMMA RespondSingleInv ==
    ASSUME Inv, NEW p \in Probes, RespondSingle(p)
    PROVE  Inv'
<1>1. PICK r \in Reported(p) :
        Respond(p, "one", IF r = "timed out" THEN "unhealthy" ELSE r)
  BY DEF RespondSingle
<1> DEFINE status == IF r = "timed out" THEN "unhealthy" ELSE r
<1>2. /\ \A n \in Names : snapshot[p][n] # None => results[p][n] # None
      /\ pc[p] = "one"
  BY <1>1 DEF Respond
<1>3. PICK n \in Names : snapshot[p][n] # None /\ r = results[p][n]
  BY <1>2, ReportedIs
<1>4. /\ r \in Statuses \cup {"timed out"} /\ Known(p, n, r)
      /\ seen[p][n] # {} /\ seen[p][n] \subseteq Statuses
  BY <1>2, <1>3, ReportedIs
<1>5. status \in Statuses
  BY <1>4 DEF Statuses
<1>6. status \in seen[p][n] \/ (status = "unhealthy" /\ expired[p])
  BY <1>4 DEF Known, Statuses
<1>7. Respond(p, "one", status)
  BY <1>1
<1> HIDE DEF status
<1>8. \E s \in seen[p][n] : Worse[s] <= Worse[status]
  <2>1. CASE status = "unhealthy"
    <3>1. PICK s \in seen[p][n] : s \in Statuses
      BY <1>4
    <3>2. Worse[s] \in 0..2 /\ Worse[status] = 2
      BY <3>1, <2>1, WorseFacts
    <3>3. Worse[s] <= Worse[status]
      BY <3>2
    <3> QED BY <3>1, <3>3
  <2>2. CASE status # "unhealthy"
    <3>1. status \in seen[p][n]
      BY <1>6, <2>2
    <3>2. Worse[status] \in 0..2
      BY <1>5, WorseFacts
    <3>3. Worse[status] <= Worse[status]
      BY <3>2
    <3> QED BY <3>1, <3>3
  <2> QED BY <2>1, <2>2
<1>9. \A m \in Names : snapshot[p][m] # None => m = n
  BY <1>2, <1>3 DEF Inv, ProbeInv, Phases
<1> QED BY <1>3, <1>5, <1>6, <1>7, <1>8, <1>9, RespondInv

-----------------------------------------------------------------------------
\* The components change, and the probes under way see it.
LEMMA ConditionChangesInv ==
    ASSUME Inv, ConditionChanges
    PROVE  Inv'
<1>1. /\ condition' \in [Checkers \ Memory -> Conditions] /\ usage' \in Usages
      /\ UNCHANGED <<parallel, registryVars, pc, snapshot, task, results, expired, answer>>
  BY DEF ConditionChanges
<1> DEFINE Saw(p, n) == IF pc[p] # "idle" /\ snapshot[p][n] # None
                        THEN seen[p][n] \cup {Status(snapshot[p][n], condition', usage')}
                        ELSE seen[p][n]
<1>2. seen' = [p \in Probes |-> [n \in Names |-> Saw(p, n)]]
  BY DEF ConditionChanges
<1>3. ASSUME NEW p \in Probes, NEW n \in Names PROVE Saw(p, n) \in SUBSET Statuses
  <2>1. snapshot[p] \in [Names -> Checkers \cup {None}] /\ seen[p] \in [Names -> SUBSET Statuses]
    BY ProbeTypes DEF Inv
  <2>2. CASE snapshot[p][n] # None
    <3>1. Status(snapshot[p][n], condition', usage') \in Statuses
      BY <1>1, <2>1, <2>2, StatusType
    <3> QED BY <2>1, <3>1
  <2> QED BY <2>1, <2>2
<1>4. ASSUME NEW p \in Probes, NEW n \in Names
      PROVE  /\ seen'[p][n] = Saw(p, n) /\ seen[p][n] \subseteq seen'[p][n]
             /\ pc[p] = "idle" => seen'[p][n] = seen[p][n]
             /\ pc[p] # "idle" /\ snapshot[p][n] # None =>
                  Status(snapshot[p][n], condition', usage') \in seen'[p][n]
  BY <1>2
<1>5. TypeOK'
  <2>1. seen' \in [Probes -> [Names -> SUBSET Statuses]]
    BY <1>2, <1>3
  <2> QED BY <1>1, <2>1 DEF Inv, TypeOK, registryVars
<1> HIDE DEF Saw
<1>6. ASSUME NEW p \in Probes PROVE ProbeInv(p)'
  <2>1. Watched(p)'
    BY <1>1, <1>4 DEF Inv, ProbeInv, Watched
  <2>2. Delivered(p)'
    BY <1>1, <1>4 DEF Inv, ProbeInv, Delivered, Known
  <2>3. Phases(p)'
    BY <1>1 DEF Inv, ProbeInv, Phases
  <2>4. TrueAnswer(p)'
    <3>1. CASE pc[p] = "idle"
      BY <1>1, <1>4, <3>1 DEF Inv, ProbeInv, TrueAnswer
    <3>2. CASE pc[p] # "idle"
      BY <1>1, <3>2 DEF Inv, ProbeInv, Phases, TrueAnswer, Statuses, None
    <3> QED BY <3>1, <3>2
  <2> QED BY <2>1, <2>2, <2>3, <2>4 DEF ProbeInv
<1> QED BY <1>5, <1>6 DEF Inv

LEMMA NextInv == Inv /\ [Next]_vars => Inv'
<1> SUFFICES ASSUME Inv, [Next]_vars PROVE Inv'
  OBVIOUS
<1>1. ASSUME NEW n \in Names, Unregister(n) \/ \E c \in Checkers : Register(n, c) PROVE Inv'
  BY <1>1, RegisterInv, UnregisterInv
<1>2. ASSUME NEW p \in Probes, CheckAll(p) \/ Expire(p) \/ RespondAll(p) \/ RespondSingle(p)
      PROVE  Inv'
  BY <1>2, CheckAllInv, ExpireInv, RespondAllInv, RespondSingleInv
<1>3. ASSUME NEW p \in Probes, NEW n \in Names,
             \/ StartCheck(p, n) \/ TakeResult(p, n) \/ TimesOut(p, n)
             \/ Check(p, n) \/ CheckReturns(p, n)
      PROVE  Inv'
  BY <1>3, StartCheckInv, TakeResultInv, TimesOutInv, CheckInv, CheckReturnsInv
<1>4. CASE ConditionChanges
  BY <1>4, ConditionChangesInv
<1>5. CASE UNCHANGED vars
  <2>1. TypeOK'
    BY <1>5 DEF vars, registryVars, worldVars, probeVars, Inv, TypeOK
  <2>2. ASSUME NEW q \in Probes PROVE ProbeInv(q)'
    BY <1>5, OthersKeep DEF vars, worldVars, probeVars, Inv
  <2> QED BY <2>1, <2>2 DEF Inv
<1> QED BY <1>1, <1>2, <1>3, <1>4, <1>5 DEF Next, Continue

LEMMA Invariance == Spec => []Inv
BY InitInv, NextInv, PTL DEF Spec

-----------------------------------------------------------------------------
\* The order of registration lists every registered checker once, however often names are
\* registered again and removed, and every probe has what runCheck can give it.
THEOREM TypeCorrect == Spec => []TypeOK
<1>1. Inv => TypeOK
  BY DEF Inv
<1> QED BY <1>1, Invariance, PTL

\* The answers of the handlers are true of the time of the probe, for any number of
\* probes and checkers, while the registry and the components change under them.
THEOREM AnswersTrue == Spec => []AnswerIsTrue
<1>1. Inv => AnswerIsTrue
  <2>1. (\A p \in Probes : TrueAnswer(p)) => AnswerIsTrue
    BY DEF TrueAnswer, AnswerIsTrue
  <2> QED BY <2>1 DEF Inv, ProbeInv
<1> QED BY <1>1, Invariance, PTL

=============================================================================
