-------------------------- MODULE ToolCacheProofs --------------------------
(***************************************************************************)
(* What the cache serves, proved for any number of callers and keys, any   *)
(* policy and any interleaving of Get, Set, Delete and the clock.          *)
(***************************************************************************)
EXTENDS ToolCache, TLAPS

\* A result in hand between the executor and Set is as proper as a cached one.
InHandProper == \A p \in Callers : got[p] # None => Proper(got[p], key[p])

\* A call on its way through the cache is one the policy lets through.
OnlyAllowedCalls ==
    \A p \in Callers :
        pc[p] \in {"lookup", "checking", "evicting", "executing", "storing"} =>
            AllowUnsafe \/ ~unsafe[p]

\* Every entry, stored or in hand, was stored with the policy's TTL.
StoredWithTTL ==
    /\ \A k \in Keys : entries[k] # None => entries[k].ttl = TTL
    /\ \A p \in Callers : found[p] # None => found[p].ttl = TTL

IInv ==
    /\ TypeOK
    /\ OnlyProperResultsCached
    /\ InHandProper
    /\ OnlyAllowedCalls
    /\ StoredWithTTL

-----------------------------------------------------------------------------
\* EffectiveTTL(0) is a TTL, within DefaultTTL and within MaxTTL where one is set.
LEMMA TTLClamped ==
    TTL \in Nat /\ TTL <= DefaultTTL /\ (MaxTTL > 0 => TTL <= MaxTTL)
BY PolicyAssumption DEF TTL, EffectiveTTL

\* An entry is not None, and has its fields.
LEMMA EntryFields ==
    ASSUME NEW e \in Entries
    PROVE  /\ e # None
           /\ e.result \in Results /\ e.ttl \in Nat /\ e.age \in Nat
BY DEF Entries, None

\* What Set stores is an entry that holds the result it was given.
LEMMA StoredEntry ==
    ASSUME NEW r \in Results, NEW e,
           e = [kind |-> "entry", result |-> r, ttl |-> TTL, age |-> 0]
    PROVE  e \in Entries /\ e.result = r /\ e.ttl = TTL
BY TTLClamped DEF Entries

\* Ageing keeps an entry an entry, and its result and its ttl.
LEMMA OlderKeeps ==
    ASSUME NEW e \in Entries \cup {None}
    PROVE  /\ Older(e) \in Entries \cup {None}
           /\ Older(e) = None <=> e = None
           /\ e # None => Older(e).result = e.result /\ Older(e).ttl = e.ttl
<1>1. CASE e = None
  BY <1>1 DEF Older
<1>2. CASE e \in Entries /\ Expired(e)
  BY <1>2, EntryFields DEF Older
<1>3. CASE e \in Entries /\ ~Expired(e)
  <2>1. e # None
    BY <1>3, EntryFields
  <2>2. Older(e) = [e EXCEPT !.age = @ + 1]
    BY <1>3, <2>1 DEF Older
  <2>3. /\ Older(e) \in Entries
        /\ Older(e).result = e.result
        /\ Older(e).ttl = e.ttl
    BY <1>3, <2>2 DEF Entries
  <2> QED
    BY <2>1, <2>3, EntryFields
<1> QED
  BY <1>1, <1>2, <1>3

\* A result that is not in hand any more, and one that has not grown newer than
\* its source, stay proper.
LEMMA ProperKept ==
    ASSUME NEW k \in Keys, NEW r \in Results, Proper(r, k),
           source \in [Keys -> 0..MaxVersion], source' \in [Keys -> 0..MaxVersion],
           source[k] <= source'[k]
    PROVE  Proper(r, k)'
BY PolicyAssumption DEF Proper, Results

-----------------------------------------------------------------------------
LEMMA InitIInv == Init => IInv
<1> SUFFICES ASSUME Init PROVE IInv
  OBVIOUS
<1>1. (CHOOSE k \in Keys : TRUE) \in Keys
  BY PolicyAssumption
<1>2. TypeOK
  BY <1>1, PolicyAssumption DEF Init, TypeOK
<1>3. OnlyProperResultsCached /\ InHandProper /\ OnlyAllowedCalls /\ StoredWithTTL
  BY DEF Init, OnlyProperResultsCached, InHandProper, OnlyAllowedCalls, StoredWithTTL
<1> QED
  BY <1>2, <1>3 DEF IInv

LEMMA NextIInv == IInv /\ [Next]_vars => IInv'
<1> SUFFICES ASSUME IInv, [Next]_vars PROVE IInv'
  OBVIOUS
<1> USE DEF IInv
<1>1. ASSUME NEW p \in Callers, Call(p) PROVE IInv'
  <2>1. PICK k \in Keys, isUnsafe \in BOOLEAN, keyed \in BOOLEAN :
           /\ Go(p, "idle", IF UsesCache(isUnsafe, keyed) THEN "lookup" ELSE "bypassing")
           /\ key' = [key EXCEPT ![p] = k]
           /\ unsafe' = [unsafe EXCEPT ![p] = isUnsafe]
           /\ UNCHANGED <<entries, source, found, got>>
    BY <1>1 DEF Call
  <2>2. TypeOK'
    BY <2>1 DEF TypeOK, Go
  <2>3. got[p] = None /\ found[p] = None
    BY <2>1 DEF TypeOK, Go
  <2>4. OnlyProperResultsCached' /\ InHandProper' /\ StoredWithTTL'
    BY <2>1, <2>3 DEF TypeOK, OnlyProperResultsCached, InHandProper, StoredWithTTL, Proper
  <2>5. OnlyAllowedCalls'
    BY <2>1 DEF TypeOK, OnlyAllowedCalls, Go, UsesCache
  <2> QED
    BY <2>2, <2>4, <2>5
<1>2. ASSUME NEW p \in Callers, Lookup(p) PROVE IInv'
  <2>1. TypeOK'
    BY <1>2, EntryFields DEF TypeOK, Go, Lookup
  <2>2. OnlyProperResultsCached' /\ InHandProper' /\ StoredWithTTL'
    BY <1>2 DEF TypeOK, OnlyProperResultsCached, InHandProper, StoredWithTTL, Proper, Lookup
  <2>3. OnlyAllowedCalls'
    BY <1>2 DEF TypeOK, OnlyAllowedCalls, Go, Lookup
  <2> QED
    BY <2>1, <2>2, <2>3
<1>3. ASSUME NEW p \in Callers, Hit(p) \/ FindExpired(p) \/ BypassReturns(p) PROVE IInv'
  <2>1. TypeOK'
    BY <1>3 DEF TypeOK, Go, Hit, FindExpired, BypassReturns
  <2>2. OnlyProperResultsCached' /\ InHandProper' /\ StoredWithTTL'
    BY <1>3 DEF TypeOK, OnlyProperResultsCached, InHandProper, StoredWithTTL, Proper,
                Hit, FindExpired, BypassReturns
  <2>3. OnlyAllowedCalls'
    BY <1>3 DEF TypeOK, OnlyAllowedCalls, Go, Hit, FindExpired, BypassReturns
  <2> QED
    BY <2>1, <2>2, <2>3
<1>4. ASSUME NEW p \in Callers, Evict(p) PROVE IInv'
  <2>1. TypeOK'
    BY <1>4 DEF TypeOK, Go, Evict
  <2>2. OnlyProperResultsCached' /\ InHandProper' /\ StoredWithTTL'
    BY <1>4 DEF TypeOK, OnlyProperResultsCached, InHandProper, StoredWithTTL, Proper, Evict
  <2>3. OnlyAllowedCalls'
    BY <1>4 DEF TypeOK, OnlyAllowedCalls, Go, Evict
  <2> QED
    BY <2>1, <2>2, <2>3
<1>5. ASSUME NEW p \in Callers, ExecutorReturns(p) PROVE IInv'
  <2> DEFINE answer == [version |-> source[key[p]], key |-> key[p],
                        unsafe |-> unsafe[p], ok |-> TRUE]
  <2>1. pc[p] = "executing" /\ got[p] = None /\ found[p] = None
    BY <1>5 DEF TypeOK, ExecutorReturns, Go
  <2>2. \/ /\ pc' = [pc EXCEPT ![p] = "idle"]
           /\ got' = [got EXCEPT ![p] = None]
        \/ /\ pc' = [pc EXCEPT ![p] = "storing"]
           /\ got' = [got EXCEPT ![p] = answer]
    BY <1>5 DEF ExecutorReturns, Go, AfterExecute
  <2>3. UNCHANGED <<entries, source, key, unsafe, found>>
    BY <1>5 DEF ExecutorReturns
  <2>4. answer \in Results /\ answer # None
    BY DEF TypeOK, Results, None
  <2>5. Proper(answer, key[p])
    BY <2>1, PolicyAssumption DEF Proper, OnlyAllowedCalls, TypeOK
  <2> HIDE DEF answer
  <2>6. TypeOK'
    BY <2>1, <2>2, <2>3, <2>4 DEF TypeOK
  <2>7. OnlyProperResultsCached' /\ StoredWithTTL'
    BY <2>3 DEF OnlyProperResultsCached, StoredWithTTL, Proper
  <2>8. InHandProper'
    BY <2>2, <2>3, <2>5 DEF InHandProper, Proper, TypeOK
  <2>9. OnlyAllowedCalls'
    BY <2>1, <2>2, <2>3 DEF OnlyAllowedCalls, TypeOK
  <2> QED
    BY <2>6, <2>7, <2>8, <2>9
<1>6. ASSUME NEW p \in Callers, Store(p) PROVE IInv'
  <2> DEFINE e == [kind |-> "entry", result |-> got[p], ttl |-> TTL, age |-> 0]
  <2>1. pc[p] = "storing" /\ got[p] \in Results /\ got[p] # None /\ found[p] = None
    BY <1>6 DEF TypeOK, Store, Go
  <2>2. e \in Entries /\ e # None /\ e.result = got[p] /\ e.ttl = TTL
    BY <2>1, StoredEntry, EntryFields
  <2>3. entries' = entries \/ entries' = [entries EXCEPT ![key[p]] = e]
    BY <1>6 DEF Store
  <2>4. /\ UNCHANGED <<source, key, unsafe, found>>
        /\ got' = [got EXCEPT ![p] = None]
        /\ pc' = [pc EXCEPT ![p] = "idle"]
    BY <1>6 DEF Store, Go
  <2> HIDE DEF e
  <2>5. TypeOK'
    BY <2>1, <2>2, <2>3, <2>4 DEF TypeOK
  <2>6. Proper(e.result, key[p])
    BY <2>1, <2>2 DEF InHandProper
  <2>7. OnlyProperResultsCached'
    BY <2>2, <2>3, <2>4, <2>6 DEF OnlyProperResultsCached, Proper, TypeOK
  <2>8. StoredWithTTL'
    BY <2>2, <2>3, <2>4 DEF StoredWithTTL, TypeOK
  <2>9. InHandProper' /\ OnlyAllowedCalls'
    BY <2>4 DEF InHandProper, OnlyAllowedCalls, Proper, TypeOK
  <2> QED
    BY <2>5, <2>7, <2>8, <2>9
<1>7. ASSUME NEW k \in Keys, Delete(k) PROVE IInv'
  <2>1. TypeOK'
    BY <1>7 DEF TypeOK, Delete, callVars
  <2>2. OnlyProperResultsCached' /\ InHandProper' /\ StoredWithTTL' /\ OnlyAllowedCalls'
    BY <1>7 DEF TypeOK, OnlyProperResultsCached, InHandProper, StoredWithTTL,
                OnlyAllowedCalls, Proper, Delete, callVars
  <2> QED
    BY <2>1, <2>2
<1>8. ASSUME NEW k \in Keys, SourceChanges(k) PROVE IInv'
  <2>1. TypeOK'
    BY <1>8, PolicyAssumption DEF TypeOK, SourceChanges, callVars
  <2>2. UNCHANGED <<entries, pc, key, unsafe, found, got>>
    BY <1>8 DEF SourceChanges, callVars
  <2>3. \A j \in Keys : source[j] <= source'[j]
    BY <1>8, PolicyAssumption DEF TypeOK, SourceChanges
  <2>4. source \in [Keys -> 0..MaxVersion] /\ source' \in [Keys -> 0..MaxVersion]
    BY <2>1 DEF TypeOK
  <2>5. \A j \in Keys, r \in Results : Proper(r, j) => Proper(r, j)'
    BY <2>3, <2>4, ProperKept
  <2>6. OnlyProperResultsCached'
    <3>1. ASSUME NEW j \in Keys, entries[j] # None PROVE Proper(entries[j].result, j)'
      BY <3>1, <2>2, <2>5, EntryFields DEF OnlyProperResultsCached, TypeOK, Proper
    <3>2. ASSUME NEW p \in Callers, found[p] # None PROVE Proper(found[p].result, key[p])'
      BY <3>2, <2>2, <2>5, EntryFields DEF OnlyProperResultsCached, TypeOK, Proper
    <3> QED
      BY <3>1, <3>2, <2>2 DEF OnlyProperResultsCached
  <2>7. InHandProper'
    BY <2>2, <2>5 DEF InHandProper, TypeOK, Proper
  <2>8. OnlyAllowedCalls' /\ StoredWithTTL'
    BY <2>2 DEF OnlyAllowedCalls, StoredWithTTL
  <2> QED
    BY <2>1, <2>6, <2>7, <2>8
<1>9. CASE Tick
  <2>1. /\ entries' = [k \in Keys |-> Older(entries[k])]
        /\ found' = [p \in Callers |-> Older(found[p])]
        /\ UNCHANGED <<source, pc, key, unsafe, got>>
    BY <1>9 DEF Tick
  <2>2. \A k \in Keys :
           /\ entries'[k] \in Entries \cup {None}
           /\ entries'[k] # None => /\ entries[k] # None
                                   /\ entries'[k].result = entries[k].result
                                   /\ entries'[k].ttl = entries[k].ttl
    BY <2>1, OlderKeeps DEF TypeOK
  <2>3. \A p \in Callers :
           /\ found'[p] \in Entries \cup {None}
           /\ found'[p] = None <=> found[p] = None
           /\ found[p] # None => /\ found'[p].result = found[p].result
                                 /\ found'[p].ttl = found[p].ttl
    BY <2>1, OlderKeeps DEF TypeOK
  <2>4. TypeOK'
    BY <2>1, <2>2, <2>3 DEF TypeOK
  <2>5. OnlyProperResultsCached' /\ StoredWithTTL'
    BY <2>1, <2>2, <2>3 DEF OnlyProperResultsCached, StoredWithTTL, Proper
  <2>6. InHandProper' /\ OnlyAllowedCalls'
    BY <2>1 DEF InHandProper, OnlyAllowedCalls, Proper
  <2> QED
    BY <2>4, <2>5, <2>6
<1>10. CASE UNCHANGED vars
  BY <1>10 DEF vars, callVars, TypeOK, OnlyProperResultsCached, InHandProper,
               OnlyAllowedCalls, StoredWithTTL, Proper
<1> QED
  BY <1>1, <1>2, <1>3, <1>4, <1>5, <1>6, <1>7, <1>8, <1>9, <1>10 DEF Next, Continue

-----------------------------------------------------------------------------
\* The inductive invariant holds in every behaviour.
THEOREM Invariance == Spec => []IInv
BY InitIInv, NextIInv, PTL DEF Spec

\* Types are right in every reachable state (Get, Set, Delete, Execute).
THEOREM TypeCorrect == Spec => []TypeOK
BY Invariance, PTL DEF IInv

\* Errors, unsafe results and results of another key are never servable.
THEOREM CacheIsProper == Spec => []OnlyProperResultsCached
BY Invariance, PTL DEF IInv

\* No hit is older than DefaultTTL, or than MaxTTL where one is set.
THEOREM HitsFresh == Spec => HitsAreFresh
<1> DEFINE Fresh == \A p \in Callers : pc[p] = "checking" /\ pc'[p] = "idle" =>
                      /\ found[p].age <= DefaultTTL
                      /\ MaxTTL > 0 => found[p].age <= MaxTTL
<1>1. ASSUME IInv, [Next]_vars PROVE [Fresh]_vars
  <2> SUFFICES ASSUME Next, NEW p \in Callers, pc[p] = "checking", pc'[p] = "idle"
               PROVE  /\ found[p].age <= DefaultTTL
                      /\ MaxTTL > 0 => found[p].age <= MaxTTL
    BY <1>1
  <2>1. found[p] \in Entries /\ found[p].ttl = TTL
    BY <1>1 DEF IInv, TypeOK, StoredWithTTL
  <2>2. ~Expired(found[p])
    <3>1. ASSUME NEW q \in Callers, Call(q) PROVE FALSE
      BY <1>1, <3>1 DEF Call, Go, IInv, TypeOK
    <3>2. ASSUME NEW q \in Callers, Continue(q) PROVE q = p
      BY <1>1, <3>2 DEF IInv, TypeOK, Continue, Go, Lookup, Hit, FindExpired, Evict,
                        ExecutorReturns, BypassReturns, Store
    <3>3. ASSUME NEW k \in Keys, Delete(k) \/ SourceChanges(k) PROVE FALSE
      BY <3>3 DEF Delete, SourceChanges, callVars
    <3>4. ~Tick
      BY DEF Tick
    <3>5. Continue(p)
      BY <3>1, <3>2, <3>3, <3>4 DEF Next
    <3>6. Hit(p)
      BY <1>1, <3>5 DEF IInv, TypeOK, Continue, Go, Lookup, Hit, FindExpired, Evict,
                        ExecutorReturns, BypassReturns, Store
    <3> QED
      BY <3>6 DEF Hit
  <2>3. found[p].age \in Nat /\ found[p].age <= TTL
    BY <2>1, <2>2, EntryFields, TTLClamped DEF Expired
  <2> QED
    BY <2>3, TTLClamped, PolicyAssumption
<1> QED
  BY <1>1, Invariance, PTL DEF Spec, HitsAreFresh

=============================================================================
