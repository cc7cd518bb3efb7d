----------------------------- MODULE ToolCache -----------------------------
(***************************************************************************)
(* cache/middleware.go over cache/memory.go and cache/policy.go: callers   *)
(* of CacheMiddleware.Execute share one MemoryCache.                       *)
(*                                                                         *)
(* Get is two critical sections: the lookup under the read lock and, when  *)
(* the entry it found has expired, a delete of the key under the write     *)
(* lock.  A miss runs the tool and then calls Set, with no lock held       *)
(* between the three.                                                      *)
(*                                                                         *)
(* The clock only matters relative to an entry's expiresAt, so an entry    *)
(* carries the ttl it was Set with and its age since then; it ages no more *)
(* once it has expired.                                                    *)
(* What the tool would answer for a key is a version that grows as the     *)
(* data behind the tool change.                                            *)
(***************************************************************************)
EXTENDS Integers

CONSTANTS
    Callers,      \* the goroutines that call Execute, again and again
    Keys,         \* the keys the keyer makes of (toolID, input)
    DefaultTTL,   \* Policy.DefaultTTL, in ticks
    MaxTTL,       \* Policy.MaxTTL, in ticks; zero means none
    AllowUnsafe,  \* Policy.AllowUnsafe
    MaxVersion    \* bound on the changes behind the tool

ASSUME PolicyAssumption ==
    /\ DefaultTTL \in Nat
    /\ MaxTTL \in Nat
    /\ AllowUnsafe \in BOOLEAN
    /\ MaxVersion \in Nat
    /\ Keys # {}

VARIABLES
    entries,  \* c.entries
    source,   \* the version the tool would answer with, for every key
    pc,       \* where each caller is
    key,      \* the key of its call
    unsafe,   \* whether its tags make the skip rule hold
    found,    \* the entry its Get looked up
    got       \* what its executor returned

callVars == <<pc, key, unsafe, found, got>>
vars == <<entries, source, callVars>>

None == [kind |-> "none"]

\* A result of the tool; ok is FALSE for one that came with an error.
Results == [version : 0..MaxVersion, key : Keys, unsafe : BOOLEAN, ok : BOOLEAN]

\* Mutant: the configured default is used as it is.
EffectiveTTLUnclamped(override) == IF override <= 0 THEN DefaultTTL ELSE override

\* EffectiveTTL(override): the default for no override, clamped to MaxTTL.
EffectiveTTL(override) ==
    LET ttl == IF override <= 0 THEN DefaultTTL ELSE override
    IN  IF MaxTTL > 0 /\ ttl > MaxTTL THEN MaxTTL ELSE ttl

\* The lifetime of what Execute stores.
TTL == EffectiveTTL(0)

Entries == [kind : {"entry"}, result : Results, ttl : Nat, age : Nat]

\* time.Now().After(entry.expiresAt)
Expired(e) == e.age > e.ttl

Init ==
    /\ entries = [k \in Keys |-> None]
    /\ source = [k \in Keys |-> 0]
    /\ pc = [p \in Callers |-> "idle"]
    /\ key = [p \in Callers |-> CHOOSE k \in Keys : TRUE]
    /\ unsafe = [p \in Callers |-> FALSE]
    /\ found = [p \in Callers |-> None]
    /\ got = [p \in Callers |-> None]

Go(p, from, to) ==
    /\ pc[p] = from
    /\ pc' = [pc EXCEPT ![p] = to]

-----------------------------------------------------------------------------
\* Mutant: the skip rule is asked only when unsafe tools may be cached.
UsesCacheWrongly(isUnsafe, keyed) ==
    /\ ~(AllowUnsafe /\ isUnsafe)
    /\ DefaultTTL > 0
    /\ keyed

\* Execute's three ways around the cache: an unsafe tool, a policy that does not
\* cache, an input the keyer cannot make a key of.
UsesCache(isUnsafe, keyed) ==
    /\ AllowUnsafe \/ ~isUnsafe
    /\ DefaultTTL > 0
    /\ keyed

\* Execute up to Get or, around the cache, up to the executor.
Call(p) ==
    \E k \in Keys, isUnsafe \in BOOLEAN, keyed \in BOOLEAN :
        /\ Go(p, "idle", IF UsesCache(isUnsafe, keyed) THEN "lookup" ELSE "bypassing")
        /\ key' = [key EXCEPT ![p] = k]
        /\ unsafe' = [unsafe EXCEPT ![p] = isUnsafe]
        /\ UNCHANGED <<entries, source, found, got>>

\* Get, under the read lock: it keeps a pointer to the entry.
Lookup(p) ==
    /\ Go(p, "lookup", IF entries[key[p]] = None THEN "executing" ELSE "checking")
    /\ found' = [found EXCEPT ![p] = entries[key[p]]]
    /\ UNCHANGED <<entries, source, key, unsafe, got>>

\* Mutant: an entry is served although it has expired.
HitWhateverAge(p) ==
    /\ Go(p, "checking", "idle")
    /\ found' = [found EXCEPT ![p] = None]
    /\ UNCHANGED <<entries, source, key, unsafe, got>>

\* Get, no lock held: a hit returns the cached result.
Hit(p) ==
    /\ Go(p, "checking", "idle")
    /\ ~Expired(found[p])
    /\ found' = [found EXCEPT ![p] = None]
    /\ UNCHANGED <<entries, source, key, unsafe, got>>

FindExpired(p) ==
    /\ Go(p, "checking", "evicting")
    /\ Expired(found[p])
    /\ UNCHANGED <<entries, source, key, unsafe, found, got>>

\* Get, under the write lock: whatever is stored under the key by now is deleted.
Evict(p) ==
    /\ Go(p, "evicting", "executing")
    /\ entries' = [entries EXCEPT ![key[p]] = None]
    /\ found' = [found EXCEPT ![p] = None]
    /\ UNCHANGED <<source, key, unsafe, got>>

\* Mutant: a result that came with an error is stored as well.
AfterExecuteAlways(ok) == "storing"

\* Errors are not cached.
AfterExecute(ok) == IF ok THEN "storing" ELSE "idle"

\* After a miss the executor returns what the tool answers at that moment.
ExecutorReturns(p) ==
    \E ok \in BOOLEAN :
        /\ Go(p, "executing", AfterExecute(ok))
        /\ got' = [got EXCEPT ![p] =
                     IF AfterExecute(ok) = "idle" THEN None
                     ELSE [version |-> source[key[p]], key |-> key[p],
                           unsafe |-> unsafe[p], ok |-> ok]]
        /\ UNCHANGED <<entries, source, key, unsafe, found>>

\* Around the cache the executor's result goes straight to the caller.
BypassReturns(p) ==
    /\ Go(p, "bypassing", "idle")
    /\ UNCHANGED <<entries, source, key, unsafe, found, got>>

\* Mutant: one result is stored under every key.
StoreEverywhere(p) ==
    /\ Go(p, "storing", "idle")
    /\ entries' = [k \in Keys |-> [kind |-> "entry", result |-> got[p], ttl |-> TTL, age |-> 0]]
    /\ got' = [got EXCEPT ![p] = None]
    /\ UNCHANGED <<source, key, unsafe, found>>

\* Set: a TTL that is not positive stores nothing.
Store(p) ==
    /\ Go(p, "storing", "idle")
    /\ entries' = IF TTL > 0
                    THEN [entries EXCEPT ![key[p]] =
                            [kind |-> "entry", result |-> got[p], ttl |-> TTL, age |-> 0]]
                    ELSE entries
    /\ got' = [got EXCEPT ![p] = None]
    /\ UNCHANGED <<source, key, unsafe, found>>

-----------------------------------------------------------------------------
\* Delete, called by whoever knows that the data changed.
Delete(k) ==
    /\ entries' = [entries EXCEPT ![k] = None]
    /\ UNCHANGED <<source, callVars>>

\* The data behind the tool change.
SourceChanges(k) ==
    /\ source[k] < MaxVersion
    /\ source' = [source EXCEPT ![k] = @ + 1]
    /\ UNCHANGED <<entries, callVars>>

\* Mutant: expiresAt moves with the clock.
OlderNever(e) == e

Older(e) == IF e = None \/ Expired(e) THEN e ELSE [e EXCEPT !.age = @ + 1]

Tick ==
    /\ entries' = [k \in Keys |-> Older(entries[k])]
    /\ found' = [p \in Callers |-> Older(found[p])]
    /\ UNCHANGED <<source, pc, key, unsafe, got>>

Continue(p) ==
    \/ Lookup(p) \/ Hit(p) \/ FindExpired(p) \/ Evict(p)
    \/ ExecutorReturns(p) \/ BypassReturns(p) \/ Store(p)

Next ==
    \/ \E p \in Callers : Call(p) \/ Continue(p)
    \/ \E k \in Keys : Delete(k) \/ SourceChanges(k)
    \/ Tick

Spec == Init /\ [][Next]_vars

\* The clock advances and a call that has begun goes on; nobody has to call
\* again, to delete anything, or to look at an entry that has expired.
FairSpec == Spec /\ WF_vars(Tick) /\ \A p \in Callers : WF_vars(Continue(p))

-----------------------------------------------------------------------------
(***************************************************************************)
(* Properties.                                                             *)
(***************************************************************************)

\* Types, and where a call has something in hand.
TypeOK ==
    /\ entries \in [Keys -> Entries \cup {None}]
    /\ source \in [Keys -> 0..MaxVersion]
    /\ pc \in [Callers -> {"idle", "lookup", "checking", "evicting", "executing", "bypassing", "storing"}]
    /\ key \in [Callers -> Keys]
    /\ unsafe \in [Callers -> BOOLEAN]
    /\ found \in [Callers -> Entries \cup {None}]
    /\ got \in [Callers -> Results \cup {None}]
    /\ \A p \in Callers :
          /\ pc[p] = "storing" <=> got[p] # None
          /\ pc[p] \in {"checking", "evicting"} <=> found[p] # None

\* Nothing improper is ever served: whatever a lookup can find, or has in hand,
\* was returned without an error, for this key, by a call that the policy lets
\* cache, and never comes from the future.
Proper(r, k) ==
    /\ r.ok
    /\ r.key = k
    /\ AllowUnsafe \/ ~r.unsafe
    /\ r.version <= source[k]

OnlyProperResultsCached ==
    /\ \A k \in Keys : entries[k] # None => Proper(entries[k].result, k)
    /\ \A p \in Callers : found[p] # None => Proper(found[p].result, key[p])

\* However Get, Set, Delete and the clock interleave, a hit serves a result that
\* was stored no longer ago than the policy allows: DefaultTTL, and MaxTTL where
\* one is set (Execute's Set with EffectiveTTL(0), Get's check of expiresAt).
HitsAreFresh ==
    [][\A p \in Callers : pc[p] = "checking" /\ pc'[p] = "idle" =>
          /\ found[p].age <= DefaultTTL
          /\ MaxTTL > 0 => found[p].age <= MaxTTL]_vars

\* Staleness ends by itself: once the data behind a tool stop changing, results
\* of an older version are eventually never servable again, although a late Set
\* may overwrite a newer entry or undo a Delete on the way.
Stale(k) ==
    /\ entries[k] # None
    /\ ~Expired(entries[k])
    /\ entries[k].result.version < source[k]

StalenessEnds == \A k \in Keys : <>[]~Stale(k)

=============================================================================
