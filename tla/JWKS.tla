-------------------------------- MODULE JWKS --------------------------------
(***************************************************************************)
(* auth/jwks.go: GetKey of one JWKSKeyProvider, called concurrently by     *)
(* JWT validations, against an endpoint whose keys are rotated.            *)
(*                                                                         *)
(* GetKey reads the cache under the read lock; on a miss it enters a       *)
(* singleflight group, where the first caller refreshes and the others     *)
(* wait for it, and reads the cache again.  A refresh is a request, with   *)
(* the context of the caller that leads it, and an update under the write  *)
(* lock.  Waiting callers cannot be cancelled.                             *)
(*                                                                         *)
(*   idle -> joining -> requesting -> answered -> refreshed -> looking     *)
(*                   -> waiting      \-> failed -> degrading               *)
(*                                                                         *)
(* time.Since(p.cacheTime) is only compared with CacheTTL, so it is kept   *)
(* as an age that saturates there.  A key is identified with its kid.      *)
(***************************************************************************)
EXTENDS Integers

CONSTANTS
    Callers,     \* goroutines that call GetKey, again and again
    Kids,        \* key IDs the endpoint may publish
    RSAKids,     \* those whose JWK is an RSA key that parses
    AnyKid,      \* the empty keyID
    CacheTTL,    \* JWKSConfig.CacheTTL, in ticks
    MaxEpoch     \* bound on the rotations at the endpoint

\* NewJWKSKeyProvider replaces a zero TTL by an hour.
ASSUME ProviderAssumption ==
    /\ RSAKids \subseteq Kids
    /\ AnyKid \notin Kids
    /\ CacheTTL \in Nat \ {0}
    /\ MaxEpoch \in Nat

VARIABLES
    keys,         \* the kids of p.keys
    age,          \* time.Since(p.cacheTime), saturated at CacheTTL
    lastFetched,  \* the kids of p.lastFetched
    flying,       \* whether sfGroup has a call in flight
    pc,           \* where each caller is
    want,         \* the keyID of its call
    response,     \* the kids in the response its request got
    published,    \* what the endpoint publishes (environment)
    epoch,        \* history: how often the endpoint's keys were rotated
    asOf,         \* history: the epoch of the response in p.keys
    responseAsOf, \* history: the epoch of each response
    led,          \* history: whether the caller led the refresh of its call
    missed        \* history: whether the endpoint lacked the wanted key at some
                  \* time during the call

cacheVars == <<keys, age, lastFetched>>
serverVars == <<published, epoch>>
callVars == <<want, led, missed>>
vars == <<cacheVars, flying, pc, response, responseAsOf, asOf, callVars, serverVars>>

Locations == {"idle", "joining", "requesting", "answered", "refreshed", "failed",
              "waiting", "looking", "degrading"}

\* Whether lookupKeyLocked(kid) finds a key in a map with these kids: any key
\* will do for the empty keyID.
Finds(kid, kids) == IF kid = AnyKid THEN kids # {} ELSE kid \in kids

Init ==
    /\ keys = {}
    /\ age = CacheTTL
    /\ lastFetched = {}
    /\ flying = FALSE
    /\ pc = [p \in Callers |-> "idle"]
    /\ want = [p \in Callers |-> AnyKid]
    /\ response = [p \in Callers |-> {}]
    /\ published \in SUBSET Kids
    /\ epoch = 0
    /\ asOf = 0
    /\ responseAsOf = [p \in Callers |-> 0]
    /\ led = [p \in Callers |-> FALSE]
    /\ missed = [p \in Callers |-> FALSE]

Go(p, from, to) ==
    /\ pc[p] = from
    /\ pc' = [pc EXCEPT ![p] = to]

\* A call of p that is over leaves nothing behind.
Returns(p, from) ==
    /\ Go(p, from, "idle")
    /\ want' = [want EXCEPT ![p] = AnyKid]
    /\ led' = [led EXCEPT ![p] = FALSE]
    /\ missed' = [missed EXCEPT ![p] = FALSE]
    /\ UNCHANGED <<cacheVars, flying, response, responseAsOf, asOf, serverVars>>

-----------------------------------------------------------------------------
(***************************************************************************)
(* GetKey.                                                                 *)
(***************************************************************************)
CacheValid == age < CacheTTL

\* The call, with its check of the cache under the read lock: a hit returns.
Hit(p) ==
    /\ pc[p] = "idle"
    /\ CacheValid
    /\ \E kid \in Kids \cup {AnyKid} : Finds(kid, keys)
    /\ UNCHANGED vars

Miss(p) ==
    \E kid \in Kids \cup {AnyKid} :
        /\ ~(CacheValid /\ Finds(kid, keys))
        /\ Go(p, "idle", "joining")
        /\ want' = [want EXCEPT ![p] = kid]
        /\ missed' = [missed EXCEPT ![p] = ~Finds(kid, published \cap RSAKids)]
        /\ UNCHANGED <<cacheVars, flying, response, responseAsOf, asOf, led, serverVars>>

\* Mutant: every caller refreshes for itself.
DoAlone(p) ==
    /\ Go(p, "joining", "requesting")
    /\ led' = [led EXCEPT ![p] = TRUE]
    /\ UNCHANGED <<cacheVars, flying, want, missed, response, responseAsOf, asOf,
                   serverVars>>

\* sfGroup.Do: the first caller leads, the others wait for its result.
Do(p) ==
    /\ Go(p, "joining", IF flying THEN "waiting" ELSE "requesting")
    /\ flying' = TRUE
    /\ led' = [led EXCEPT ![p] = ~flying]
    /\ UNCHANGED <<cacheVars, want, missed, response, responseAsOf, asOf,
                   serverVars>>

\* Mutant: only the leader is told.
DoReturnsToLeader(p, from, to) ==
    /\ Go(p, from, to)
    /\ flying' = FALSE
    /\ UNCHANGED <<cacheVars, response, responseAsOf, asOf, callVars, serverVars>>

\* Do returns, to the leader and to everybody who waits, with the same error.
DoReturns(p, from, to) ==
    /\ pc[p] = from
    /\ pc' = [q \in Callers |-> IF q = p \/ pc[q] = "waiting" THEN to ELSE pc[q]]
    /\ flying' = FALSE
    /\ UNCHANGED <<cacheVars, response, responseAsOf, asOf, callVars, serverVars>>

DoReturnsNil(p) == DoReturns(p, "refreshed", "looking")

DoReturnsError(p) == DoReturns(p, "failed", "degrading")

\* The second lookup, after a refresh that worked: the key, or ErrKeyNotFound.
KeyFound(p) == Finds(want[p], keys) /\ Returns(p, "looking")

KeyNotFound(p) == ~Finds(want[p], keys) /\ Returns(p, "looking")

\* After a refresh that failed: what is cached, however old, then the backup, or
\* else the error of the refresh.
KeyKept(p) ==
    /\ Finds(want[p], keys) \/ Finds(want[p], lastFetched)
    /\ Returns(p, "degrading")

KeyLost(p) ==
    /\ ~Finds(want[p], keys)
    /\ ~Finds(want[p], lastFetched)
    /\ Returns(p, "degrading")

-----------------------------------------------------------------------------
(***************************************************************************)
(* refresh.                                                                *)
(***************************************************************************)

\* The endpoint answers with what it publishes at that moment.
EndpointAnswers(p) ==
    /\ Go(p, "requesting", "answered")
    /\ response' = [response EXCEPT ![p] = published]
    /\ responseAsOf' = [responseAsOf EXCEPT ![p] = epoch]
    /\ UNCHANGED <<cacheVars, flying, asOf, callVars, serverVars>>

\* Mutants: the client waits for ever; a failed refresh renews the cache.
RefreshHangs(p) == FALSE /\ Go(p, "requesting", "failed") /\ UNCHANGED vars

RefreshFailsRenewing(p) ==
    /\ Go(p, "requesting", "failed")
    /\ age' = 0
    /\ UNCHANGED <<keys, lastFetched, flying, response, responseAsOf, asOf,
                   callVars, serverVars>>

\* No usable answer: the client's timeout, a status, a body that does not decode,
\* or the cancellation of the leader's context.
RefreshFails(p) ==
    /\ Go(p, "requesting", "failed")
    /\ UNCHANGED <<cacheVars, flying, response, responseAsOf, asOf, callVars,
                   serverVars>>

Forget(p) ==
    /\ response' = [response EXCEPT ![p] = {}]
    /\ responseAsOf' = [responseAsOf EXCEPT ![p] = 0]

\* Mutants: keys that are not RSA are kept; only the backup is updated.
InstallUnfiltered(p) ==
    /\ Go(p, "answered", "refreshed")
    /\ keys' = response[p]
    /\ age' = 0
    /\ lastFetched' = lastFetched \cup response[p]
    /\ asOf' = responseAsOf[p]
    /\ Forget(p)
    /\ UNCHANGED <<flying, callVars, serverVars>>

InstallBackupOnly(p) ==
    /\ Go(p, "answered", "refreshed")
    /\ age' = 0
    /\ lastFetched' = lastFetched \cup (response[p] \cap RSAKids)
    /\ asOf' = responseAsOf[p]
    /\ Forget(p)
    /\ UNCHANGED <<keys, flying, callVars, serverVars>>

\* The RSA keys that parse replace the cache and join the backup, under the
\* write lock.
Install(p) ==
    /\ Go(p, "answered", "refreshed")
    /\ keys' = response[p] \cap RSAKids
    /\ age' = 0
    /\ lastFetched' = lastFetched \cup (response[p] \cap RSAKids)
    /\ asOf' = responseAsOf[p]
    /\ Forget(p)
    /\ UNCHANGED <<flying, callVars, serverVars>>

-----------------------------------------------------------------------------
\* The endpoint's keys are rotated: added, withdrawn, or both.
Rotate ==
    /\ epoch < MaxEpoch
    /\ epoch' = epoch + 1
    /\ published' \in SUBSET Kids
    /\ missed' = [p \in Callers |-> missed[p] \/
                    (pc[p] # "idle" /\ ~Finds(want[p], published' \cap RSAKids))]
    /\ UNCHANGED <<cacheVars, flying, pc, response, responseAsOf, asOf, want, led>>

Tick ==
    /\ age < CacheTTL
    /\ age' = age + 1
    /\ UNCHANGED <<keys, lastFetched, flying, pc, response, responseAsOf, asOf,
                   callVars, serverVars>>

Continue(p) ==
    \/ Do(p) \/ DoReturnsNil(p) \/ DoReturnsError(p) \/ RefreshFails(p) \/ Install(p)
    \/ KeyFound(p) \/ KeyNotFound(p) \/ KeyKept(p) \/ KeyLost(p)

Next ==
    \/ \E p \in Callers : Hit(p) \/ Miss(p) \/ EndpointAnswers(p) \/ Continue(p)
    \/ Rotate
    \/ Tick

Spec == Init /\ [][Next]_vars

\* Time passes and a call that has begun goes on; a request ends at the client's
\* timeout at the latest.  The endpoint need not ever answer.
FairSpec == Spec /\ WF_vars(Tick) /\ \A p \in Callers : WF_vars(Continue(p))

-----------------------------------------------------------------------------
(***************************************************************************)
(* Properties.                                                             *)
(***************************************************************************)

\* Types: only RSA keys are cached, and the backup holds all that is cached.
TypeOK ==
    /\ keys \in SUBSET RSAKids
    /\ age \in 0..CacheTTL
    /\ lastFetched \in SUBSET RSAKids
    /\ keys \subseteq lastFetched
    /\ flying \in BOOLEAN
    /\ pc \in [Callers -> Locations]
    /\ want \in [Callers -> Kids \cup {AnyKid}]
    /\ response \in [Callers -> SUBSET Kids]
    /\ published \in SUBSET Kids
    /\ epoch \in 0..MaxEpoch
    /\ asOf \in 0..epoch
    /\ responseAsOf \in [Callers -> 0..epoch]
    /\ led \in [Callers -> BOOLEAN]
    /\ missed \in [Callers -> BOOLEAN]

\* The cache never goes back in time: however the refreshes of concurrent
\* callers interleave with rotations, no response replaces a later one.
KeysNeverGoBack == [][asOf' >= asOf]_vars

\* ErrKeyNotFound is the truth for the caller that led the refresh: at some time
\* during its call the endpoint did not publish the key, even if other refreshes
\* were installed before its second lookup.
NotFoundIsTrue ==
    \A p \in Callers :
        pc[p] = "looking" /\ ~Finds(want[p], keys) /\ led[p] => missed[p]

\* A caller that is in refresh for the group: its request is out, or its result is
\* not handed on yet.
Refreshing(p) == pc[p] \in {"requesting", "answered", "refreshed", "failed"}

\* A follower, whose own context is not looked at, never waits for a refresh that
\* nobody is running; and its leader is the only one there is.
FollowersAreLed ==
    \A p \in Callers :
        pc[p] = "waiting" =>
            \E q \in Callers : \A r \in Callers : Refreshing(r) <=> r = q

\* Every call of GetKey returns, those that wait for another caller's refresh
\* included, although the endpoint may never answer.
GetKeyReturns == \A p \in Callers : pc[p] # "idle" ~> pc[p] = "idle"

\* Once the endpoint's keys stay as they are, a valid cache eventually holds none
\* that was withdrawn, whatever refreshes fail or arrive late.
WithdrawnKeysExpire == <>[](CacheValid => keys \subseteq published)

\* Once the endpoint's keys stay as they are, no caller, not even one that joined
\* somebody else's refresh, is for ever told that a published key does not exist.
NotFoundEnds ==
    <>[](\A p \in Callers : pc[p] = "looking" /\ Finds(want[p], published \cap RSAKids) =>
            Finds(want[p], keys))

=============================================================================
