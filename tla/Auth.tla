-------------------------------- MODULE Auth --------------------------------
(***************************************************************************)
(* Authentication and authorization of a request (auth/): a composite      *)
(* authenticator over JWT, API key and OAuth2 introspection, and then the  *)
(* RBAC authorizer with the identity that was found.                       *)
(*                                                                         *)
(* Each authenticator reads the request in its own way.  JWT wants its own *)
(* header to begin with its prefix, letter for letter, and introspection   *)
(* wants "bearer " in the Authorization header, in any case: one may see a *)
(* token where the other sees none, or they may see different ones.  What  *)
(* a request carries is therefore what each of the three finds in it.      *)
(*                                                                         *)
(* Credentials are tokens that the introspection endpoint knows, JWTs, and *)
(* the infos of API keys; they stop being good while requests are under    *)
(* way.                                                                    *)
(*                                                                         *)
(* Time passes in ticks.  A caller takes no time for its own steps, up to  *)
(* KeyTimeout ticks to get the key of a JWT and up to Timeout ticks for an *)
(* introspection.                                                          *)
(***************************************************************************)
EXTENDS RBAC, Sequences

CONSTANTS
    Opaque,          \* tokens that the introspection endpoint has issued
    JWTs,            \* signed tokens, which the endpoint does not know
    Infos,           \* APIKeyInfos, and
    KeyOf,           \* the key of each
    RolesOf,         \* the roles that a credential gives, for a token as a claim, and
    RolesClaimed,    \* whether RolesClaim is configured
    Carried,         \* what JWT, introspection and API key find in requests of each caller
    Authenticators,  \* the authenticators of the composite, in order, one of a kind
    CacheTTL,        \* OAuth2Config.CacheTTL and
    Timeout,         \* OAuth2Config.Timeout, in ticks
    KeyTimeout       \* how long KeyProvider.GetKey may take

Bearers == Opaque \cup JWTs
Credentials == Bearers \cup Infos
Keys == {KeyOf[i] : i \in Infos}

ASSUME AuthAssumption ==
    /\ Opaque \cap JWTs = {} /\ Bearers \cap Infos = {}
    /\ "none" \notin Credentials \cup Keys
    /\ RolesOf \in [Credentials -> RoleLists] /\ RolesClaimed \in BOOLEAN
    /\ Carried \in [Callers -> SUBSET [jwt : Bearers \cup {"none"}, bearer : Bearers \cup {"none"},
                                       key : Keys \cup {"none"}]]
    /\ Authenticators \in Seq({"jwt", "api_key", "oauth2"})
    /\ \A n, m \in DOMAIN Authenticators : Authenticators[n] = Authenticators[m] => n = m
    /\ CacheTTL \in Nat \ {0} /\ Timeout \in Nat \ {0} /\ KeyTimeout \in Nat

VARIABLES
    stopOnFirst,  \* CompositeAuthenticator.StopOnFirst
    store,        \* MemoryAPIKeyStore.keys
    cache,        \* oauth2TokenCache: the age of each entry, or Gone
    void,         \* credentials that were revoked or have expired (environment)
    lapsed,       \* history: ticks since each credential was good
    pc,           \* where each caller is,
    jwtToken,     \* what its request carries in the eyes of JWT,
    bearer, key,  \* of introspection and of API key,
    at,           \* the authenticator whose turn it is,
    held,         \* the info that Lookup returned,
    flight,       \* ticks since it waits for a key or for the endpoint,
    verdict,      \* what the endpoint found,
    first,        \* firstSuccess,
    who,          \* the identity it was accepted with,
    faulted       \* history: whether the key provider failed it

worldVars == <<stopOnFirst, store, void, lapsed>>
requestVars == <<jwtToken, bearer, key>>
vars == <<worldVars, cache, pc, requestVars, at, held, flight, verdict, first, who, faulted,
          rbacVars>>
progressVars == <<pc, at, authz, todo>>

None == "none"
Gone == CacheTTL + 1       \* the age of an entry that is not there or is not used any more

\* The authenticator that a credential is for, and how long each can take.
MethodOf(cred) ==
    CASE cred \in Opaque -> "oauth2"
      [] cred \in JWTs   -> "jwt"
      [] OTHER           -> "api_key"

Wait(name) ==
    CASE name = "oauth2" -> Timeout
      [] name = "jwt"    -> KeyTimeout
      [] OTHER           -> 0

\* The wait for an authenticator that has its turn before place n, after the one
\* that the credential is for.
WaitBetween(cred, name, n) ==
    IF \E j, k \in DOMAIN Authenticators :
         j < k /\ k < n /\ Authenticators[j] = MethodOf(cred) /\ Authenticators[k] = name
    THEN Wait(name) ELSE 0

\* How old the verdict of an authenticator on this credential can be: that of the
\* endpoint has the life of a cache entry and of the introspection that made it.
VerdictAge(cred) == IF cred \in Opaque THEN CacheTTL + Timeout ELSE 0

\* How long a credential that is not good any more can still be accepted: while the
\* verdict on it is used and, unless the first success ends the search, while the
\* authenticators that come after it are waited for.
Grace(cred) ==
    VerdictAge(cred) +
    (IF stopOnFirst THEN 0
     ELSE WaitBetween(cred, "jwt", Len(Authenticators) + 1)
          + WaitBetween(cred, "oauth2", Len(Authenticators) + 1))

\* The bound on lapsed.
Horizon(cred) == Grace(cred) + 1

Least(m, n) == IF m <= n THEN m ELSE n

\* A credential that the operator of the system would have accepted now.
Good(cred) == cred \notin void /\ (cred \in Infos => store[KeyOf[cred]] = cred)

Init ==
    /\ RBACInit
    /\ stopOnFirst \in BOOLEAN
    /\ store = [k \in Keys |-> None]
    /\ cache = [b \in Bearers |-> Gone]
    /\ void = {}
    /\ lapsed = [cred \in Credentials |-> IF cred \in Infos THEN Horizon(cred) ELSE 0]
    /\ pc = [c \in Callers |-> "idle"]
    /\ jwtToken = [c \in Callers |-> None]
    /\ bearer = [c \in Callers |-> None]
    /\ key = [c \in Callers |-> None]
    /\ at = [c \in Callers |-> 1]
    /\ held = [c \in Callers |-> None]
    /\ flight = [c \in Callers |-> 0]
    /\ verdict = [c \in Callers |-> None]
    /\ first = [c \in Callers |-> None]
    /\ who = [c \in Callers |-> None]
    /\ faulted = [c \in Callers |-> FALSE]

-----------------------------------------------------------------------------
(***************************************************************************)
(* CompositeAuthenticator.Authenticate.                                    *)
(***************************************************************************)
Arrive(c, creds) ==
    /\ pc[c] = "idle"
    /\ pc' = [pc EXCEPT ![c] = "trying"]
    /\ jwtToken' = [jwtToken EXCEPT ![c] = creds.jwt]
    /\ bearer' = [bearer EXCEPT ![c] = creds.bearer]
    /\ key' = [key EXCEPT ![c] = creds.key]
    /\ UNCHANGED <<worldVars, cache, at, held, flight, verdict, first, who, faulted, rbacVars>>

\* Authenticate returns, and what it had on its stack is gone.
Forget(c) ==
    /\ jwtToken' = [jwtToken EXCEPT ![c] = None]
    /\ bearer' = [bearer EXCEPT ![c] = None]
    /\ key' = [key EXCEPT ![c] = None]
    /\ at' = [at EXCEPT ![c] = 1]
    /\ first' = [first EXCEPT ![c] = None]
    /\ who' = [who EXCEPT ![c] = None]
    /\ faulted' = [faulted EXCEPT ![c] = FALSE]

\* It is the turn of this authenticator.
Trying(c, name) ==
    /\ pc[c] = "trying"
    /\ at[c] <= Len(Authenticators)
    /\ Authenticators[at[c]] = name

\* The Supports of the three: each finds something that it can read.
SupportsJWT(c) == jwtToken[c] # None
SupportsKey(c) == key[c] # None
SupportsOAuth2(c) == bearer[c] # None

Supports(c, name) ==
    CASE name = "jwt"     -> SupportsJWT(c)
      [] name = "api_key" -> SupportsKey(c)
      [] name = "oauth2"  -> SupportsOAuth2(c)

Skip(c) ==
    /\ \E name \in {"jwt", "api_key", "oauth2"} : Trying(c, name) /\ ~Supports(c, name)
    /\ at' = [at EXCEPT ![c] = @ + 1]
    /\ UNCHANGED <<worldVars, cache, pc, requestVars, held, flight, verdict, first, who,
                   faulted, rbacVars>>

\* Mutant: a failure ends the search.
FailsAtOnce(c) ==
    /\ pc' = [pc EXCEPT ![c] = "refused"]
    /\ UNCHANGED <<at, first, who>>

\* The authenticator returns a failure, and the next one has its turn.
Fails(c) ==
    /\ pc' = [pc EXCEPT ![c] = "trying"]
    /\ at' = [at EXCEPT ![c] = @ + 1]
    /\ UNCHANGED <<first, who>>

Succeeds(c, cred) ==
    IF stopOnFirst
    THEN /\ pc' = [pc EXCEPT ![c] = "accepted"]
         /\ who' = [who EXCEPT ![c] = cred]
         /\ UNCHANGED <<at, first>>
    ELSE /\ pc' = [pc EXCEPT ![c] = "trying"]
         /\ at' = [at EXCEPT ![c] = @ + 1]
         /\ first' = [first EXCEPT ![c] = IF @ = None THEN cred ELSE @]
         /\ UNCHANGED who

\* All have had their turn.
Finish(c) ==
    /\ pc[c] = "trying"
    /\ at[c] > Len(Authenticators)
    /\ pc' = [pc EXCEPT ![c] = IF first[c] # None THEN "accepted" ELSE "refused"]
    /\ who' = [who EXCEPT ![c] = first[c]]
    /\ UNCHANGED <<worldVars, cache, requestVars, at, held, flight, verdict, first, faulted,
                   rbacVars>>

-----------------------------------------------------------------------------
(***************************************************************************)
(* JWTAuthenticator.  The key is asked for in the middle of jwt.Parse, and *)
(* may have to be fetched (see JWKS).                                      *)
(***************************************************************************)

\* What is not a JWT fails before any key is asked for.
ParseFails(c) ==
    /\ Trying(c, "jwt") /\ SupportsJWT(c)
    /\ jwtToken[c] \notin JWTs
    /\ Fails(c)
    /\ UNCHANGED <<worldVars, cache, requestVars, held, flight, verdict, faulted, rbacVars>>

AskForKey(c) ==
    /\ Trying(c, "jwt") /\ SupportsJWT(c)
    /\ jwtToken[c] \in JWTs
    /\ pc' = [pc EXCEPT ![c] = "getting key"]
    /\ UNCHANGED <<worldVars, cache, requestVars, at, held, flight, verdict, first, who,
                   faulted, rbacVars>>

\* With the key, the signature and then the expiry, issuer and audience are checked.
VerifyJWT(c) ==
    /\ pc[c] = "getting key"
    /\ IF jwtToken[c] \in void THEN Fails(c) ELSE Succeeds(c, jwtToken[c])
    /\ flight' = [flight EXCEPT ![c] = 0]
    /\ UNCHANGED <<worldVars, cache, requestVars, held, verdict, faulted, rbacVars>>

\* An error of the key provider, at the latest after KeyTimeout, counts as a token
\* that is malformed.
KeyProviderFails(c) ==
    /\ pc[c] = "getting key"
    /\ Fails(c)
    /\ flight' = [flight EXCEPT ![c] = 0]
    /\ faulted' = [faulted EXCEPT ![c] = TRUE]
    /\ UNCHANGED <<worldVars, cache, requestVars, held, verdict, rbacVars>>

-----------------------------------------------------------------------------
(***************************************************************************)
(* APIKeyAuthenticator with a MemoryAPIKeyStore.                           *)
(***************************************************************************)

\* The info is read under the lock, and used without.
LookupKey(c) ==
    /\ Trying(c, "api_key") /\ SupportsKey(c)
    /\ pc' = [pc EXCEPT ![c] = "looked up"]
    /\ held' = [held EXCEPT ![c] = store[key[c]]]
    /\ UNCHANGED <<worldVars, cache, requestVars, at, flight, verdict, first, who, faulted,
                   rbacVars>>

\* Mutant: the expiry of the key is not checked.
CheckKeyFound(c) ==
    /\ pc[c] = "looked up"
    /\ IF held[c] = None THEN Fails(c) ELSE Succeeds(c, held[c])
    /\ held' = [held EXCEPT ![c] = None]
    /\ UNCHANGED <<worldVars, cache, requestVars, flight, verdict, faulted, rbacVars>>

CheckKey(c) ==
    /\ pc[c] = "looked up"
    /\ IF held[c] = None \/ held[c] \in void THEN Fails(c) ELSE Succeeds(c, held[c])
    /\ held' = [held EXCEPT ![c] = None]
    /\ UNCHANGED <<worldVars, cache, requestVars, flight, verdict, faulted, rbacVars>>

StoreIs(newStore) ==
    /\ store' = newStore
    /\ lapsed' = [cred \in Credentials |->
                    IF cred \notin void /\ cred \in Infos /\ newStore[KeyOf[cred]] = cred
                    THEN 0 ELSE lapsed[cred]]
    /\ UNCHANGED <<stopOnFirst, void, cache, pc, requestVars, at, held, flight, verdict,
                   first, who, faulted, rbacVars>>

Add(i) == StoreIs([store EXCEPT ![KeyOf[i]] = i])

Remove(k) == StoreIs([store EXCEPT ![k] = None])

-----------------------------------------------------------------------------
(***************************************************************************)
(* OAuth2IntrospectionAuthenticator.                                       *)
(***************************************************************************)

\* The cache has a result that is not older than CacheTTL.
CacheHit(c) ==
    /\ Trying(c, "oauth2") /\ SupportsOAuth2(c)
    /\ cache[bearer[c]] <= CacheTTL
    /\ Succeeds(c, bearer[c])
    /\ UNCHANGED <<worldVars, cache, requestVars, held, flight, verdict, faulted, rbacVars>>

\* It has none, and the endpoint is asked.
Introspect(c) ==
    /\ Trying(c, "oauth2") /\ SupportsOAuth2(c)
    /\ cache[bearer[c]] > CacheTTL
    /\ pc' = [pc EXCEPT ![c] = "in flight"]
    /\ UNCHANGED <<worldVars, cache, requestVars, at, held, flight, verdict, first, who,
                   faulted, rbacVars>>

\* The endpoint looks at the token.
EndpointDecides(c) ==
    /\ pc[c] = "in flight"
    /\ verdict[c] = None
    /\ verdict' = [verdict EXCEPT ![c] =
                     IF bearer[c] \in Opaque \ void THEN "active" ELSE "inactive"]
    /\ UNCHANGED <<worldVars, cache, pc, requestVars, at, held, flight, first, who, faulted,
                   rbacVars>>

\* Mutant: a negative response is cached too.
ResponseCachesAll(c) ==
    /\ pc[c] = "in flight"
    /\ verdict[c] # None
    /\ cache' = [cache EXCEPT ![bearer[c]] = 0]
    /\ IF verdict[c] = "active" THEN Succeeds(c, bearer[c]) ELSE Fails(c)
    /\ flight' = [flight EXCEPT ![c] = 0]
    /\ verdict' = [verdict EXCEPT ![c] = None]
    /\ UNCHANGED <<worldVars, requestVars, held, faulted, rbacVars>>

\* Its response arrives, and a positive one is cached from now on.
Response(c) ==
    /\ pc[c] = "in flight"
    /\ verdict[c] # None
    /\ IF verdict[c] = "active"
       THEN /\ cache' = [cache EXCEPT ![bearer[c]] = 0]
            /\ Succeeds(c, bearer[c])
       ELSE Fails(c) /\ UNCHANGED cache
    /\ flight' = [flight EXCEPT ![c] = 0]
    /\ verdict' = [verdict EXCEPT ![c] = None]
    /\ UNCHANGED <<worldVars, requestVars, held, faulted, rbacVars>>

\* Mutant: the HTTP client has no timeout, and waits for the endpoint for ever.
IntrospectionWaits(c) ==
    /\ pc[c] = "in flight"
    /\ verdict[c] # None
    /\ pc' = [pc EXCEPT ![c] = "idle"]
    /\ flight' = [flight EXCEPT ![c] = 0]
    /\ verdict' = [verdict EXCEPT ![c] = None]
    /\ Forget(c)
    /\ UNCHANGED <<worldVars, cache, held, rbacVars>>

\* No connection, another status than 200, an answer that is not JSON, or none within
\* Timeout: an error that ends the request at once, whatever was found before.
IntrospectionFails(c) ==
    /\ pc[c] = "in flight"
    /\ pc' = [pc EXCEPT ![c] = "idle"]
    /\ flight' = [flight EXCEPT ![c] = 0]
    /\ verdict' = [verdict EXCEPT ![c] = None]
    /\ Forget(c)
    /\ UNCHANGED <<worldVars, cache, held, rbacVars>>

-----------------------------------------------------------------------------
(***************************************************************************)
(* The identity goes into the context, and the authorizer is asked with    *)
(* the one that is found there: none, if authentication failed.            *)
(***************************************************************************)
IdentityOf(cred) ==
    [known |-> TRUE, roles |-> IF cred \in Infos \/ RolesClaimed THEN RolesOf[cred] ELSE NoRoles]

Proceed(c, q) ==
    /\ pc[c] \in {"accepted", "refused"}
    /\ pc' = [pc EXCEPT ![c] = "authorizing"]
    /\ Authorize(c, IF pc[c] = "accepted" THEN IdentityOf(who[c]) ELSE NoSubject, q)
    /\ Forget(c)
    /\ UNCHANGED <<worldVars, cache, held, flight, verdict>>

Authorizing(c) ==
    /\ Collect(c) \/ Decide(c)
    /\ UNCHANGED <<worldVars, cache, pc, requestVars, at, held, flight, verdict, first, who,
                   faulted>>

\* The request is served or rejected.
Answered(c) ==
    /\ pc[c] = "authorizing"
    /\ Return(c)
    /\ pc' = [pc EXCEPT ![c] = "idle"]
    /\ UNCHANGED <<worldVars, cache, requestVars, at, held, flight, verdict, first, who,
                   faulted>>

-----------------------------------------------------------------------------
\* A token is revoked, or a credential expires.
Void(cred) ==
    /\ cred \notin void
    /\ void' = void \cup {cred}
    /\ UNCHANGED <<stopOnFirst, store, lapsed, cache, pc, requestVars, at, held, flight,
                   verdict, first, who, faulted, rbacVars>>

\* The caller waits, and may wait for longer.
Waits(c) ==
    \/ pc[c] = "getting key" /\ flight[c] < KeyTimeout
    \/ pc[c] = "in flight" /\ flight[c] < Timeout

\* Time passes while every caller waits for an answer, or for its next request.
Tick ==
    /\ \A c \in Callers : pc[c] = "idle" \/ Waits(c)
    /\ flight' = [c \in Callers |-> IF Waits(c) THEN flight[c] + 1 ELSE 0]
    /\ cache' = [b \in Bearers |-> Least(cache[b] + 1, Gone)]
    /\ lapsed' = [cred \in Credentials |->
                    IF Good(cred) THEN 0 ELSE Least(lapsed[cred] + 1, Horizon(cred))]
    /\ UNCHANGED <<stopOnFirst, store, void, pc, requestVars, at, held, verdict, first, who,
                   faulted, rbacVars>>

\* The steps that take a request to its end; each of them changes progressVars.
Continue(c) ==
    /\ pc[c] # "idle"
    /\ \/ Authorizing(c) \/ Answered(c)
       \/ \E q \in Requests : Proceed(c, q)
       \/ KeyProviderFails(c) \/ VerifyJWT(c)
       \/ IntrospectionFails(c) \/ Response(c)
       \/ CheckKey(c)
       \/ Skip(c) \/ Finish(c)
       \/ LookupKey(c)
       \/ ParseFails(c) \/ AskForKey(c)
       \/ CacheHit(c) \/ Introspect(c)

Next ==
    \/ \E c \in Callers :
         \/ \E creds \in Carried[c] : Arrive(c, creds)
         \/ Continue(c)
         \/ EndpointDecides(c)
    \/ \E i \in Infos : Add(i)
    \/ \E k \in Keys : Remove(k)
    \/ \E cred \in Credentials : Void(cred)
    \/ Tick

Spec == Init /\ [][Next]_vars

\* Callers run; and HTTP clients end an introspection, or the fetch of a key, that is
\* not answered.
FairSpec == Spec /\ \A c \in Callers : WF_progressVars(Continue(c))

-----------------------------------------------------------------------------
(***************************************************************************)
(* Properties.                                                             *)
(***************************************************************************)

\* Types; and only tokens that the endpoint called active are ever cached.
TypeOK ==
    /\ RBACTypeOK
    /\ stopOnFirst \in BOOLEAN
    /\ store \in [Keys -> Infos \cup {None}]
    /\ \A k \in Keys : store[k] # None => KeyOf[store[k]] = k
    /\ cache \in [Bearers -> 0..Gone]
    /\ \A b \in JWTs : cache[b] = Gone
    /\ void \subseteq Credentials
    /\ DOMAIN lapsed = Credentials
    /\ \A cred \in Credentials : lapsed[cred] \in 0..Horizon(cred)
    /\ pc \in [Callers -> {"idle", "trying", "getting key", "looked up", "in flight",
                           "accepted", "refused", "authorizing"}]
    /\ jwtToken \in [Callers -> Bearers \cup {None}]
    /\ bearer \in [Callers -> Bearers \cup {None}]
    /\ key \in [Callers -> Keys \cup {None}]
    /\ at \in [Callers -> 1..(Len(Authenticators) + 1)]
    /\ held \in [Callers -> Infos \cup {None}]
    /\ flight \in [Callers -> Nat]
    /\ verdict \in [Callers -> {None, "active", "inactive"}]
    /\ first \in [Callers -> Credentials \cup {None}]
    /\ who \in [Callers -> Credentials \cup {None}]
    /\ faulted \in [Callers -> BOOLEAN]

\* A revocation, an expiry or the removal of a key takes effect in bounded time: no
\* caller is accepted with a credential for longer than its grace, whatever the cache
\* holds and however old answers of the endpoint overtake each other.
AcceptanceIsFresh ==
    [][\A c \in Callers : pc[c] # "accepted" /\ pc'[c] = "accepted" =>
           lapsed[who'[c]] <= Grace(who'[c])]_vars

\* No token is refused that is good and that the authenticator for it can find in the
\* request, unless the key provider failed: whatever authenticators before it made of
\* the request, it has its turn.
RefusalIsJust ==
    \A c \in Callers : pc[c] = "refused" /\ ~faulted[c] =>
        \A n \in DOMAIN Authenticators :
            /\ Authenticators[n] = "jwt" => jwtToken[c] \notin JWTs \ void
            /\ Authenticators[n] = "oauth2" => bearer[c] \notin Opaque \ void

\* Every request is answered, with an error if the endpoint does not answer, although
\* roles may inherit from each other in cycles.
RequestsEnd == \A c \in Callers : pc[c] = "trying" ~> pc[c] = "idle"

=============================================================================
