-------------------------------- MODULE RBAC --------------------------------
(***************************************************************************)
(* auth/rbac.go and the request of auth/authorizer.go: one authorizer that *)
(* concurrent callers ask whether a subject may do something.              *)
(*                                                                         *)
(* Authorize gathers the roles of the subject with a worklist, following   *)
(* Inherits, and then looks for one role that permits the request.  The    *)
(* configuration is read only; inheritance may be cyclic and may name      *)
(* roles that are not configured.                                          *)
(*                                                                         *)
(* A list of names of roles is how often it has each of them: it may have  *)
(* a name twice, and what Authorize answers does not depend on its order.  *)
(* A pattern ("*", "prefix*" or a name) is the set of the names that it    *)
(* matches, and a permission string the set of types, tools and actions    *)
(* that it matches.                                                        *)
(***************************************************************************)
EXTENDS Integers

CONSTANTS
    Callers,      \* the goroutines that ask
    RoleNames,    \* names of roles, configured or not
    Config,       \* config.Roles: a record for each configured role
    DefaultRole,  \* config.DefaultRole: a list of at most one role
    Requests      \* AuthzRequests: [type, tool, action]

Tools == {q.tool : q \in Requests}
Actions == {q.action : q \in Requests}
Types == {q.type : q \in Requests}

RoleLists == [RoleNames -> Nat]

\* The names on a list.
Names(list) == {r \in RoleNames : list[r] > 0}

NoRoles == [r \in RoleNames |-> 0]

RoleConfig ==
    [inherits : RoleLists,
     deniedTools : SUBSET SUBSET Tools, allowedTools : SUBSET SUBSET Tools,
     allowedActions : SUBSET SUBSET Actions,
     permissions : SUBSET [types : SUBSET Types, tools : SUBSET Tools, actions : SUBSET Actions]]

ASSUME RBACAssumption ==
    /\ DOMAIN Config \subseteq RoleNames
    /\ \A r \in DOMAIN Config : Config[r] \in RoleConfig
    /\ DefaultRole \in RoleLists

\* An Identity, as far as the authorizer looks at it, or nil.
Subjects == [known : BOOLEAN, roles : RoleLists]
NoSubject == [known |-> FALSE, roles |-> NoRoles]

VARIABLES
    authz,    \* where each caller is in Authorize, or what it answers
    subject,  \* the subject and
    request,  \* the rest of its request
    todo,     \* rolesToProcess, which may have names that are in seen
    found     \* seen, and the result of collectRoles

rbacVars == <<authz, subject, request, todo, found>>

-----------------------------------------------------------------------------
(***************************************************************************)
(* What one role permits.                                                  *)
(***************************************************************************)
Matches(patterns, name) == \E pattern \in patterns : name \in pattern

MatchPermission(permission, q) ==
    /\ q.type \in permission.types
    /\ q.tool \in permission.tools
    /\ q.action \in permission.actions

\* A denied tool first; then the lists, where an empty list excludes nothing; then
\* a permission, or no need of one because the tools were listed.
RolePermits(role, q) ==
    /\ ~Matches(role.deniedTools, q.tool)
    /\ role.allowedTools # {} => Matches(role.allowedTools, q.tool)
    /\ role.allowedActions # {} => Matches(role.allowedActions, q.action)
    /\ \/ \E permission \in role.permissions : MatchPermission(permission, q)
       \/ role.allowedTools # {}

AnyRolePermits(roles, q) == \E r \in roles \cap DOMAIN Config : RolePermits(Config[r], q)

-----------------------------------------------------------------------------
(***************************************************************************)
(* Authorize.                                                              *)
(***************************************************************************)
Inherits(r) == IF r \in DOMAIN Config THEN Config[r].inherits ELSE NoRoles

\* The roles that collectRoles starts from.
StartRoles(s) == IF Names(s.roles) = {} THEN DefaultRole ELSE s.roles

RBACInit ==
    /\ authz = [c \in Callers |-> "idle"]
    /\ subject = [c \in Callers |-> NoSubject]
    /\ request \in [Callers -> Requests]
    /\ todo = [c \in Callers |-> NoRoles]
    /\ found = [c \in Callers |-> {}]

\* A nil subject is refused at once.
Authorize(c, s, q) ==
    /\ authz[c] = "idle"
    /\ authz' = [authz EXCEPT ![c] = IF s.known THEN "collecting" ELSE "forbidden"]
    /\ subject' = [subject EXCEPT ![c] = s]
    /\ request' = [request EXCEPT ![c] = q]
    /\ todo' = [todo EXCEPT ![c] = IF s.known THEN StartRoles(s) ELSE NoRoles]
    /\ found' = [found EXCEPT ![c] = {}]

\* A name is taken off the list, and what it inherits is put on it.
Processed(list, r, inherited) ==
    [x \in RoleNames |-> (IF x = r THEN list[x] - 1 ELSE list[x]) + inherited[x]]

\* Mutant: the roles inherited from an inherited role are not followed.
CollectOneLevel(c) ==
    /\ authz[c] = "collecting"
    /\ \E r \in Names(todo[c]) :
         /\ found' = [found EXCEPT ![c] = @ \cup {r}]
         /\ todo' = [todo EXCEPT ![c] = Processed(@, r,
                       IF r \in Names(StartRoles(subject[c])) \ found[c]
                       THEN Inherits(r) ELSE NoRoles)]
    /\ UNCHANGED <<authz, subject, request>>

\* One turn of the loop in collectRoles.  A role that was seen before is dropped, and
\* of what a new one inherits only the names that were not seen yet are added.
Collect(c) ==
    /\ authz[c] = "collecting"
    /\ \E r \in Names(todo[c]) :
         /\ found' = [found EXCEPT ![c] = @ \cup {r}]
         /\ todo' = [todo EXCEPT ![c] = Processed(@, r,
                       [x \in RoleNames |->
                          IF r \notin found[c] /\ x \notin found[c] \cup {r}
                          THEN Inherits(r)[x] ELSE 0])]
    /\ UNCHANGED <<authz, subject, request>>

Decide(c) ==
    /\ authz[c] = "collecting"
    /\ Names(todo[c]) = {}
    /\ authz' = [authz EXCEPT ![c] =
                   IF AnyRolePermits(found[c], request[c]) THEN "permitted" ELSE "forbidden"]
    /\ UNCHANGED <<subject, request, todo, found>>

\* The caller has its answer.
Return(c) ==
    /\ authz[c] \in {"permitted", "forbidden"}
    /\ authz' = [authz EXCEPT ![c] = "idle"]
    /\ subject' = [subject EXCEPT ![c] = NoSubject]
    /\ todo' = [todo EXCEPT ![c] = NoRoles]
    /\ found' = [found EXCEPT ![c] = {}]
    /\ UNCHANGED request

RBACNext ==
    \E c \in Callers :
        \/ \E s \in Subjects, q \in Requests : Authorize(c, s, q)
        \/ Collect(c)
        \/ Decide(c)
        \/ Return(c)

RBACSpec == RBACInit /\ [][RBACNext]_rbacVars

-----------------------------------------------------------------------------
(***************************************************************************)
(* Properties.                                                             *)
(***************************************************************************)
RBACTypeOK ==
    /\ authz \in [Callers -> {"idle", "collecting", "permitted", "forbidden"}]
    /\ subject \in [Callers -> Subjects]
    /\ request \in [Callers -> Requests]
    /\ todo \in [Callers -> RoleLists]
    /\ found \in [Callers -> SUBSET RoleNames]

\* A set of roles with all that they inherit.
Closed(S) == \A r \in S : Names(Inherits(r)) \subseteq S

\* The roles reached from these by inheritance: the least closed set around them.
Closure(start) ==
    {r \in RoleNames : \A S \in SUBSET RoleNames : start \subseteq S /\ Closed(S) => r \in S}

\* What Authorize answers is what the roles reached by inheritance permit, at any
\* depth, through cycles and past names that are not configured; and nothing is
\* permitted without an identity.
AuthorizesByClosure ==
    \A c \in Callers : authz[c] \in {"permitted", "forbidden"} =>
        (authz[c] = "permitted" <=>
            /\ subject[c].known
            /\ AnyRolePermits(Closure(Names(StartRoles(subject[c]))), request[c]))

=============================================================================
