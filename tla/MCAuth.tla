------------------------------- MODULE MCAuth -------------------------------
(***************************************************************************)
(* Auth for TLC: two callers, one credential of each kind, and roles that  *)
(* inherit from one another two levels deep, twice and in a cycle, or are  *)
(* not configured.                                                         *)
(***************************************************************************)
EXTENDS Auth, TLC

CONSTANTS c1, c2, tok, jwt, info, apikey

MCCallers == {c1, c2}

MCOpaque == {tok}
MCJWTs == {jwt}
MCInfos == {info}
MCKeyOf == info :> apikey

Carries(inJWTHeader, inAuthorization, inKeyHeader) ==
    [jwt |-> inJWTHeader, bearer |-> inAuthorization, key |-> inKeyHeader]
\* Tokens in a header of JWT's own, in Authorization, or in both; and a JWT that only
\* introspection finds, in Authorization.
MCCarried ==
    c1 :> {Carries(jwt, tok, apikey), Carries(None, jwt, None)}
    @@ c2 :> {Carries(tok, tok, None)}

MCAuthenticators == <<"api_key", "jwt", "oauth2">>

MCRoleNames == {"lead", "dev", "base", "gone"}
List(names) == [r \in MCRoleNames |-> IF r \in names THEN 1 ELSE 0]
Role(inherits, denied, allowed) ==
    [inherits |-> inherits, deniedTools |-> denied, allowedTools |-> allowed,
     allowedActions |-> {}, permissions |-> {}]
MCConfig ==
    "lead" :> Role(List({"dev"}), {{"deploy"}}, {})
    @@ "dev" :> Role([List({}) EXCEPT !["base"] = 2], {}, {})   \* Inherits lists it twice
    @@ "base" :> Role(List({"lead"}), {}, {{"deploy"}})
MCDefaultRole == List({})
MCRolesOf == tok :> List({}) @@ jwt :> List({"lead"}) @@ info :> List({"gone"})
MCRequests == {[type |-> "tool", tool |-> "deploy", action |-> "call"]}

=============================================================================
