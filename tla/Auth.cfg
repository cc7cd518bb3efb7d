CONSTANTS
    c1 = c1
    c2 = c2
    tok = tok
    jwt = jwt
    info = info
    apikey = apikey
    Callers <- MCCallers
    RoleNames <- MCRoleNames
    Config <- MCConfig
    DefaultRole <- MCDefaultRole
    Requests <- MCRequests
    Opaque <- MCOpaque
    JWTs <- MCJWTs
    Infos <- MCInfos
    KeyOf <- MCKeyOf
    RolesOf <- MCRolesOf
    RolesClaimed = TRUE
    Carried <- MCCarried
    Authenticators <- MCAuthenticators
    CacheTTL = 1
    Timeout = 1
    KeyTimeout = 1
SPECIFICATION FairSpec
INVARIANTS
    TypeOK
    AuthorizesByClosure
    RefusalIsJust
PROPERTIES
    AcceptanceIsFresh
    RequestsEnd
