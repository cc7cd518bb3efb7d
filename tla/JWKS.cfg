CONSTANTS
    p1 = p1
    p2 = p2
    rsa = rsa
    ec = ec
    Callers <- MCCallers
    Kids <- MCKids
    RSAKids <- MCRSAKids
    AnyKid = any
    CacheTTL = 1
    MaxEpoch = 2
SPECIFICATION FairSpec
INVARIANTS
    TypeOK
    NotFoundIsTrue
    FollowersAreLed
PROPERTIES
    KeysNeverGoBack
    GetKeyReturns
    WithdrawnKeysExpire
    NotFoundEnds
