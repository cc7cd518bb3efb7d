CONSTANTS
    p1 = p1
    p2 = p2
    k1 = k1
    k2 = k2
    Callers <- MCCallers
    Keys <- MCKeys
    DefaultTTL = 2
    MaxTTL = 1
    AllowUnsafe = FALSE
    MaxVersion = 1
SPECIFICATION FairSpec
INVARIANTS
    OnlyProperResultsCached
PROPERTIES
    HitsAreFresh
    StalenessEnds
