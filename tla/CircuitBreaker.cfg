CONSTANTS
    r1 = r1
    r2 = r2
    r3 = r3
    r4 = r4
    Requests <- MCRequests
    MaxFailures = 2
    ResetTimeout = 2
    HalfOpenMaxRequests = 2
SPECIFICATION CBFairSpec
INVARIANTS
    CBTypeOK
    FailuresMatchState
    ProbeBudgetExact
    ListenerInSync
PROPERTIES
    NoEarlyProbe
    Recovers
