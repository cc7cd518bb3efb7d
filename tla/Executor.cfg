CONSTANTS
    p1 = p1
    p2 = p2
    other = other
    Requests <- MCRequests
    Others <- MCOthers
    MaxConcurrent = 2
    MaxFailures = 1
    ResetTimeout = 1
    HalfOpenMaxRequests = 1
    MaxAttempts = 2
    Retryable <- MCRetryable
    MaxOrphans = 1
SPECIFICATION FairSpec
INVARIANTS
    TypeOK
    PatternsNest
    SuccessIsOfLastAttempt
    AwaitedWithinLimit
    ProbeUnderWay
PROPERTIES
    ExecuteReturns
    ProbesDecide
CHECK_DEADLOCK FALSE
