CONSTANTS
    p1 = p1
    p2 = p2
    p3 = p3
    p4 = p4
    Callers <- MCCallers
    MaxConcurrent = 2
    CanWait = TRUE
    MaxRejected = 6
SPECIFICATION Spec
INVARIANTS
    SlotsMatchHolders
    MetricsDriftBounded
PROPERTIES
    ImplementsLimit
CHECK_DEADLOCK FALSE
