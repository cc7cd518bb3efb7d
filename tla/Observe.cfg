CONSTANTS
    w1 = w1
    w2 = w2
    s1 = s1
    s2 = s2
    Configs <- MCConfigs
    Endpoints <- MCEndpoints
    Workers <- MCWorkers
    Closers <- MCClosers
    MaxCalls = 3
SPECIFICATION Spec
SYMMETRY Symmetry
INVARIANTS
    CountersExact
    ShutdownReachesAll
CHECK_DEADLOCK FALSE
