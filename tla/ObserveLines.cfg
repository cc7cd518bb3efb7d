CONSTANTS
    w1 = w1
    w2 = w2
    s1 = s1
    s2 = s2
    Configs <- MCConfigs
    Endpoints <- MCEndpoints
    Workers <- MCWorkers
    Closers <- MCClosers
    MaxCalls = 2
SPECIFICATION Spec
INVARIANTS
    LinesAreWhole
CHECK_DEADLOCK FALSE
