CONSTANTS
    p1 = p1
    p2 = p2
    Callers <- MCCallers
    Amounts <- MCAmounts
    Rate = 2
    Token = 3
    Burst = 2
    MaxWait = 2
    MaxTime = 4
SPECIFICATION Spec
INVARIANTS
    TypeOK
    RateBounded
    RefusalHasCause
SYMMETRY MCSymmetry
