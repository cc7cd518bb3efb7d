CONSTANTS
    p1 = p1
    a = a
    b = b
    mem = mem
    db = db
    Probes <- MCProbes
    Names <- MCNames
    Checkers <- MCCheckers
    Memory <- MCMemory
    Conditions <- MCConditions
    Usages <- MCUsages
    WarningThreshold = 0
    CriticalThreshold = 950
SPECIFICATION FairSpec
INVARIANTS
    TypeOK
    AnswerIsTrue
PROPERTIES
    ProbesAnswered
