SPECIFICATION Spec
CONSTANTS
    MaxReqs = 2
    MaxConvs = 1
    Size = 2
INVARIANTS
    TypeOK
    TurnsComplete
    CooldownExplained
    CleanExitFinishes
    NoServerStarved
CHECK_DEADLOCK FALSE
