SPECIFICATION Spec
CONSTANTS
    Reqs = {r1, r2}
    Threshold = 3
    MaxLinks = 2
    MaxFails = 7
    MaxCrashes = 1
SYMMETRY Symmetry
INVARIANTS
    TypeOK
    LockEngages
    LockIsSound
    LinksSound
CHECK_DEADLOCK FALSE
