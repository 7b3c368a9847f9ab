SPECIFICATION Spec
CONSTANTS
    Users = {u1}
    Reqs = {r1, r2}
    MaxTokens = 3
    MaxPasswords = 2
SYMMETRY Symmetry
INVARIANTS
    TypeOK
    FamilyRevocationHolds
    PasswordRevocationHolds
    OneSessionPerFamily
    LogoutEndsSession
    LineageSound
PROPERTY Lifecycle
CHECK_DEADLOCK FALSE
