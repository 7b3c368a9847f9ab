SPECIFICATION Spec
CONSTANTS
    Reqs = {r1, r2}
    Emails = {e1, e2}
    NoEmail = NoEmail
    MaxAccounts = 2
    MaxKeys = 1
    MaxConvs = 1
SYMMETRY Symmetry
INVARIANTS
    AuditTruth
    ReferralsPaid
    ExportConsistent
CHECK_DEADLOCK FALSE
