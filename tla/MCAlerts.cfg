SPECIFICATION Spec
CONSTANTS
    Accounts = {a1}
    Requests = {r1, r2, r3}
    FreeQuota = 0
    ProQuota = 1
    MaxQuota = Star
    MaxLimit = 4
    MaxWebhooks = 1
SYMMETRY RequestSymmetry
INVARIANTS
    TypeOK
    OverrunOnlyByOverlap
    AlertsAreEntitled
CHECK_DEADLOCK FALSE
