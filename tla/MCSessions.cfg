SPECIFICATION Spec
CONSTANTS
    Clients = {c1}
    Requests = {r1, r2, r3}
    AccountIds = {1, 2}
    MaxTokens = 3
    MaxTime = 2
    TTL = 1
    LongTTL = 2
    CacheTypes = {"ram", "redis"}
SYMMETRY RequestSymmetry
INVARIANTS
    TypeOK
    RotationKeepsOneToken
    FamilyKeepsItsAccount
    TokensPerSignIn
    SignOutEndsSession
    CookieHasItsEntry
PROPERTIES
    SignedOutTokenIsRefused
CHECK_DEADLOCK FALSE
