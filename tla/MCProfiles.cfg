SPECIFICATION FairSpec
CONSTANTS
    Requests = {r1, r2}
    Accounts = {alice, bob}
    Kinds = {"info", "password", "signIn"}
    Values <- MCValues
    Passwords = {p1, p2}
    FirstRows <- MCFirstRows
    FirstPassword = p1
    alice = alice
    bob = bob
    v1 = v1
    v2 = v2
    v3 = v3
INVARIANTS
    TypeOK
    EmailsUnique
    ChecksAreLinearizable
PROPERTIES
    LostOnlyToOverlap
    EveryRequestEnds
CHECK_DEADLOCK FALSE
