SPECIFICATION Spec
CONSTANTS
    Requests = {r1, r2}
    Accounts = {alice}
    Kinds = {"info"}
    Values <- MCValues
    Passwords = {p1}
    FirstRows <- MCFirstRows
    FirstPassword = p1
    alice = alice
    bob = bob
    v1 = v1
    v2 = v2
    v3 = v3
PROPERTIES
    PartialUpdatesMerge
CHECK_DEADLOCK FALSE
