SPECIFICATION Spec
CONSTANTS
    Accounts = {8, 9}
    Requests = {r1, r2}
    Blank = blank
    Names = {blank, n1, n2}
    Reader = 8
    PageSize = 1
    Precision = 4
    MaxId = 2
SYMMETRY RequestSymmetry
INVARIANTS
    DeletedOnce
    WalkIsComplete
PROPERTIES
    OwnersOnly
CHECK_DEADLOCK FALSE
