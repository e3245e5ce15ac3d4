SPECIFICATION FairSpec
CONSTANTS
    Requests = {r1, r2}
    MaxFaults = 2
INVARIANTS
    ServesWholeSchema
PROPERTIES
    StartsUnlessTorn
    RefusedOnlyWhenDisturbed
CHECK_DEADLOCK FALSE
