SPECIFICATION FairSpec
CONSTANTS
    p1 = p1
    p2 = p2
    Partitions <- OnePartition
    MaxOffset <- TwoSignals
    Undecodable <- AllDecode
    Existing = {1}
    Creators = {2}
    TorchCap = 1
    CreatedCap = 1
    MaxFaults = 0
INVARIANTS
    OnceAndInOrder
PROPERTIES
    SignalsAreHandled
    SessionEnds
CHECK_DEADLOCK FALSE
