SPECIFICATION FairSpec
CONSTANTS
    p1 = p1
    p2 = p2
    Partitions <- OnePartition
    MaxOffset <- OneSignal
    Undecodable <- AllDecode
    Existing = {1}
    Creators = {2, 3}
    TorchCap = 1
    CreatedCap = 1
    MaxFaults = 0
INVARIANTS
    CreatedIsAccountedFor
PROPERTIES
    CreatorsAreAnswered
CHECK_DEADLOCK FALSE
