SPECIFICATION Spec
CONSTANTS
    p1 = p1
    p2 = p2
    Partitions <- TwoPartitions
    MaxOffset <- TwoAndOne
    Undecodable <- FirstIsUndecodable
    Existing = {1, 2}
    Creators = {}
    TorchCap = 1
    CreatedCap = 1
    MaxFaults = 1
INVARIANTS
    TypeOK
    CommitPassesNothing
    QueuedIsAccountedFor
    EveryWebhookTried
CHECK_DEADLOCK FALSE
