SPECIFICATION Spec
CONSTANTS
    a = a
    b = b
    Peers = {a, b}
    Other <- Facing
    Keys = {1}
    MaxPending = 2
    MaxInFlight = 2
    ResendAfter = 1
    MaxRetries = 1
    MaxRecords = 4
    Scenarios <- LinkOrCrash
INVARIANTS QueueInv AckedIsReached DeliveredInOrder
