SPECIFICATION LiveSpec
CONSTANTS
    a = a
    b = b
    Peers = {a, b}
    Other <- Facing
    Keys = {1}
    MaxPending = 2
    MaxInFlight = 1
    ResendAfter = 1
    MaxRetries = 1
    MaxRecords = 4
    Scenarios <- Drain
PROPERTIES QueuesDrain
