SPECIFICATION Spec
CONSTANTS
    MaxSequence = 2
    Payloads = {a}
    PacketCells = 3
    Platforms = {"posix"}
    MaxRecords = 2
    MaxCells = 14
    MaxTears = 1
INVARIANTS
    CrashTolerant
