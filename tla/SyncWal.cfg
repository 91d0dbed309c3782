SPECIFICATION Spec
SYMMETRY PayloadSymmetry
CONSTANTS
    MaxSequence = 3
    Payloads = {a, b}
    PacketCells = 3
    Platforms = {"posix", "windows"}
    MaxRecords = 2
    MaxCells = 15
    MaxTears = 1
INVARIANTS
    ReplayIsExact
PROPERTIES
    CompactionIsTransparent
