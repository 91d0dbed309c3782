SPECIFICATION Spec
CONSTANTS
    Platforms = {"linux", "windows"}
    Images = 2
    MaxFaults = 1
    MaxCalls = 3
    Recreates = 1
INVARIANTS
    NothingLeaks
    TeardownInOrder
    RecordingIsValid
    DrawsLatestPacket
    ChoicesAreSupported
PROPERTIES
    PresentReturns
