SPECIFICATION Spec
CONSTANTS
    Platforms = {"linux", "windows"}
    Images = 2
    MaxFaults = 0
    MaxCalls = 1
    Recreates = 1
INVARIANTS
    SwapchainSurvivesRecreate
