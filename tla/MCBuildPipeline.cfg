SPECIFICATION FairPipelineSpec
CONSTANTS
    Plugins = 2
    Replacing = TRUE
    Commands = {1, 2, 3, 4, 5, 6, 7, 8}
    MaxFaults = 2
INVARIANTS
    OneContainer
    SuccessIsClean
PROPERTIES
    ZeroExitCounts
    LeakExplained
    CancelStopsBuild
    BuildEnds
CHECK_DEADLOCK FALSE
