SPECIFICATION CutSpec
CONSTANTS
    NBlocks = 3
    BlockSize = 5
    PageSize = 4
    Sizes <- SmallSizes
    TestSize = 2
    MaxMsgs = 8
    MaxFaults = 1
    FaultSites <- RoomIsMade
    MaxCuts = 1
PROPERTIES FirstLapCutKeepsLog
CHECK_DEADLOCK FALSE
