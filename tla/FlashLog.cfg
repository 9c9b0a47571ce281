SPECIFICATION Spec
CONSTANTS
    NBlocks = 3
    BlockSize = 5
    PageSize = 4
    Sizes <- SmallSizes
    TestSize = 2
    MaxMsgs = 8
    MaxFaults = 1
    FaultSites <- WritesFail
    MaxCuts = 0
INVARIANTS Geometry NoOverwrite
PROPERTIES LossOnlyByFault Implements BootSucceeds
CHECK_DEADLOCK FALSE
