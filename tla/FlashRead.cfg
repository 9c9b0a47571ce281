SPECIFICATION FairSpec
CONSTANTS
    Ports = {1, 2}
    NBlocks = 3
    PerBlock = 2
    PerPayload = 1
    Batch = 2
    FlashQueMax = 2
    LrQueMax = 1
    EventQueMax = 4
    Word = 16
    Half = 4
    Uppers = {3}
    Requests <- MCRequests
    Prefills <- MCPrefills
    MaxStores = 2
    MaxOthers = 1
INVARIANTS LockStep HeadExact GetAllGaps
PROPERTIES Answered
CHECK_DEADLOCK FALSE
