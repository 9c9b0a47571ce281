SPECIFICATION Spec
CONSTANTS
    Ports = {1, 2}
    NBlocks = 3
    PerBlock = 2
    PerPayload = 1
    Batch = 2
    FlashQueMax = 4
    LrQueMax = 2
    EventQueMax = 4
    Word = 16
    Half = 4
    Uppers = {0}
    Requests <- AllRequests
    Prefills <- AllPrefills
    MaxStores = 0
    MaxOthers = 0
INVARIANT GetAllComplete
CHECK_DEADLOCK FALSE
