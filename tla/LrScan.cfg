SPECIFICATION LFairSpec
CONSTANTS
    QueMax = 3
    SBandParts = 2
    LInputs <- AllCauses
    LBound = 4
INVARIANT ModemBack
PROPERTIES OwnAnswer WaitEnds
CHECK_DEADLOCK FALSE
