SPECIFICATION FairSpec
CONSTANTS
    BufLen = 3
    Room = 1
    Inputs <- AllCauses
    Bound = 4
INVARIANTS ResultsKept AdvertisesAsSet
PROPERTIES SearchGoesOn ScanEnds
CHECK_DEADLOCK FALSE
