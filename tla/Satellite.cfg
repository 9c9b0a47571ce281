SPECIFICATION FairSpec
CONSTANTS
    Cap = 4
    Sizes = {1, 2, 4}
    QueMax = 2
    Retries = {1, 2}
    Receives = 3
    Inputs = {"message", "send", "order", "enable", "retry", "fault"}
    Bound = 5
INVARIANTS
    NothingLost
    OnceAtGateway
    ExecutedOnce
PROPERTIES
    SendEnds
CHECK_DEADLOCK FALSE
