SPECIFICATION Spec
CONSTANTS
    Cap = 4
    Sizes = {1, 2}
    QueMax = 2
    Retries = {1, 2}
    Receives = 3
    Inputs = {"message", "send", "fault"}
    Bound = 5
INVARIANTS
    ClearedIsSent
CHECK_DEADLOCK FALSE
