SPECIFICATION Spec
CONSTANTS
    Slots = 3
    MaxMessage = 46
    MainQueMax = 2
    RetryCounts = {1, 2, 3}
    SeqNrs = {1, 2}
    Bound = 6
INVARIANTS RoundSendsEach UnreadCounted
PROPERTIES LeavesAfterRetries
CHECK_DEADLOCK FALSE
