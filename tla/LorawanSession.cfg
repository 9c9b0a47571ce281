SPECIFICATION FairSpec
CONSTANTS
    Configs = {c1, c2}
    NoConfig = noConfig
    Factory = c1
    EventQueMax = 2
    MsgQueMax = 2
    JoinAttempts = 2
    Faults <- AllFaults
    MaxFaults = 1
    Commands <- AllCommands
    MaxMessages = 1
    MaxCommands = 2
    MaxChanges = 1
    MaxReboots = 1
INVARIANTS RecordMatchesSession HandedOnce
PROPERTIES UplinkOnFreshSession OnlyFullQueuesLose JoinSettles Rejoins
CHECK_DEADLOCK FALSE
