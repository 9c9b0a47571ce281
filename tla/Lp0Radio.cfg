SPECIFICATION FairSpec
CONSTANTS
    Roles = {0, 1, 2}
    LrQueMax = 2
    Lp0QueMax = 2
    FlashQueMax = 2
    Payloads = 2
    FillCount = 2
    Modes = {"DEFAULT", "TRANSFER", "STATION"}
    Packets = {"ack", "ping", "fill", "data", "error"}
    Bound = 2
    Inputs = {"message", "fill", "set", "packet", "fix", "job", "uplink", "mode", "role", "store", "fault", "slow"}
INVARIANTS
    RadioExclusive
    OffloadPaired
    OffloadServed
PROPERTIES
    OffloadEnds
    RadioReturns
CHECK_DEADLOCK FALSE
