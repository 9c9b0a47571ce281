SPECIFICATION FairSpec
CONSTANTS
    ColdMax = 1
    HotMax = 1
    Periods = {0, 1}
    MaxPeriod = 3
    MinPeriod = 2
    Hours = 3
    Starts <- Mornings
    Factor = 2
    Skips = 2
    Triggers = 2
    Window = 0
    MaxEvents = 2
    Modes = {"off", "skip", "count"}
    Inputs = {"period", "active", "mode", "fix", "reset", "stop", "interval"}
    Bound = 2
INVARIANTS
    TriesEnd
    HotHasData
    GpsAsDescribed
PROPERTIES
    MotionServed
    FixesGoOn
