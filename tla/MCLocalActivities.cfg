SPECIFICATION FairSpec
CONSTANTS
    Runs = {"r1"}
    Acts = {"a", "b"}
    RunOf <- MCRunOf
    Pollers = {p1, p2}
    Slots = {s1, s2}
    MaximumAttempts = 2
    HeartbeatReturns = {TRUE}
    MaxTasks = 2
    MaxEvents = 2
    None = None
INVARIANTS
    TunnelWakes
    InOnePlace
PROPERTIES
    TasksEnd
    SlotsReturn
    StopEnds
CHECK_DEADLOCK FALSE
