SPECIFICATION FairSpec
CONSTANTS
    Pollers = {p1}
    Permits = {s1, s2}
    PolledTasks = {t1}
    EagerTasks = {a1}
    EagerReqs = {e1}
    MaxPerTask = 1
    MaxConcurrent = 0
    None = None
    Empty = Empty
INVARIANTS
    SlotsConserved
    UsedMeansProcessing
    SendHasReceiver
    DrainLosesNothing
    StopIsFinal
    AtMostOneLatePoll
PROPERTIES
    StopTerminates
    ReceivedTasksSettle
