SPECIFICATION Spec
CONSTANTS
    Activities = {a1}
    Timers = {t1}
    Children = {c1}
    Nexus = {n1, n2}
    Externals = {x1}
    Markers = {m1}
    CancelUnsentNexus = FALSE
    Disconnected = {n1, n2}
    MaxTasks = 3
    Workloads <- MCWorkloads
    None = None
SYMMETRY Symmetry
INVARIANTS
    TypeOK
    NoIllegalTransition
    CommandsAccepted
    PredictedIDs
    NexusMapping
    FuturesSettle
    CancelReachesServer
