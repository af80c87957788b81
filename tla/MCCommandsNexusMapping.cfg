SPECIFICATION Spec
CONSTANTS
    Activities = {}
    Timers = {}
    Children = {}
    Nexus = {n1, n2}
    Externals = {}
    Markers = {}
    CancelUnsentNexus = TRUE
    Disconnected = {n1, n2}
    MaxTasks = 3
    Workloads <- MCWorkloads
    None = None
INVARIANT
    NexusMapping
