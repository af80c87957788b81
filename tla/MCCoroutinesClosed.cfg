SPECIFICATION Spec
CONSTANTS
    NumCoros = 2
    Chans = {"a", "b", "s"}
    SignalChans = {"s"}
    Futures = {"f"}
    Size <- MCSize
    Selectors = {"either"}
    Cases <- MCCases
    Default <- MCDefault
    Operations = {"select", "close", "spawn"}
    MaxOps = 3
    MaxSends = 1
    UpdateNames = {}
    MaxUpdates = 0
    CloseUnderSelect = TRUE
    ShareDefault = FALSE
    None = None
INVARIANTS
    ClosedBranchIsRemoved
CHECK_DEADLOCK FALSE
