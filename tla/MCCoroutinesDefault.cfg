SPECIFICATION Spec
CONSTANTS
    NumCoros = 2
    Chans = {"a", "b", "s"}
    SignalChans = {"s"}
    Futures = {"f"}
    Size <- MCSize
    Selectors = {"either", "busy"}
    Cases <- MCCases
    Default <- MCDefault
    Operations = {"select", "spawn"}
    MaxOps = 2
    MaxSends = 2
    UpdateNames = {}
    MaxUpdates = 0
    CloseUnderSelect = FALSE
    ShareDefault = TRUE
    None = None
INVARIANTS
    SentIsNotLost
CHECK_DEADLOCK FALSE
