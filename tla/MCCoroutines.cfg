SPECIFICATION Spec
CONSTANTS
    NumCoros = 3
    Chans = {"a", "b", "s"}
    SignalChans = {"s"}
    Futures = {"f"}
    Size <- MCSize
    Selectors = {"either", "relay", "poll", "busy"}
    Cases <- MCCases
    Default <- MCDefault
    Operations = {"receive", "receiveAsync", "send", "select", "close", "lock", "spawn", "update"}
    MaxOps = 4
    MaxSends = 2
    UpdateNames = {"u"}
    MaxUpdates = 1
    CloseUnderSelect = FALSE
    ShareDefault = FALSE
    None = None
INVARIANTS
    SentIsNotLost
    NoLostWakeup
    UpdatesRunFirst
PROPERTIES
    ChannelsImplementQueues
CHECK_DEADLOCK FALSE
