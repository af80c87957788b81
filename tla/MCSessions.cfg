SPECIFICATION FairSpec
CONSTANTS
    a1 = a1
    a2 = a2
    b1 = b1
    Acts <- MCActs
    MaxBeats = 3
    SessionIDs = {1, 2}
    SessionOf <- MCSessionOf
    Size = 1
    Workloads <- MCWorkloads
    Disturbed <- MCDisturbed
    None = None
INVARIANTS
    ProgressIsKept
    CanceledOnlyIfAsked
    TokensAreKept
    PollerWakes
PROPERTIES
    SessionsEnd
CHECK_DEADLOCK FALSE
