SPECIFICATION FairSpec
CONSTANTS
    Groups = {"g"}
    History <- MCShortHistory
    Slots = 2
    MaxSlots = 2
    Minimum = 1
    Maximum = 2
    Initial = 1
    Backlogs = {2}
    ServerSupportsAutoscaling = TRUE
    Polls = {1, 2}
    None = None
PROPERTIES
    EveryGroupIsPolled
