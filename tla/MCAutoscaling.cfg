SPECIFICATION Spec
CONSTANTS
    Groups = {"g"}
    History <- MCHistory
    Slots = 2
    MaxSlots = 2
    Minimum = 1
    Maximum = 2
    Initial = 1
    Backlogs = {0, 2}
    ServerSupportsAutoscaling = TRUE
    Polls = {1, 2}
    None = None
INVARIANTS
    CountsAreLeases
    NoLostWakeup
    StickyTargetFollows
