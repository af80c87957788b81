SPECIFICATION Spec
CONSTANTS
    Threads = {g1, g2, g3}
    MaxSlots = 2
    MaxConcurrent = 1
    MaxVersion = 3
    NoThread = NoThread
SYMMETRY Symmetry
INVARIANTS
    CountsAgree
    EagerWithinLimit
    GaugesConverge
