SPECIFICATION FairSpec
CONSTANTS
    Procs = {p1, p2}
    Ctxs = {c1, c2, c3, c4}
    MaxEvents = 3
    None = None
INVARIANTS
    StateIsHistory
    QueriesSeeHistory
    NoContextLeaks
PROPERTIES
    TasksAreAnswered
CHECK_DEADLOCK FALSE
