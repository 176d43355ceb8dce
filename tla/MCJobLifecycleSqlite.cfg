SPECIFICATION SafetySpec
CONSTANTS
    p1 = p1
    p2 = p2
    h1 = h1
    ProcessJobs = {p1, p2}
    HttpJobs = {h1}
    DeferredJobs = {h1}
    MaxRunning = 1
    Pooled = FALSE
INVARIANT
    RowSettled
PROPERTIES
    ResultFinal
CHECK_DEADLOCK FALSE
SYMMETRY ProcessSymmetry
