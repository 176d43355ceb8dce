SPECIFICATION Spec
CONSTANTS
    p1 = p1
    p2 = p2
    h1 = h1
    ProcessJobs = {p1}
    HttpJobs = {h1}
    DeferredJobs = {h1}
    MaxRunning = 1
    Pooled = TRUE
INVARIANT
    PermitReturned
PROPERTIES
    JobsEnd
CHECK_DEADLOCK FALSE
