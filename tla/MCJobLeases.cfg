SPECIFICATION LivenessSpec
CONSTANTS
    i1 = i1
    i2 = i2
    j1 = j1
    h1 = h1
    Instances <- MCInstances
    ProcessJobs = {j1}
    HttpJobs = {h1}
    HostOf <- SameHost
    LeaseTTL = 2
    HttpGrace = 3
    MaxFailures = 1
    MinSuccesses = 1
INVARIANT
    NoUnrecordedChild
PROPERTIES
    LedgerKept
    LiveJobsSurvive
    DeadOwnersJobsRecovered
    ResultReachesRow
CHECK_DEADLOCK FALSE
