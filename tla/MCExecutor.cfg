SPECIFICATION BoundedSpec
CONSTANTS
    c1 = c1
    c2 = c2
    Calls = {c1, c2}
    Threshold = 2
    ResetTimeout = 1
INVARIANTS
    CondemnedGroupsDie
    ShutdownKillsAll
PROPERTIES
    SuccessIsWhole
    CallsReturn
    RecoveryClosesBreaker
CHECK_DEADLOCK FALSE
