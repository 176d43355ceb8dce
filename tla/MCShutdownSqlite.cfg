SPECIFICATION Spec
CONSTANTS
    j1 = j1
    j2 = j2
    Jobs = {j1, j2}
    Pooled = FALSE
INVARIANTS
    NoOpenRowAfterDeregistration
    DeregistrationIsFinal
PROPERTIES
    ShutdownEnds
CHECK_DEADLOCK FALSE
