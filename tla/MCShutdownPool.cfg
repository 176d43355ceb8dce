SPECIFICATION SafetySpec
CONSTANTS
    j1 = j1
    j2 = j2
    Jobs = {j1, j2}
    Pooled = TRUE
SYMMETRY JobSymmetry
INVARIANTS
    ChildrenSignalled
    NoChildAfterDeregistration
CHECK_DEADLOCK FALSE
