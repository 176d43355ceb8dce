SPECIFICATION MCSpec
CONSTANTS
    a1 = a1
    a2 = a2
    b1 = b1
    j1 = j1
    Gateways <- MCGateways
    Jobs = {j1}
    NoGateway = none
    NoJob = none
    Operator = operator
    HostOf <- MCHostOf
    MaxRefusals = 1
    MaxLosses = 1
    MaxLapses = 1
    MaxCrashes = 1
INVARIANT
    PinGuardsFile
PROPERTIES
    ConfigKept
    ConfigsRemoved
CHECK_DEADLOCK FALSE
