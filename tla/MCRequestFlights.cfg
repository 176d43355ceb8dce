SPECIFICATION BoundedSpec
CONSTANTS
    r1 = r1
    r2 = r2
    Requests = {r1, r2}
    None = None
INVARIANT CompletedByOne
PROPERTIES ObservedStands FlightsComplete
CHECK_DEADLOCK FALSE
