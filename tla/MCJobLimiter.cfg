SPECIFICATION Spec
CONSTANTS
    t1 = t1
    t2 = t2
    t3 = t3
    t4 = t4
    p1 = p1
    p2 = p2
    p3 = p3
    Tickets <- MCTickets
    Providers <- MCProviders
    MaxRunning = 2
    MaxPerProvider = 1
    MaxQueued = 2
INVARIANTS
    PermitsWithinCaps
    NoRunnableWaiter
PROPERTIES
    ProviderFifo
    WaiterServed
