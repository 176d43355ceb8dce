SPECIFICATION LockSpec
CONSTANTS
    Procs = {p1, p2, p3}
    MaxDeaths = 2
INVARIANTS OneHolder
PROPERTIES DeadLockReclaimed
CHECK_DEADLOCK FALSE
