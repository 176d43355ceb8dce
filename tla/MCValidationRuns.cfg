SPECIFICATION BoundedSpec
CONSTANTS
    p1 = p1 p2 = p2 c1 = c1 c2 = c2 r1 = r1 r2 = r2
    Seats = {p1, p2}
    Callers = {c1, c2}
    Readers = {r1, r2}
    NoJob = NoJob
    MaxFaults = 1
INVARIANTS LaunchBarrier OneJudge ReceiptVerifies
PROPERTIES LaunchesSettled OpenRunMinted
CHECK_DEADLOCK FALSE
