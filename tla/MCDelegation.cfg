SPECIFICATION MCSpec
CONSTANTS
    r1 = r1
    r2 = r2
    r3 = r3
    r4 = r4
    m1 = m1
    Root = Root
    None = None
    Members = {m1}
    Runs = {r1, r2, r3, r4}
    Limit <- MCLimit
    Request <- MCRequest
    Batches <- MCBatches
    Outcomes = {"completed", "failed"}
    MaxWakes = 3
    MaxFaults = 2
    MaxEvents = 4
INVARIANTS
    
    ClaimsAgree
    OneRunPerItem
    StatusIsTrue
    SweepLeavesNoOrphan
CHECK_DEADLOCK FALSE
