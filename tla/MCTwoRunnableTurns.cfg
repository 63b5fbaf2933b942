SPECIFICATION RuntimeSpec
CONSTANTS
    t1 = t1
    t2 = t2
    s1 = s1
    k1 = k1
    None = None
    Turns = {t1, t2}
    Sessions = {s1}
    Instances = {0}
    CancelKeys = {k1}
    Slots = {0}
    Attempts = {0, 1, 2, 3, 4, 5, 6, 7, 8, 9, 10, 11}
    MaxRevision = 11
    MaxContinuations = 1
    MaxTools = 0
    MaxSwaps = 0
INVARIANTS OneRunnableTurnPerSession
CHECK_DEADLOCK FALSE
