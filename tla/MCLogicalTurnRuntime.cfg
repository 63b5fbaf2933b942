SPECIFICATION FairRuntimeSpec
CONSTANTS
    t1 = t1
    t2 = t2
    s1 = s1
    k1 = k1
    None = None
    Turns = {t1}
    Sessions = {s1}
    Instances = {0, 1}
    CancelKeys = {k1}
    Slots = {0, 1}
    Attempts = {0, 1, 2, 3, 4, 5, 6, 7, 8, 9}
    MaxRevision = 9
    MaxContinuations = 1
    MaxTools = 2
    MaxSwaps = 1
INVARIANTS
    ActiveWakeOwnsTurn
    
    ToolExecutedOnce
    EveryInterruptionResolvable
PROPERTIES
    ActionsOnlyFromOwner
    
    StoreSpec
CHECK_DEADLOCK FALSE
