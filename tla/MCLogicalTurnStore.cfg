CONSTANTS
    Turns = {t1}
    Sessions = {s1}
    Instances = {i1}
    CancelKeys = {k1, k2}
    Slots = {0}
    Attempts = {0}
    MaxRevision = 6
    None = None
SPECIFICATION StoreSpec
INVARIANTS
    SingleOwner
    CheckpointChain
    LifecycleAnnounced
    UnknownOutcomeBlocks
PROPERTIES
    ImplementsTurnLifecycle
CHECK_DEADLOCK FALSE
