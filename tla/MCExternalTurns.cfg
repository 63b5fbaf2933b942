SPECIFICATION MCSpec
CONSTANTS
    Controllers = {a, b}
    Messages = {m1, m2}
    Interactions = {i1}
    Outcomes = {"completed", "interrupted"}
    NoController = NoController
    NoMessage = NoMessage
    MaxFaults = 2
    ClocksCount = TRUE
SYMMETRY ExternalSymmetry
INVARIANTS
    NativeEffectOnce
    AcceptedSteerInThread
    
    PhaseIsNativeTruth

    
CHECK_DEADLOCK FALSE
