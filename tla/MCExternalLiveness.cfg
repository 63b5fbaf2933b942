SPECIFICATION MCFairSpec
CONSTANTS
    Controllers = {a, b}
    Messages = {m1}
    Interactions = {}
    Outcomes = {"completed", "interrupted"}
    NoController = NoController
    NoMessage = NoMessage
    MaxFaults = 3
    ClocksCount = FALSE
PROPERTY
    AcceptedTurnLeaves
CHECK_DEADLOCK FALSE
