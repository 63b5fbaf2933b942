SPECIFICATION MCFairSpec
CONSTANTS
    Controllers = {a, b}
    Messages = {m1}
    Interactions = {}
    Outcomes = {"completed", "interrupted"}
    NoController = NoController
    NoMessage = NoMessage
    MaxFaults = 1
    ClocksCount = FALSE
PROPERTY
    StartOutcomeIsSettled
CHECK_DEADLOCK FALSE
