SPECIFICATION FairRunSpec
CONSTANTS
    c1 = c1
    c2 = c2
    ok = ok
    bad = bad
    None = None
    Calls = {c1, c2}
    Results = {ok, bad}
    FailedResults = {bad}
    Sizes = {1, 3}
    MaxStreamItems = 2
    MaxDeltaBytes = 2
    MaxPending = 2
    MaxResults = 1
    MaxDrain = 2
    MaxRaw = 4
    MaxFailures = 2
INVARIANTS
    TerminalDrainComplete
    PollHasAnswerComing
    OutputIsAcceptedResult
PROPERTIES
    CoordinatorSpec
    CancelledRunEnds
    RunLeavesRegistry
CHECK_DEADLOCK FALSE
