SPECIFICATION CoordinatorSpec
CONSTANTS
    c1 = c1
    c2 = c2
    c3 = c3
    ok = ok
    bad = bad
    None = None
    Calls = {c1, c2, c3}
    Results = {ok, bad}
    FailedResults = {bad}
    Sizes = {1, 3}
    MaxStreamItems = 2
    MaxDeltaBytes = 2
    MaxPending = 2
    MaxResults = 1
    MaxDrain = 2
    MaxRaw = 3
    MaxFailures = 2
SYMMETRY CallSymmetry
INVARIANTS
    StreamTiles
    QueueBounded
PROPERTIES
    ResultAcceptedOnce
