SPECIFICATION FairSpec
CONSTANTS
    s1 = s1
    s2 = s2
    f1 = f1
    f2 = f2
    r1 = r1
    d1 = d1
    d2 = d2
    m1 = m1
    m2 = m2
    None = None
    Sessions = {s1}
    FollowUps = {f1, f2}
    Routed = {r1}
    Drains = {d1, d2}
    Micros = {m1, m2}
    MaxQueued = 1
    MaxYields = 1
    MaxRestarts = 1
INVARIANTS
    OneWakeInFlight
    SuppressionHasEvent
    RunnableTurnHasWake
PROPERTIES
    RunnableTurnRuns
CHECK_DEADLOCK FALSE
