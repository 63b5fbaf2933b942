SPECIFICATION FairSchedulerSpec
CONSTANTS
    w1 = w1
    w2 = w2
    h1 = h1
    h2 = h2
    None = None
    WakeJobs = {w1}
    HostJobs = {h1, h2}
    IntervalJobs = {w1}
    MaxTicks = 1
    MaxEvents = 1
    HostLimit = 2
INVARIANTS
    
    RunExecutedOnce
PROPERTIES
    ClaimedRunSettles
    JobIsRescheduled
