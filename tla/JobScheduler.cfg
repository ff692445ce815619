SPECIFICATION FairSpec

INVARIANTS
    WorkIsTracked

PROPERTIES
    DrainSeesRuns
    QueuedJobsRun

CONSTANTS
    j1 = j1
    j2 = j2
    k1 = k1
    k2 = k2
    k3 = k3
    m1 = m1
    m2 = m2
    lane = lane
    Nothing = Nothing
    Jobs = {j1}
    Tasks = {k1, k2, k3}
    Timers = {m1, m2}
    Lanes = {lane}
    LaneOf <- OneLane
    Width <- TwoThreads
    MaxRetries = 1

CHECK_DEADLOCK FALSE
