SPECIFICATION WorkersSpec
CONSTANTS
    k1 = k1
    k2 = k2
    w1 = w1
    Keys = {k1, k2}
    Workers = {w1}
    NoWorker = NoWorker
    NoKey = NoKey
    MaxAttempts = 2
    StuckThreshold = 0
    MaxAhead = 0
    MaxElapsed = 0
    MaxLocked = 0
    AttemptBound = 1
    MaxConcurrent = 2
    Preemptible = {w1}
    Stoppable = {w1}
    Mortal = {w1}
    MaxFaults = 1
SYMMETRY Symmetry
INVARIANTS
    ReleaseCoversActive
    SemCountsJobs
