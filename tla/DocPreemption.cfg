SPECIFICATION Spec
CONSTANTS
    k1 = k1
    w1 = w1
    j1 = j1
    b1 = b1
    Keys = {k1}
    Workers = {w1}
    NoWorker = NoWorker
    NoKey = NoKey
    MaxAttempts = 2
    StuckThreshold = 2
    MaxAhead = 0
    MaxElapsed = 1
    MaxLocked = 0
    AttemptBound = 7
    MaxConcurrent = 1
    Preemptible = {w1}
    Stoppable = {}
    Mortal = {}
    MaxFaults = 0
    Cycles = {j1}
    BuildRequests = {b1}
    ForcedRequests = {}
    CompatRequests = {}
INVARIANTS
    PreemptionStopsAllJobs
