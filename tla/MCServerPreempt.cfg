SPECIFICATION Spec
CONSTANTS
    k1 = k1
    w1 = w1
    w2 = w2
    j1 = j1
    j2 = j2
    c1 = c1
    Keys = {k1}
    Workers = {w1, w2}
    NoWorker = NoWorker
    NoKey = NoKey
    MaxAttempts = 1
    StuckThreshold = 2
    MaxAhead = 0
    MaxElapsed = 1
    MaxLocked = 0
    AttemptBound = 7
    MaxConcurrent = 1
    Preemptible = {w1}
    Stoppable = {w1}
    Mortal = {}
    MaxFaults = 0
    Cycles = {j1, j2}
    BuildRequests = {}
    ForcedRequests = {}
    CompatRequests = {c1}
SYMMETRY CycleSymmetry
INVARIANTS
    ServerTypeOK
    RetryBudget
PROPERTIES
    QueueSpec
    RescueLeavesNoOpenAttempt
