SPECIFICATION Spec
CONSTANTS
    k1 = k1
    w1 = w1
    w2 = w2
    j1 = j1
    b1 = b1
    Keys = {k1}
    Workers = {w1, w2}
    NoWorker = NoWorker
    NoKey = NoKey
    MaxAttempts = 2
    StuckThreshold = 2
    MaxAhead = 1
    MaxElapsed = 1
    MaxLocked = 0
    AttemptBound = 7
    MaxConcurrent = 1
    Preemptible = {}
    Stoppable = {}
    Mortal = {w1, w2}
    MaxFaults = 2
    Cycles = {j1}
    BuildRequests = {b1}
    ForcedRequests = {}
    CompatRequests = {}
SYMMETRY WorkerSymmetry
INVARIANTS
    OneBuilderPerDisturbance
    RetryBudget
    HistoryExplainsJob
PROPERTIES
    HealthyWorkerKeepsJob
    ImplementsLifecycle
