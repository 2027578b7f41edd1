SPECIFICATION Spec
CONSTANTS
    k1 = k1
    w1 = w1
    b1 = b1
    b2 = b2
    Keys = {k1}
    Workers = {w1}
    NoWorker = NoWorker
    NoKey = NoKey
    MaxAttempts = 2
    StuckThreshold = 1
    MaxAhead = 0
    MaxElapsed = 0
    MaxLocked = 0
    AttemptBound = 7
    MaxConcurrent = 4
    Preemptible = {}
    Stoppable = {}
    Mortal = {}
    MaxFaults = 0
    Cycles = {}
    BuildRequests = {b1, b2}
    ForcedRequests = {b1, b2}
    CompatRequests = {}
SYMMETRY ForceSymmetry
INVARIANTS
    OneBuilderPerDisturbance
    ActiveIsRunning
