SPECIFICATION FairSpec
CONSTANTS
    k1 = k1
    w1 = w1
    w2 = w2
    j1 = j1
    c1 = c1
    Keys = {k1}
    Workers = {w1, w2}
    NoWorker = NoWorker
    NoKey = NoKey
    MaxAttempts = 2
    StuckThreshold = 1
    MaxAhead = 0
    MaxElapsed = 1
    MaxLocked = 0
    AttemptBound = 7
    MaxConcurrent = 1
    Preemptible = {}
    Stoppable = {}
    Mortal = {w1}
    MaxFaults = 1
    Cycles = {j1}
    BuildRequests = {}
    ForcedRequests = {}
    CompatRequests = {c1}
PROPERTIES
    BuildsSettle
    CompatHandlerEnds
