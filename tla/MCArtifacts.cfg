SPECIFICATION ArtifactsSpec
CONSTANTS
    k1 = k1
    w1 = w1
    w2 = w2
    j1 = j1
    d1 = d1
    b1 = b1
    Keys = {k1}
    Workers = {w1, w2}
    NoWorker = NoWorker
    NoKey = NoKey
    MaxAttempts = 2
    StuckThreshold = 1
    MaxAhead = 0
    MaxElapsed = 0
    MaxLocked = 0
    AttemptBound = 2
    MaxConcurrent = 1
    Preemptible = {}
    Stoppable = {}
    Mortal = {w1, w2}
    MaxFaults = 1
    Cycles = {j1}
    BuildRequests = {b1}
    ForcedRequests = {}
    CompatRequests = {}
    Signing = TRUE
    Downloads = {d1}
SYMMETRY Symmetry
INVARIANTS
    ArtifactsMatch
    DownloadIsGenuine
    CompletedHasFiles
