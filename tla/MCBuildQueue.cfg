SPECIFICATION QueueSpec
CONSTANTS
    k1 = k1
    k2 = k2
    w1 = w1
    w2 = w2
    Keys = {k1, k2}
    Workers = {w1, w2}
    NoWorker = NoWorker
    MaxAttempts = 2
    StuckThreshold = 0
    MaxAhead = 0
    MaxElapsed = 0
    MaxLocked = 1
    AttemptBound = 2
SYMMETRY Symmetry
INVARIANTS
    QueueTypeOK
    LockIffBuilding
    CompletedIsServable
    OwnerIsNewestAttempt
PROPERTIES
    VerdictsAreFinal
    LockPassesThroughPending
