SPECIFICATION FairMachineSpec
CONSTANTS
    k1 = k1
    w1 = w1
    Host = w1
    Keys = {k1}
    Workers = {w1}
    NoWorker = NoWorker
    NoKey = NoKey
    MaxAttempts = 1
    StuckThreshold = 0
    MaxAhead = 0
    MaxElapsed = 0
    MaxLocked = 0
    AttemptBound = 1
    MaxConcurrent = 1
    Preemptible = {w1}
    Stoppable = {}
    Mortal = {}
    MaxFaults = 0
    Commands = {1, 2, 3, 4, 5}
    Plugins = 0
    Replacing = FALSE
INVARIANTS
    MachineTypeOK
    AckAfterNotice
PROPERTIES
    NoticeHandled
    WorkerOnMachine
CHECK_DEADLOCK FALSE
