CONSTANTS
    None = None
    Unmanaged = Unmanaged
    NoSnap = NoSnap
    Cleaner = Cleaner
    ios = ios
    mac = mac
    w1 = w1
    w2 = w2
    ScaleSets = {ios}
    Procs = {ios, Cleaner}
    Settings <- OneSet
    WorkerNames = {w1}
    WorkerSpec <- TwoSlotMac
    StaleAfter = 2
    PruneAfter = 5
    StaticMaxVMs = 1
    VMIds = {1, 2}
    MaxJobs <- TwoJobs
    AgeLevels = 0
    Faults = {}
    FaultBudget = 0
    Sweeps = TRUE
    MaxAttempts = 2
SPECIFICATION Spec
INVARIANTS StaticCapHolds
