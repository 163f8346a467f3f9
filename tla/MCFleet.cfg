CONSTANTS
    None = None
    Unmanaged = Unmanaged
    NoSnap = NoSnap
    Cleaner = Cleaner
    ios = ios
    mac = mac
    w1 = w1
    w2 = w2
    ScaleSets = {ios}
    Procs = {ios, Cleaner}
    Settings <- StaticAutoSet
    WorkerNames = {w1,w2}
    WorkerSpec <- TwinMacs
    StaleAfter = 2
    PruneAfter = 5
    StaticMaxVMs = 0
    VMIds = {}
    MaxJobs <- NoJob
    AgeLevels = 0
    Faults = {"workerGoes", "workerPauses", "pruneFails"}
    FaultBudget = 2
    Sweeps = TRUE
    MaxAttempts = 2
SPECIFICATION FairSpec
INVARIANTS ReportsAreCurrent
PROPERTIES CapacityFollowsFleet ExclusionsAreReported
