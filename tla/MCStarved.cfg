CONSTANTS
    None = None
    Unmanaged = Unmanaged
    NoSnap = NoSnap
    Cleaner = Cleaner
    ios = ios
    mac = mac
    w1 = w1
    w2 = w2
    ScaleSets = {ios, mac}
    Procs = {ios, mac, Cleaner}
    Settings <- TwoSets
    WorkerNames = {w1}
    WorkerSpec <- OneSlotMac
    StaleAfter = 2
    PruneAfter = 5
    StaticMaxVMs = 0
    VMIds = {1, 2}
    MaxJobs <- OneJob
    AgeLevels = 0
    Faults = {}
    FaultBudget = 0
    Sweeps = FALSE
    MaxAttempts = 2
SPECIFICATION FairSpec
PROPERTIES JobsServed
CHECK_DEADLOCK FALSE
