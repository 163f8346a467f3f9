CONSTANTS
    None = None
    Unmanaged = Unmanaged
    NoSnap = NoSnap
    Cleaner = Cleaner
    ios = ios
    mac = mac
    w1 = w1
    w2 = w2
    ScaleSets = {ios, mac}
    Procs = {ios, mac, Cleaner}
    Settings <- MixedSets
    WorkerNames = {w1}
    WorkerSpec <- TwoSlotMac
    StaleAfter = 2
    PruneAfter = 5
    StaticMaxVMs = 0
    VMIds = {1, 2, 3}
    MaxJobs <- MoreForMac
    AgeLevels = 0
    Faults = {"deleteFails", "deleteLost", "listFails"}
    FaultBudget = 1
    Sweeps = FALSE
    MaxAttempts = 2
SPECIFICATION Spec
INVARIANTS SlotsAccounted NoOverProvision
PROPERTIES ImplementsSlotPool
CHECK_DEADLOCK FALSE
