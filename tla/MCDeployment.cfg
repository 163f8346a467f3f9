CONSTANTS
    Unset = Unset
    Bad = Bad
    DefaultWorkerStaleAfter = 2
    DefaultWorkerPruneAfter = 4
    DefaultMaxPendingAge = 3
    DefaultMaxVMAge = 5
    DefaultCPU = 4
    LowerCase <- Letters
    Lower <- UpperToLower
    NameLimit = 5
    RawConfigs <- Files
    Env <- AppEnv
    UUIDs <- ShortUUIDs
    MaxVMs = 2
SPECIFICATION Spec
INVARIANTS ThresholdsOrdered UnsetPruneNeverRejects TracksOnlyItsOwn NoneForgotten
