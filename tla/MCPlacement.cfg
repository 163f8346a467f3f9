CONSTANTS
    None = None
    Unmanaged = Unmanaged
    h1 = h1
    h2 = h2
    anyMac = anyMac
    xcodeMac = xcodeMac
    Hosts = {h1, h2}
    Names = {n1, n2, n3}
    VMIds = {v1, v2}
    ScaleSets = {anyMac, xcodeMac}
    Settings <- MCSettings
    Spec0 <- MCSpec0
    Unreported = {}
    Ages = {0, 3, 6}
    StaleAfter = 2
    PruneAfter = 5
    Renames = 2
SYMMETRY Interchangeable
SPECIFICATION Spec
INVARIANTS TypeOK OneVMPerHost ShareIsPlaceable
