CONSTANTS
    Procs = {p1, p2}
    NoSnap = NoSnap
    MaxVersion = 1
    MaxCalls = 2
SPECIFICATION FairSpec
INVARIANTS TypeOK SingleFlight
PROPERTIES NilErrorMeansRefreshed ServesLatest SnapshotsAdvance LeaderSeesPast GetReturns
