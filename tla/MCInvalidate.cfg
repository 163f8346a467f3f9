CONSTANTS
    Procs = {p1, p2}
    NoSnap = NoSnap
    MaxVersion = 1
    MaxCalls = 1
SPECIFICATION Spec
INVARIANTS InvalidateForcesRefresh
