CONSTANTS
    j1 = j1
    p1 = p1
    p2 = p2
    p3 = p3
    Jobs = {j1}
    Procs = {p1, p2, p3}
    Nobody = Nobody
    NoJob = NoJob
    Calls = {"create", "retry", "list", "update"}
    FaultKinds = {"append"}
    MaxFaults = 2

SPECIFICATION Spec

SYMMETRY CallersAreAlike

INVARIANTS
    VisibleIsWhole
