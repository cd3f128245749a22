CONSTANTS
    p1 = p1
    p2 = p2
    Procs = {p1, p2}
    Nobody = Nobody
    Calls = {"plan", "submit", "build", "approve", "reject", "retry", "finalize", "cancel"}
    ManualProvider = FALSE
    MaxEvents = 9
    FaultKinds = {"crash"}
    MaxFaults = 1

SPECIFICATION Spec

SYMMETRY CallersAreAlike

INVARIANTS
    StrandedIsRebuildable
