CONSTANTS
    p1 = p1
    p2 = p2
    p3 = p3
    Procs = {p1, p2, p3}
    Nobody = Nobody
    Calls = {"plan", "submit", "build", "approve", "reject", "retry", "finalize", "cancel"}
    ManualProvider = FALSE
    MaxEvents = 12
    FaultKinds = {}
    MaxFaults = 0

SPECIFICATION Spec

SYMMETRY CallersAreAlike

INVARIANTS
    BuildOwnsItsJob

PROPERTIES
    CallsAreAtomic
