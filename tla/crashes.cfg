CONSTANTS
    p1 = p1
    p2 = p2
    Procs = {p1, p2}
    Nobody = Nobody
    Calls = {"plan", "submit", "build", "approve", "reject", "retry", "finalize", "cancel"}
    ManualProvider = TRUE
    MaxEvents = 12
    FaultKinds = {"crash"}
    MaxFaults = 2

SPECIFICATION Spec

SYMMETRY CallersAreAlike

INVARIANTS
    StateIsBacked
    OnlyApprovedCompletes
