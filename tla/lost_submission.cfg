CONSTANTS
    p1 = p1
    p2 = p2
    Procs = {p1, p2}
    Nobody = Nobody
    Calls = {"plan", "submit"}
    ManualProvider = FALSE
    MaxEvents = 12
    FaultKinds = {}
    MaxFaults = 0

SPECIFICATION Spec

SYMMETRY CallersAreAlike

INVARIANTS
    AcceptedSourcesAreKept
