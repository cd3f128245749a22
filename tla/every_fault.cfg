CONSTANTS
    p1 = p1
    p2 = p2
    Procs = {p1, p2}
    Nobody = Nobody
    Calls = {"submit", "build", "approve", "reject", "finalize", "retry", "cancel"}
    ManualProvider = FALSE
    MaxEvents = 7
    FaultKinds = {"clean", "late", "cleanup", "crash"}
    MaxFaults = 1

SPECIFICATION FairSpec

INVARIANTS
    IInv

PROPERTIES
    TerminalIsFinal
    EveryCallReturns
