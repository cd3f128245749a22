CONSTANTS
    p1 = p1
    p2 = p2
    Procs = {p1, p2}
    Nobody = Nobody
    Calls = {"plan", "submit", "build", "approve", "reject", "retry", "finalize", "cancel"}
    ManualProvider = FALSE
    MaxEvents = 9
    FaultKinds = {"clean"}
    MaxFaults = 3

SPECIFICATION Spec

SYMMETRY CallersAreAlike

INVARIANTS
    TypeOK
    FailedCallsLeaveNoTrace
    StrandedIsRebuildable
    DecisionAgreesWithState
    RetriedOnce
    LogReplaysToState
