CONSTANTS
    j1 = j1
    j2 = j2
    p1 = p1
    p2 = p2
    Jobs = {j1, j2}
    Procs = {p1, p2}
    Nobody = Nobody
    NoJob = NoJob
    Calls = {"create", "list", "events"}
    FaultKinds = {"write", "crash", "sync"}
    MaxFaults = 2

SPECIFICATION FairSpec

INVARIANTS
    IStore
    StagingIsSpared

PROPERTIES
    StagingIsReclaimed
