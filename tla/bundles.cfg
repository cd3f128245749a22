CONSTANTS
    p1 = p1
    p2 = p2
    Procs = {p1, p2}
    Nobody = Nobody
    Shared = Shared
    Picture <- MCPicture
    MaxColors = 3
    PngColors = 4
    Jobs <- MCJobs
    NoJob <- MCNoJob
    Assignments <- MCAssignments
    Calls = {"finalize", "build"}
    Handled <- MCHandled
    MaxFiles = 4
    FaultKinds = {"write", "sync", "crash", "touch"}
    MaxFaults = 1
    MaxEdits = 2

SPECIFICATION Spec

INVARIANTS
    TypeOK
    PublishedVerifies
    OneChangeIsFound
    CleanMeansPublished
    FinalIsApproved
    AcceptedHasEvidence
    PublishedStays

CHECK_DEADLOCK FALSE
