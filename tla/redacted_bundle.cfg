CONSTANTS
    p1 = p1
    p2 = p2
    Procs = {p1, p2}
    Nobody = Nobody
    Shared = Shared
    Picture <- MCPicture
    MaxColors = 3
    PngColors = 4
    Jobs <- RedactedJobs
    NoJob <- MCNoJob
    Assignments <- RedactedAssignments
    Calls = {"finalize", "build"}
    Handled <- MCHandled
    MaxFiles = 4
    FaultKinds = {"write", "sync", "crash", "touch"}
    MaxFaults = 0
    MaxEdits = 0

SPECIFICATION Spec

INVARIANTS
    PublishedVerifies

CHECK_DEADLOCK FALSE
