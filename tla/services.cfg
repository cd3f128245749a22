CONSTANTS
    ManualProvider = TRUE
    Uploads = {u1, u2}
    Bodies <- MCBodies
    Folded <- MCFolded
    UnsafeNames = {"../x"}
    FileLimit = 2
    TotalLimit = 3
    RequestLimit = 5
    MaxStuck = 1
    PackIds = {k1}
    Writers = {w1, w2, w3}
    MaxPackFaults = 2
    Assets = {a1, a2, a3}
    Readers = {r1}
    MaxLineageFaults = 1
    Kin = {d1}
    MaxOutput = 2
    PipeSize = 1
    CaptureLimit = 1

SPECIFICATION ServicesSpec

INVARIANTS
    StoreFailuresKeepTheirCode
    AdaptersAgree
    RefusalsAreAnswered
    UploadsAreBounded
    OneResponse
    StagingIsGone
    RevisionsAreKept
    StagedPackIsSpared
    FailedCreationsLeaveNothing
    OrphansAreRaced
    AnswersAreWhole
    BoundedRunIsHonest

PROPERTIES
    EveryPackCallIsOneStep
    MissingIsUnknown
    PackIsRightlyBlamed
    EveryRunReturns

CHECK_DEADLOCK FALSE
