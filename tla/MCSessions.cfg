CONSTANTS
    SubBlockLen = 2
    GateBlocks = 2
    LraBlocks = 3
    RingSize = 3
    MaxSubBlocks = 4
    Requesters = {gui}
    ReportLag = 2
    FadeLen = 2
    MaxBlock = 2
    plain = plain
    warm = warm
    User = User
    Sounds <- MCSounds
    Presets <- MCSounds
    Default = plain
    Curve <- MCCurve
    UndoCap = 2
    ActsDuringLoad = FALSE
    Overlap = FALSE
    MaxEdits = 3
    MaxLoads = 1
SPECIFICATION SessionsSpec
INVARIANTS
    TruePeakOfSession
    PeakAndLengthOfSession
    RestingDisplay
    CacheIsCurrent
    HistoryIsOwn
    HistoryIsOfSession
    DatumOfName
PROPERTIES
    GatedWasOpen
    GatedIsClean
    RangedIsClean
    NoneLost
    NoOpApplyLeavesHistory
    Reversible
