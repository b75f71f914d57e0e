CONSTANTS
    plain = plain
    warm = warm
    User = User
    Sounds <- MCSounds
    Presets <- MCSounds
    Default = plain
    Curve <- MCCurve
    UndoCap = 2
    ActsDuringLoad = TRUE
    Overlap = FALSE
    MaxEdits = 2
    MaxLoads = 1
SPECIFICATION UndoSpec
INVARIANT
    HistoryIsOfSession
