CONSTANTS
    Parts = {"macro", "learn", "publish", "clamp", "presets"}
    Order <- MCOrder
    Positions = {0, 1}
    Default = 0
    Slots <- MCSlots
    MaxDrainCalls = 3
    Sessions = {1}
    MaxBlocks = 2
    MaxClicks = 3
    MaxHostCalls = 2
    MaxPublications = 4
    Taps = 6
    Attack = 3
    Reach = 2
    Lead = 1
    Levels <- MCLevels
    Readings <- MCReadings
    MaxMoves = 2
    MaxLoud = 2
    Params <- MCParams
    Excluded = {"freeze"}
    Raws <- MCRaws
    Snap <- MCSnap
    Factory <- MCFactory
    SortedNames <- MCSortedNames
    Tilde = {"~x"}
    OnDisk <- MCOnDisk
    Foreign <- MCForeign
    MaxActs = 3
SPECIFICATION ExchangesSpec
CHECK_DEADLOCK FALSE
INVARIANTS
    LastVerbStands
    LearnFollowsClicks
    SavedIsLatest
    TickedRowIsSource
    RingReachesAll
    MarkIsAboutTheFile
    GainKeepsPromise
    JudgedAtEmission
PROPERTIES
    PaintsAreFrames
