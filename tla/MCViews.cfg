CONSTANTS
    Parts = {"history", "scroll", "scope"}
    KSize = 24
    RingSize = 3
    MaxLead = 4
    Steps = 2
    Pairs = {"a", "b"}
    Block <- MCBlock
    Wanted <- MCWanted
    Cols = 8
    Now = 1
    LapMargin = 1
    Deliveries = {1, 3}
    MaxEntries = 4
    MaxClears = 2
    MaxTicks = 3
    MaxCalls = 7
    Windows = {1, 2, 3, 7, 12, 23, 30}
    Widths = {2, 5, 8, 12}
    MaxJump = 2
    MaxHead = 40
    MaxLag = 2
    Capacity = 2
    Window = 1
    Opened <- MCOpened
    Prepared <- MCPrepared
    MaxFrames = 3
    MaxPrepares = 1
SPECIFICATION ViewsSpec
INVARIANTS ShownIsOneTimeline VerticesAreWhole PanelIsCovered FrameIsOneSpan
PROPERTIES NeverRightward ScrollsRigidly
CHECK_DEADLOCK FALSE
