CONSTANTS
    Order <- MCOrder
    Positions = {0, 1}
    Default = 0
    Slots <- MCSlots
    MaxDrainCalls = 3
SPECIFICATION DrainSpec
CHECK_DEADLOCK FALSE
INVARIANT
    ReengagedIsOnCurve
