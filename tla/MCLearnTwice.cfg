CONSTANTS
    Sessions = {1}
    MaxBlocks = 3
    MaxClicks = 4
    MaxHostCalls = 2
SPECIFICATION LearnSpec
CHECK_DEADLOCK FALSE
INVARIANT
    CommandArrivesOnce
