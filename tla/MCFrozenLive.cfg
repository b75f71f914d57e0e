CONSTANTS
    Off = Off
    Factors <- MCFactors
    FactorOff = Off
    FactorMax = Off
    ForceMax = FALSE
    OsLat <- MCOsLat
    Delay = 1
    Rewires = {0}
    Rewire0 = 0
    TpModes = {FALSE}
    OfflineModes = {FALSE}
    Full = 1
    OutStep = 1
    InStep = 1
    TailLength = 1
    MaxBlock = 1
    MaxStages = 1
    MaxMeasures = 1
SPECIFICATION FSpec
PROPERTY
    StagedIsApplied
