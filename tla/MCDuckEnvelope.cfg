CONSTANTS
    Off = Off
    X2 = X2
    Factors <- MCFactors
    FactorOff = Off
    FactorMax = X2
    ForceMax = TRUE
    OsLat <- MCOsLat
    Delay = 2
    Rewires = {0, 1}
    Rewire0 = 0
    TpModes = {FALSE, TRUE}
    OfflineModes = {FALSE, TRUE}
    Full = 3
    OutStep = 2
    InStep = 1
    TailLength = 2
    MaxBlock = 2
SPECIFICATION Spec
INVARIANTS
    NoAudioBeforeRefill
    TailOnlyUnderSilence
    TruePeakFromTheToggle
    EnvelopeInv
PROPERTIES
    ChangesOnlyInSilence
    NoGainStep
    RequestReachesBottom
    RecoversToUnity
