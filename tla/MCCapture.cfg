SPECIFICATION Spec
CONSTANTS
    agc = agc
    aec = aec
    NoEffect = NoEffect
    Effects <- MCEffects
    ConfigsOf <- MCConfigsOf
    Aec <- MCAec
    Failing <- MCFailing
    MaxPreprocessors = 2
    Devices <- MCDevices
    Mics <- MCMics
    Period = 2
    Requests = {1, 3}
    MaxFrame = 4
INVARIANTS
    SlotsCleared
    AuxNegotiated
    EffectsAgree
    FramesConserved
    BuffersFit
