SPECIFICATION Spec
CONSTANTS
    DevCfgs <- MCDevCfgs
    OutWords <- MCOutWords
    InWords <- MCInWords
    Modes <- MCModes
    TtyModes <- MCTtyModes
INVARIANTS
    TypeOK
    PcmsFollowCall
    NoHalfOpenCall
    NoStaleRoute
    VoiceRoutesCurrent
    RecordingIsRouted
PROPERTIES
    CallMicStable
