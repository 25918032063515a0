SPECIFICATION Spec
CONSTANTS
    DevCfgs <- MCDevCfgs
    OutWords <- MCOutWords
    InWords <- MCInWords
    Modes <- MCModes
    TtyModes <- MCTtyModes
INVARIANTS
    NoLeakedPcm
