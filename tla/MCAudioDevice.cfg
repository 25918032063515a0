SPECIFICATION DeviceSpec
CONSTANTS
    NoName = NoName
    NoVal = NoVal
    BootValue = "2"
    Documents <- MCDocuments
    Controls <- MCControls
    Accepts <- MCAccepts
    CallDocuments <- MCCallDocuments
    Paths <- MCPaths
    Volumes <- MCVolumes
    VolumeSteps = 5
    HasGetWbAmr = TRUE
    MaxMessages = 2
INVARIANTS
    SectionsMatchFile
    MixerAfterOpen
    ModemFollows
    RateKnown
CHECK_DEADLOCK FALSE
