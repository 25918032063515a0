SPECIFICATION Spec
CONSTANTS
    bma250 = bma250
    yas530 = yas530
    Input = Input
    Sensors <- MCSensors
    MaxCommands = 2
    MaxSamples = 1
    MaxUnread = 2
INVARIANTS
    NoLostActivation
PROPERTIES
    SamplesWhileActive
    QuietWhenInactive
    PollerKeepsUp
