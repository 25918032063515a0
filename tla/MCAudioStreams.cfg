SPECIFICATION FairSpec
CONSTANTS
    Controls = {c1, c2}
    NoThread = none
INVARIANTS
    TypeOK
    NoCircularWait
    NoUseAfterFree
PROPERTIES
    CallStartsQuiet
    DeviceLockReleased
    StreamsHaveLife
