SPECIFICATION Spec
CONSTANTS
    Handles = {"orientation", "acceleration", "proximity"}
    Reporting = {"proximity"}
    Count = 2
    RingSize = 2
    QueueBound = 2
    PipeSize = 1
    Errno = 1
INVARIANTS
    TypeOK
    PendingWakes
    SharedPower
    FitsBuffer
PROPERTIES
    FusionNotInterrupted
