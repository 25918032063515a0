SPECIFICATION Spec
CONSTANTS
    Handles = {"orientation", "acceleration", "magnetic", "proximity"}
    Reporting = {"proximity"}
    Count = 2
    RingSize = 2
    QueueBound = 2
    PipeSize = 2
    Errno = 1
INVARIANT
    NoEventHeldBack
