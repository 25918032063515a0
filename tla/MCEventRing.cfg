SPECIFICATION Spec
CONSTANTS
    N = 3
    Event = {e1, e2}
    NoEvent = none
INVARIANTS
    TypeOK
    ReadStaysInArray
PROPERTIES
    RingIsFifo
