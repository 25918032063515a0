------------------------------ MODULE EventFifo ------------------------------
(***************************************************************************)
(* What a sensor driver is promised by its input event reader: the events  *)
(* the kernel handed over come back one at a time, in order, each exactly  *)
(* once, and never more than Capacity of them are held.                    *)
(***************************************************************************)
EXTENDS Naturals, Sequences

CONSTANTS Event, NoEvent, Capacity

VARIABLES queue,     \* events filled and not yet delivered
          filled,    \* the events the last fill read from the kernel
          event      \* the event last delivered

Init == queue = <<>> /\ filled = <<>> /\ event = NoEvent

Fill ==
    \E k \in 1 .. Capacity - Len(queue) : \E batch \in [1 .. k -> Event] :
        /\ filled' = batch
        /\ queue' = queue \o filled'
        /\ UNCHANGED event

Deliver ==
    /\ queue # <<>>
    /\ event' = Head(queue)
    /\ queue' = Tail(queue)
    /\ UNCHANGED filled

Next == Fill \/ Deliver

Spec == Init /\ [][Next]_<<queue, filled, event>>
=============================================================================
