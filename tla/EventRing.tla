------------------------------ MODULE EventRing ------------------------------
(***************************************************************************)
(* The circular reader of the sensor drivers, class                        *)
(* InputEventCircularReader of libsensors/InputEventReader.cpp.  The array *)
(* has 2 * N slots: a read(2) of up to mFreeSpace events goes to mHead in  *)
(* one piece, and what it put past mBufferEnd (slot N) is copied to the    *)
(* front.  Pointers are slot numbers; mBuffer is slot 0.                   *)
(***************************************************************************)
EXTENDS Naturals, Sequences

CONSTANTS N,         \* numEvents
          Event, NoEvent

ASSUME NAssumption == N \in Nat \ {0}
ASSUME NoEventAssumption == NoEvent \notin Event

VARIABLES mBuffer, mHead, mCurr, mFreeSpace,
          filled,    \* history: the events the last fill read
          event      \* what readEvent last pointed its caller at

vars == <<mBuffer, mHead, mCurr, mFreeSpace, filled, event>>

Slots == 0 .. 2 * N - 1

Init ==
    /\ mBuffer = [i \in Slots |-> NoEvent]
    /\ mHead = 0 /\ mCurr = 0 /\ mFreeSpace = N
    /\ filled = <<>> /\ event = NoEvent

\* The array after read(2) put the batch at mHead.
AfterRead(batch) ==
    [i \in Slots |-> IF i \in mHead .. mHead + Len(batch) - 1
                     THEN batch[i - mHead + 1] ELSE mBuffer[i]]

\* Mutant of the next definition: one event too few.
BugCopyBackShort(buffer, s) ==
    [i \in Slots |-> IF i + 1 < s THEN buffer[N + i] ELSE buffer[i]]

\* The memcpy of the s events past mBufferEnd to the front.
CopyBack(buffer, s) ==
    [i \in Slots |-> IF i < s THEN buffer[N + i] ELSE buffer[i]]

\* Mutant of the next definition: off by one.
BugWrapsLate(head) == head > N + 1

Wraps(head) == head > N

\* fill, when the kernel hands over the events of a batch.  A failed or a
\* partial read leaves the reader as it is.
FillWith(batch) ==
    LET head == mHead + Len(batch)
    IN  /\ mFreeSpace' = mFreeSpace - Len(batch)
        /\ IF Wraps(head)
           THEN mBuffer' = CopyBack(AfterRead(batch), head - N) /\ mHead' = head - N
           ELSE mBuffer' = AfterRead(batch) /\ mHead' = head
        /\ filled' = batch
        /\ UNCHANGED <<mCurr, event>>

Fill == \E k \in 1 .. mFreeSpace : \E batch \in [1 .. k -> Event] : FillWith(batch)

\* Mutant of Advance: off by one.
BugAdvanceLate(curr) == IF curr + 1 > N THEN 0 ELSE curr + 1

\* readEvent on a reader that holds events, then next, as the drivers'
\* readEvents loops call them.
Advance(curr) == IF curr + 1 >= N THEN 0 ELSE curr + 1

ReadEvent ==
    /\ N - mFreeSpace > 0
    /\ event' = mBuffer[mCurr]
    /\ mCurr' = Advance(mCurr)
    /\ mFreeSpace' = mFreeSpace + 1
    /\ UNCHANGED <<mBuffer, mHead, filled>>

Next == Fill \/ ReadEvent

Spec == Init /\ [][Next]_vars

-----------------------------------------------------------------------------
TypeOK ==
    /\ mBuffer \in [Slots -> Event \cup {NoEvent}]
    /\ mHead \in 0 .. N /\ mCurr \in 0 .. N - 1 /\ mFreeSpace \in 0 .. N
    /\ filled \in Seq(Event) /\ event \in Event \cup {NoEvent}

\* The write position is where the unread events end, modulo N.  Only a
\* position past mBufferEnd wraps, so mHead may rest on mBufferEnd while mCurr
\* has wrapped to the front already.
HeadFollowsUnread ==
    LET last == mCurr + (N - mFreeSpace)
    IN  \/ mHead = last
        \/ mHead + N = last
        \/ mHead = N /\ last = 0

\* The next read(2), whatever it returns, starts right after the unread events
\* and stays inside the array.
ReadStaysInArray == HeadFollowsUnread /\ mHead + mFreeSpace <= 2 * N

\* The unread events, oldest first: the queue the drivers see.
Slot(i) == IF mCurr + i < N THEN mCurr + i ELSE mCurr + i - N
Unread  == [i \in 1 .. N - mFreeSpace |-> mBuffer[Slot(i - 1)]]

\* The ring is a bounded queue: nothing unread is overwritten, skipped or
\* delivered twice, across any number of wraps.
Fifo == INSTANCE EventFifo WITH Capacity <- N, queue <- Unread,
                              filled <- filled, event <- event
RingIsFifo == Fifo!Spec
=============================================================================
