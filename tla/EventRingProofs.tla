--------------------------- MODULE EventRingProofs ---------------------------
(***************************************************************************)
(* Proofs about EventRing for every ring size N and every set of events.   *)
(* The inductive invariant adds to the types and the head's position that  *)
(* every unread slot holds an event; from it each step of the ring is a    *)
(* step of the bounded queue EventFifo.                                    *)
(***************************************************************************)
EXTENDS EventRing, SequenceTheorems, TLAPS

Held == N - mFreeSpace

UnreadHoldsEvents == \A i \in 0 .. Held - 1 : mBuffer[Slot(i)] \in Event

IInv == TypeOK /\ HeadFollowsUnread /\ UnreadHoldsEvents

\* The unread slots lie in the lower half, in one piece or wrapped at N.
LEMMA SlotType ==
    ASSUME TypeOK, NEW i \in 0 .. N - 1
    PROVE  Slot(i) \in 0 .. N - 1 /\ Slot(i) \in Slots
BY NAssumption DEF TypeOK, Slot, Slots

-----------------------------------------------------------------------------
(* Filling.                                                                *)

\* A fill by k events leaves the slots of the unread events as they were and
\* puts the batch into the k slots that follow them.
LEMMA FillSlots ==
    ASSUME TypeOK, HeadFollowsUnread,
           NEW k \in 1 .. mFreeSpace, NEW batch \in [1 .. k -> Event],
           FillWith(batch)
    PROVE  /\ mBuffer' \in [Slots -> Event \cup {NoEvent}]
           /\ mHead' \in 0 .. N /\ mCurr' \in 0 .. N - 1 /\ mFreeSpace' \in 0 .. N
           /\ HeadFollowsUnread'
           /\ \A i \in 0 .. Held - 1 : mBuffer'[Slot(i)] = mBuffer[Slot(i)]
           /\ \A i \in Held .. Held + k - 1 : mBuffer'[Slot(i)] = batch[i - Held + 1]
<1> USE NAssumption
<1>1. /\ k \in Nat /\ k <= N /\ Len(batch) = k /\ batch \in Seq(Event)
      /\ mFreeSpace' = mFreeSpace - k /\ mCurr' = mCurr
    BY DEF TypeOK, FillWith
<1> DEFINE read == AfterRead(batch)
<1>2. \A i \in Slots : read[i] = IF i \in mHead .. mHead + k - 1
                                 THEN batch[i - mHead + 1] ELSE mBuffer[i]
    BY <1>1 DEF AfterRead
<1>3. read \in [Slots -> Event \cup {NoEvent}]
    BY <1>1 DEF AfterRead, TypeOK
<1>4. HeadFollowsUnread'
    BY <1>1 DEF TypeOK, HeadFollowsUnread, FillWith, Wraps
<1>5. mHead' \in 0 .. N /\ mCurr' \in 0 .. N - 1 /\ mFreeSpace' \in 0 .. N
    BY <1>1 DEF TypeOK, FillWith, Wraps
<1>6. CASE ~Wraps(mHead + k)
    <2>1. mBuffer' = read /\ mHead + k <= N
        BY <1>1, <1>6 DEF FillWith, Wraps, TypeOK
    <2>2. \A i \in 0 .. Held - 1 : mBuffer'[Slot(i)] = mBuffer[Slot(i)]
        BY <1>1, <1>2, <2>1, SlotType DEF TypeOK, HeadFollowsUnread, Held, Slot, Slots
    <2>3. ASSUME NEW i \in Held .. Held + k - 1
          PROVE  mBuffer'[Slot(i)] = batch[i - Held + 1]
        <3> DEFINE at == mHead + (i - Held)
        <3>1. /\ at \in mHead .. mHead + k - 1 /\ at \in Slots
              /\ at - mHead + 1 = i - Held + 1 /\ i \in 0 .. N - 1
            BY <1>1, <2>1 DEF TypeOK, Held, Slots
        <3>2. Slot(i) = at
            BY <1>1, <2>1, <2>3 DEF TypeOK, HeadFollowsUnread, Held, Slot
        <3>3. QED BY <1>2, <2>1, <3>1, <3>2
    <2>4. QED BY <1>3, <1>4, <1>5, <2>1, <2>2, <2>3 DEF TypeOK
<1>7. CASE Wraps(mHead + k)
    <2> DEFINE s == mHead + k - N
    <2>1. mBuffer' = CopyBack(read, s) /\ s \in 1 .. N
        BY <1>1, <1>7 DEF FillWith, Wraps, TypeOK
    <2>2. \A i \in Slots : mBuffer'[i] = IF i < s THEN read[N + i] ELSE read[i]
        BY <2>1 DEF CopyBack
    <2>3. mBuffer' \in [Slots -> Event \cup {NoEvent}]
        BY <1>3, <2>1 DEF CopyBack, Slots
    <2>4. \A i \in 0 .. Held - 1 : mBuffer'[Slot(i)] = mBuffer[Slot(i)]
        BY <1>1, <1>2, <2>1, <2>2, SlotType DEF TypeOK, HeadFollowsUnread, Held, Slot, Slots
    <2>5. ASSUME NEW i \in Held .. Held + k - 1
          PROVE  mBuffer'[Slot(i)] = batch[i - Held + 1]
        <3> DEFINE at == mHead + (i - Held)
        <3>1. /\ at \in mHead .. mHead + k - 1 /\ at \in Slots
              /\ at - mHead + 1 = i - Held + 1 /\ i \in 0 .. N - 1
            BY <1>1, <2>1 DEF TypeOK, Held, Slots
        <3>2. Slot(i) \in 0 .. N - 1 /\ Slot(i) \in Slots
            BY <3>1, SlotType
        <3>3. Slot(i) = at \/ N + Slot(i) = at
            BY <1>1, <2>5 DEF TypeOK, HeadFollowsUnread, Held, Slot
        <3>4. IF Slot(i) < s THEN N + Slot(i) = at ELSE Slot(i) = at
            BY <1>1, <2>1, <3>1, <3>2, <3>3 DEF TypeOK
        <3>5. mBuffer'[Slot(i)] = read[at]
            BY <2>2, <3>2, <3>4
        <3>6. QED BY <1>2, <3>1, <3>5
    <2>6. QED BY <1>4, <1>5, <2>3, <2>4, <2>5 DEF TypeOK
<1>8. QED BY <1>6, <1>7

-----------------------------------------------------------------------------
(* The inductive invariant.                                                *)

LEMMA InitIInv == Init => IInv
BY NAssumption DEF Init, IInv, TypeOK, HeadFollowsUnread, UnreadHoldsEvents, Held, Slots

LEMMA FillIInv == ASSUME IInv, Fill PROVE IInv'
<1> USE NAssumption
<1>1. PICK k \in 1 .. mFreeSpace : \E batch \in [1 .. k -> Event] : FillWith(batch)
    BY DEF Fill
<1>2. PICK batch \in [1 .. k -> Event] : FillWith(batch)
    BY <1>1
<1>3. mCurr' = mCurr /\ event' = event /\ mFreeSpace' = mFreeSpace - k
    BY <1>2 DEF FillWith, IInv, TypeOK
<1>4. /\ mBuffer' \in [Slots -> Event \cup {NoEvent}]
      /\ mHead' \in 0 .. N /\ mCurr' \in 0 .. N - 1 /\ mFreeSpace' \in 0 .. N
      /\ HeadFollowsUnread'
      /\ \A i \in 0 .. Held - 1 : mBuffer'[Slot(i)] = mBuffer[Slot(i)]
      /\ \A i \in Held .. Held + k - 1 : mBuffer'[Slot(i)] = batch[i - Held + 1]
    BY <1>2, <1>3, FillSlots DEF IInv
<1>5. TypeOK'
    <2>1. filled' \in Seq(Event)
        BY <1>2 DEF FillWith, IInv, TypeOK
    <2>2. QED BY <1>3, <1>4, <2>1 DEF IInv, TypeOK
<1>6. ASSUME NEW i \in 0 .. Held' - 1 PROVE mBuffer'[Slot(i)'] \in Event
    <2>1. Slot(i)' = Slot(i) /\ Held' = Held + k
        BY <1>2, <1>3 DEF Slot, Held, IInv, TypeOK
    <2>2. CASE i \in 0 .. Held - 1
        BY <1>4, <2>1, <2>2 DEF IInv, UnreadHoldsEvents
    <2>3. CASE i \in Held .. Held + k - 1
        <3>1. i - Held + 1 \in 1 .. k
            BY <2>3 DEF IInv, TypeOK, Held
        <3>2. QED BY <1>4, <2>1, <2>3, <3>1
    <2>4. QED BY <1>6, <2>1, <2>2, <2>3 DEF IInv, TypeOK, Held
<1>7. QED BY <1>4, <1>5, <1>6 DEF IInv, UnreadHoldsEvents

\* Reading moves the window of unread slots on by one.
LEMMA ReadShifts ==
    ASSUME IInv, ReadEvent
    PROVE  /\ Held' = Held - 1 /\ Held \in 1 .. N /\ mBuffer' = mBuffer
           /\ \A i \in 0 .. Held - 2 : Slot(i)' = Slot(i + 1)
           /\ event' = mBuffer[Slot(0)]
BY NAssumption DEF IInv, TypeOK, ReadEvent, Advance, Held, Slot

LEMMA ReadIInv == ASSUME IInv, ReadEvent PROVE IInv'
<1> USE NAssumption
<1>1. mFreeSpace' \in 0 .. N /\ mCurr' \in 0 .. N - 1 /\ mHead' = mHead
    BY DEF IInv, TypeOK, ReadEvent, Advance
<1>2. HeadFollowsUnread'
    BY <1>1 DEF IInv, TypeOK, HeadFollowsUnread, ReadEvent, Advance
<1>3. event' \in Event
    <2>1. 0 \in 0 .. Held - 1
        BY ReadShifts
    <2>2. QED BY <2>1, ReadShifts DEF IInv, UnreadHoldsEvents
<1>4. TypeOK'
    <2>1. filled' \in Seq(Event)
        BY DEF ReadEvent, IInv, TypeOK
    <2>2. QED BY <1>1, <1>3, <2>1, ReadShifts DEF IInv, TypeOK
<1>5. ASSUME NEW i \in 0 .. Held' - 1 PROVE mBuffer'[Slot(i)'] \in Event
    <2>1. i \in 0 .. Held - 2 /\ i + 1 \in 0 .. Held - 1
        BY <1>5, ReadShifts
    <2>2. QED BY <2>1, ReadShifts DEF IInv, UnreadHoldsEvents
<1>6. QED BY <1>2, <1>4, <1>5 DEF IInv, UnreadHoldsEvents

LEMMA SpecIInv == Spec => []IInv
<1>1. IInv /\ [Next]_vars => IInv'
    <2> SUFFICES ASSUME IInv, [Next]_vars PROVE IInv'
        OBVIOUS
    <2>1. CASE UNCHANGED vars
        BY <2>1 DEF vars, IInv, TypeOK, HeadFollowsUnread, UnreadHoldsEvents, Held, Slot
    <2>2. QED BY <2>1, FillIInv, ReadIInv DEF Next
<1>2. QED BY <1>1, InitIInv, PTL DEF Spec

-----------------------------------------------------------------------------
(* The theorems.                                                           *)

\* The pointers, the free count and the array keep their types.
THEOREM TypeCorrect == Spec => []TypeOK
<1>1. IInv => TypeOK
    BY DEF IInv
<1>2. QED BY <1>1, SpecIInv, PTL

\* No read(2) can run past the end of the array.
THEOREM ReadIsSafe == Spec => []ReadStaysInArray
<1>1. IInv => ReadStaysInArray
    BY NAssumption DEF IInv, TypeOK, ReadStaysInArray
<1>2. QED BY <1>1, SpecIInv, PTL

\* The unread slots read as a sequence.
UnreadSeq ==
    /\ Unread \in Seq(Event) /\ Len(Unread) = Held /\ Held \in 0 .. N
    /\ \A i \in 1 .. Held : Unread[i] = mBuffer[Slot(i - 1)]

LEMMA UnreadIsSeq == IInv => UnreadSeq
<1> SUFFICES ASSUME IInv PROVE UnreadSeq
    OBVIOUS
<1>1. Held \in 0 .. N /\ Held \in Nat
    BY NAssumption DEF IInv, TypeOK, Held
<1>2. \A i \in 1 .. Held : i - 1 \in 0 .. Held - 1
    BY <1>1
<1>3. Unread \in [1 .. Held -> Event]
    BY <1>2 DEF Unread, Held, IInv, UnreadHoldsEvents
<1>4. QED BY <1>1, <1>3 DEF Unread, Held, UnreadSeq

LEMMA FillIsFifoFill == ASSUME IInv, IInv', Fill PROVE Fifo!Fill
<1>1. PICK k \in 1 .. mFreeSpace : \E batch \in [1 .. k -> Event] : FillWith(batch)
    BY DEF Fill
<1>2. PICK batch \in [1 .. k -> Event] : FillWith(batch)
    BY <1>1
<1>3. /\ k \in Nat /\ batch \in Seq(Event) /\ Len(batch) = k
      /\ k \in 1 .. N - Len(Unread) /\ Held' = Held + k /\ Held \in Nat
    <2>1. k \in Nat /\ batch \in Seq(Event) /\ Len(batch) = k
        BY NAssumption DEF IInv, TypeOK
    <2>2. mFreeSpace' = mFreeSpace - k
        BY <1>2, <2>1 DEF FillWith
    <2>3. QED
        BY <2>1, <2>2, UnreadIsSeq, NAssumption DEF IInv, TypeOK, Held, UnreadSeq
<1>4. UNCHANGED event /\ UNCHANGED mCurr
    BY <1>2 DEF FillWith
<1>5. /\ \A i \in 0 .. Held - 1 : mBuffer'[Slot(i)] = mBuffer[Slot(i)]
      /\ \A i \in Held .. Held + k - 1 : mBuffer'[Slot(i)] = batch[i - Held + 1]
    BY <1>2, FillSlots DEF IInv
<1>6. /\ Unread' \in Seq(Event) /\ Len(Unread') = Held + k
      /\ \A i \in 1 .. Held + k : Unread'[i] = mBuffer'[Slot(i - 1)]
    <2>1. \A i : Slot(i)' = Slot(i)
        BY <1>4 DEF Slot
    <2>2. UnreadSeq'
        BY UnreadIsSeq, PTL
    <2>3. QED BY <1>3, <2>1, <2>2 DEF UnreadSeq
<1>7. /\ Unread \o batch \in Seq(Event) /\ Len(Unread \o batch) = Held + k
      /\ \A i \in 1 .. Held + k :
            (Unread \o batch)[i] = IF i <= Held THEN Unread[i] ELSE batch[i - Held]
    <2>1. Unread \in Seq(Event) /\ Len(Unread) = Held
        BY UnreadIsSeq DEF UnreadSeq
    <2>2. /\ Unread \o batch \in Seq(Event)
          /\ Len(Unread \o batch) = Len(Unread) + Len(batch)
          /\ \A i \in 1 .. Len(Unread) + Len(batch) : (Unread \o batch)[i] =
                IF i <= Len(Unread) THEN Unread[i] ELSE batch[i - Len(Unread)]
        BY <1>3, <2>1, ConcatProperties, Zenon
    <2>3. QED BY <1>3, <2>1, <2>2, Zenon
<1>8. ASSUME NEW i \in 1 .. Held + k PROVE Unread'[i] = (Unread \o batch)[i]
    <2>1. CASE i <= Held
        <3>1. i - 1 \in 0 .. Held - 1 /\ i \in 1 .. Held
            BY <1>3, <2>1
        <3>2. QED BY <1>5, <1>6, <1>7, <2>1, <3>1, UnreadIsSeq DEF UnreadSeq
    <2>2. CASE i > Held
        <3>1. i - 1 \in Held .. Held + k - 1 /\ (i - 1) - Held + 1 = i - Held /\ ~(i <= Held)
            BY <1>3, <2>2
        <3>2. Unread'[i] = mBuffer'[Slot(i - 1)]
            BY <1>6
        <3>3. mBuffer'[Slot(i - 1)] = batch[(i - 1) - Held + 1]
            BY <1>5, <3>1, Zenon
        <3>4. (Unread \o batch)[i] = batch[i - Held]
            BY <1>7, <3>1, Zenon
        <3>5. batch[(i - 1) - Held + 1] = batch[i - Held]
            BY <3>1
        <3>6. QED BY <3>2, <3>3, <3>4, <3>5
    <2>3. i <= Held \/ i > Held
        BY <1>3
    <2>4. QED BY <2>1, <2>2, <2>3, Zenon
<1>9. Unread' = Unread \o batch
    BY <1>6, <1>7, <1>8, SeqEqual
<1>10. filled' = batch
    BY <1>2 DEF FillWith
<1>11. QED BY <1>2, <1>3, <1>4, <1>9, <1>10, Zenon DEF Fifo!Fill

LEMMA ReadIsFifoDeliver == ASSUME IInv, IInv', ReadEvent PROVE Fifo!Deliver
<1>1. Held \in 1 .. N /\ Held \in Nat /\ Held' = Held - 1
    BY ReadShifts, NAssumption
<1>2. Unread # <<>>
    BY <1>1, UnreadIsSeq DEF UnreadSeq
<1>3. Head(Unread) = Unread[1]
    BY <1>2, UnreadIsSeq DEF UnreadSeq
<1>4. event' = Head(Unread)
    BY <1>1, <1>3, UnreadIsSeq, ReadShifts DEF UnreadSeq
<1>5. /\ Tail(Unread) \in Seq(Event) /\ Len(Tail(Unread)) = Held - 1
      /\ \A i \in 1 .. Held - 1 : Tail(Unread)[i] = Unread[i + 1]
    BY <1>2, UnreadIsSeq, HeadTailProperties DEF UnreadSeq
<1>6. /\ Unread' \in Seq(Event) /\ Len(Unread') = Held - 1
      /\ \A i \in 1 .. Held - 1 : Unread'[i] = mBuffer'[Slot(i - 1)']
    <2>1. UnreadSeq'
        BY UnreadIsSeq, PTL
    <2>2. QED BY <1>1, <2>1 DEF UnreadSeq
<1>7. ASSUME NEW i \in 1 .. Held - 1 PROVE Unread'[i] = Tail(Unread)[i]
    <2>1. i - 1 \in 0 .. Held - 2 /\ i + 1 \in 1 .. Held /\ (i - 1) + 1 = i /\ (i + 1) - 1 = i
        BY <1>1
    <2>2. Slot(i - 1)' = Slot(i)
        BY <2>1, ReadShifts
    <2>3. QED BY <1>5, <1>6, <2>1, <2>2, UnreadIsSeq, ReadShifts DEF UnreadSeq
<1>8. Unread' = Tail(Unread)
    BY <1>5, <1>6, <1>7, SeqEqual
<1>9. QED BY <1>2, <1>4, <1>8 DEF Fifo!Deliver, ReadEvent

\* The ring implements the bounded queue, for every N.
THEOREM RingImplementsFifo == Spec => RingIsFifo
<1>1. Init => Fifo!Init
    <2> SUFFICES ASSUME Init PROVE Unread = <<>>
        BY DEF Init, Fifo!Init
    <2>1. 1 .. N - mFreeSpace = {}
        BY NAssumption DEF Init
    <2>2. QED BY <2>1 DEF Unread
<1>2. IInv /\ IInv' /\ [Next]_vars => [Fifo!Next]_<<Unread, filled, event>>
    <2> SUFFICES ASSUME IInv, IInv', [Next]_vars
                 PROVE  Fifo!Next \/ UNCHANGED <<Unread, filled, event>>
        OBVIOUS
    <2>1. CASE UNCHANGED vars
        BY <2>1 DEF vars, Unread, Slot
    <2>2. QED BY <2>1, FillIsFifoFill, ReadIsFifoDeliver DEF Next, Fifo!Next
<1>3. QED BY <1>1, <1>2, SpecIInv, PTL DEF Spec, RingIsFifo, Fifo!Spec
=============================================================================
