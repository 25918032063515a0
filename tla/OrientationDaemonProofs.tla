----------------------- MODULE OrientationDaemonProofs -----------------------
(***************************************************************************)
(* Safety of the gate between the poller and the sampling thread, for any  *)
(* sensors and any bounds.  NoLostActivation is inductive with the types:  *)
(* what makes it so is the order of the two statements of a command.  The  *)
(* types need that only the poller reads what its poll found.              *)
(***************************************************************************)
EXTENDS OrientationDaemon, SequenceTheorems, TLAPS

\* A sensor of the running round has a sample to read.
ReadySensors == \A d \in ready : d # Input => d \in Sensors /\ unread[d] > 0

IInv == TypeOK /\ NoLostActivation /\ ReadySensors

LEMMA SampleType == Len(Sample) = 4 /\ \A i \in 1 .. 4 : Sample[i] \in Events
BY DEF Sample, Events

LEMMA QueueType ==
    ASSUME NEW q \in Seq(Events)
    PROVE  /\ \A ev \in Events : Append(q, ev) \in Seq(Events)
           /\ q # <<>> => Head(q) \in Events /\ Tail(q) \in Seq(Events)
<1>1. \A ev \in Events : Append(q, ev) \in Seq(Events)
    BY AppendProperties
<1>2. q # <<>> => Head(q) \in Events /\ Tail(q) \in Seq(Events)
    BY HeadTailProperties
<1>3. QED BY <1>1, <1>2

LEMMA InitIInv == Init => IInv
<1> SUFFICES ASSUME Init PROVE IInv
    OBVIOUS
<1>1. activated = FALSE /\ gate = TRUE /\ queue = <<>> /\ queue \in Seq(Events)
    BY DEF Init
<1>2. event \in Commands /\ commanded \in Commands
    BY DEF Init, Commands
<1>3. ready = {} /\ unread \in [Sensors -> 0 .. MaxUnread]
    BY BoundsAssumption DEF Init
<1>4. poller = "poll" /\ thread = "lock" /\ written \in 0 .. 3
    BY DEF Init
<1>5. TypeOK
    BY <1>1, <1>2, <1>3, <1>4 DEF TypeOK
<1>6. QED BY <1>1, <1>3, <1>5 DEF IInv, NoLostActivation, ReadySensors

\* The environment touches neither the flag nor the gate.
LEMMA EnvironmentKeeps ==
    ASSUME IInv, (\E c \in Commands : Command(c)) \/ (\E d \in Sensors : Report(d))
    PROVE  IInv'
<1>1. ASSUME NEW c \in Commands, Command(c) PROVE IInv'
    <2>1. queue' \in Seq(Events)
        BY <1>1, QueueType DEF Command, IInv, TypeOK, Events
    <2>2. QED BY <1>1, <2>1 DEF Command, poller_vars, thread_vars, IInv, TypeOK, NoLostActivation, ReadySensors
<1>2. ASSUME NEW d \in Sensors, Report(d) PROVE IInv'
    <2>1. unread' \in [Sensors -> 0 .. MaxUnread]
        BY <1>2, BoundsAssumption DEF Report, IInv, TypeOK
    <2>2. \A s \in Sensors : unread[s] > 0 => unread'[s] > 0
        BY <1>2, BoundsAssumption DEF Report, IInv, TypeOK
    <2>3. ReadySensors'
        BY <1>2, <2>2 DEF Report, poller_vars, IInv, ReadySensors
    <2>4. QED BY <1>2, <2>1, <2>3 DEF Report, poller_vars, thread_vars, IInv, TypeOK, NoLostActivation
<1>3. QED BY <1>1, <1>2

\* The steps of the poller between two commands.
LEMMA RoundKeeps ==
    ASSUME IInv,
           \/ Poll \/ PollFails \/ HandleInput \/ EndRound
           \/ \E d \in Sensors : ReadSensor(d)
    PROVE  IInv'
<1>1. CASE Poll
    BY <1>1 DEF Poll, Readable, Polled, thread_vars, IInv, TypeOK, NoLostActivation, ReadySensors
<1>2. CASE PollFails
    BY <1>2 DEF PollFails, thread_vars, IInv, TypeOK, NoLostActivation, ReadySensors
<1>3. CASE HandleInput
    BY <1>3 DEF HandleInput, thread_vars, IInv, TypeOK, NoLostActivation, ReadySensors
<1>4. CASE EndRound
    BY <1>4 DEF EndRound, thread_vars, IInv, TypeOK, NoLostActivation, ReadySensors
<1>5. ASSUME NEW d \in Sensors, ReadSensor(d) PROVE IInv'
    <2>1. unread[d] > 0
        BY <1>5, DevicesAssumption DEF ReadSensor, IInv, ReadySensors
    <2>2. unread' \in [Sensors -> 0 .. MaxUnread]
        BY <1>5, <2>1, BoundsAssumption DEF ReadSensor, IInv, TypeOK
    <2>3. ReadySensors'
        BY <1>5 DEF ReadSensor, IInv, TypeOK, ReadySensors
    <2>4. QED BY <1>5, <2>2, <2>3 DEF ReadSensor, thread_vars, IInv, TypeOK, NoLostActivation
<1>6. QED BY <1>1, <1>2, <1>3, <1>4, <1>5

\* A command sets the flag only while the poller is about to unlock the gate.
LEMMA ReadInputKeeps == ASSUME IInv, ReadInput PROVE IInv'
<1>1. /\ UNCHANGED <<ready, thread, written, unread, commanded>> /\ poller = "input"
      /\ queue' = IF queue = <<>> THEN queue ELSE Tail(queue)
    BY DEF ReadInput, thread_vars
<1>2. queue' \in Seq(Events)
    BY <1>1, QueueType DEF IInv, TypeOK
<1>3. CASE queue # <<>> /\ Head(queue) \in Commands
    <2>1. /\ event' \in Commands /\ poller' = "unlock"
          /\ activated' = (Head(queue) = "ON") /\ gate' = gate
        BY <1>3 DEF ReadInput, Statement
    <2>2. activated' \in BOOLEAN
        BY <2>1
    <2>3. QED BY <1>1, <1>2, <2>1, <2>2 DEF IInv, TypeOK, NoLostActivation, ReadySensors
<1>4. CASE ~(queue # <<>> /\ Head(queue) \in Commands)
    <2>1. poller' \in {"round", "input"} /\ UNCHANGED <<activated, gate, event>>
        BY <1>4 DEF ReadInput
    <2>2. QED BY <1>1, <1>2, <2>1 DEF IInv, TypeOK, NoLostActivation, ReadySensors
<1>5. QED BY <1>3, <1>4

LEMMA UnlockGateKeeps == ASSUME IInv, UnlockGate PROVE IInv'
<1>1. /\ UNCHANGED <<activated, ready, event, thread, written, queue, unread, commanded>>
      /\ gate' = FALSE /\ poller' = "input"
    BY DEF UnlockGate, Statement, thread_vars
<1>2. QED BY <1>1 DEF IInv, TypeOK, NoLostActivation, ReadySensors

\* The thread goes to the gate only on seeing the flag clear.
LEMMA ThreadKeeps == ASSUME IInv, Thread PROVE IInv'
<1>1. CASE LockGate
    BY <1>1 DEF LockGate, PassGate, poller_vars, IInv, TypeOK, NoLostActivation, ReadySensors
<1>2. CASE TestActivated
    BY <1>2 DEF TestActivated, poller_vars, IInv, TypeOK, NoLostActivation, ReadySensors
<1>3. CASE Write
    <2>1. /\ UNCHANGED <<activated, gate, poller, ready, event, unread, commanded>>
          /\ thread' \in {"write", "sleep"} /\ written' \in 0 .. 3
        BY <1>3, SampleType DEF Write, poller_vars, IInv, TypeOK
    <2>2. queue' \in Seq(Events)
        <3>1. Sample[written + 1] \in Events
            BY SampleType DEF IInv, TypeOK
        <3>2. QED BY <1>3, <3>1, QueueType DEF Write, IInv, TypeOK
    <2>3. QED BY <2>1, <2>2 DEF IInv, TypeOK, NoLostActivation, ReadySensors
<1>4. CASE Sleep
    BY <1>4 DEF Sleep, poller_vars, IInv, TypeOK, NoLostActivation, ReadySensors
<1>5. QED BY <1>1, <1>2, <1>3, <1>4 DEF Thread

LEMMA SpecIInv == Spec => []IInv
<1>1. IInv /\ [Next]_vars => IInv'
    <2> SUFFICES ASSUME IInv, [Next]_vars PROVE IInv'
        OBVIOUS
    <2>1. CASE UNCHANGED vars
        BY <2>1 DEF vars, poller_vars, thread_vars, IInv, TypeOK, NoLostActivation, ReadySensors
    <2>2. QED BY <2>1, EnvironmentKeeps, RoundKeeps, ReadInputKeeps, UnlockGateKeeps,
             ThreadKeeps DEF Next, Poller
<1>2. QED BY <1>1, InitIInv, PTL DEF Spec

-----------------------------------------------------------------------------
(* The theorems.                                                           *)

\* The daemon's state keeps its type, for any sensors and bounds.
THEOREM TypeCorrect == Spec => []TypeOK
<1>1. IInv => TypeOK
    BY DEF IInv
<1>2. QED BY <1>1, SpecIInv, PTL

\* The thread never sleeps through an activation.
THEOREM ActivationIsSeen == Spec => []NoLostActivation
<1>1. IInv => NoLostActivation
    BY DEF IInv
<1>2. QED BY <1>1, SpecIInv, PTL
=============================================================================
