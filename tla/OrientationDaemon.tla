-------------------------- MODULE OrientationDaemon --------------------------
(***************************************************************************)
(* libsensors/orientationd: a poller, the main thread, which reads the     *)
(* commands of the sensors HAL and the samples of the two sensors, and a   *)
(* sampling thread, which writes the orientation it computes back to the   *)
(* orientation device.                                                     *)
(*                                                                         *)
(* A mutex is their gate: main locks it once, before it starts the thread; *)
(* after that only the thread locks it, and only the poller unlocks it.    *)
(* It keeps no owner (a normal mutex of bionic), so it is one bit.  All    *)
(* else is shared without a lock.                                          *)
(*                                                                         *)
(* The device delivers to the daemon the commands and the daemon's own     *)
(* events alike.  Angles, delays and the time of a sleep are left out.     *)
(***************************************************************************)
EXTENDS Naturals, Sequences, FiniteSets

CONSTANTS
    Sensors,        \* the sensors whose device could be opened
    Input,          \* the orientation device
    MaxCommands,    \* bound: commands the HAL sends ahead of the daemon
    MaxSamples,     \* bound: samples the thread writes ahead of the poller
    MaxUnread       \* samples a sensor's device keeps

ASSUME DevicesAssumption == Input \notin Sensors
ASSUME BoundsAssumption == {MaxCommands, MaxSamples, MaxUnread} \subseteq Nat \ {0}

VARIABLES
    activated, gate,    \* data->activated; whether data->mutex is locked
    event,              \* the command the poller is working on
    poller,             \* "poll", "round", "input", "unlock", "dead"
    ready,              \* devices of the running round not handled yet
    thread,             \* "lock", "test", "write", "sleep"
    written,            \* events of the sample written so far
    queue,              \* unread events of the orientation device
    unread,             \* samples of each sensor not read yet
    commanded           \* the last command of the HAL

poller_vars == <<poller, ready, event>>
thread_vars == <<thread, written>>
vars == <<activated, gate, poller_vars, thread_vars, queue, unread, commanded>>

-----------------------------------------------------------------------------
Commands == {"ON", "OFF"}               \* ABS_THROTTLE, bit 16 of its value
Events   == Commands \cup {"ABS", "SYN"}
Sample   == <<"ABS", "ABS", "ABS", "SYN">>

Unread(E) == Cardinality({i \in 1 .. Len(queue) : queue[i] \in E})

Init ==
    /\ activated = FALSE /\ gate = TRUE
    /\ poller = "poll" /\ ready = {} /\ event = "OFF"
    /\ thread = "lock" /\ written = 0
    /\ queue = <<>> /\ unread = [d \in Sensors |-> 0] /\ commanded = "OFF"

-----------------------------------------------------------------------------
(* The environment: OrientationSensor of the HAL, and the sensors.         *)

\* enable and setDelay make the driver report whether the sensor is on.
Command(c) ==
    /\ Unread(Commands) < MaxCommands
    /\ queue' = Append(queue, c)
    /\ commanded' = c
    /\ UNCHANGED <<activated, gate, poller_vars, thread_vars, unread>>

\* A device that is full drops a sample.
Report(d) ==
    /\ unread' = [unread EXCEPT ![d] = IF @ < MaxUnread THEN @ + 1 ELSE @]
    /\ UNCHANGED <<activated, gate, poller_vars, thread_vars, queue, commanded>>

-----------------------------------------------------------------------------
(* The poller, orientationd_poll.                                          *)

\* Mutant of the next definition: an active daemon no longer listens to the HAL.
BugPolled == IF activated THEN Sensors ELSE {Input}

\* While inactive only the first entry of poll_fds is polled.
Polled == IF activated THEN {Input} \cup Sensors ELSE {Input}

Readable == {d \in Polled : IF d = Input THEN queue # <<>> ELSE unread[d] > 0}

Poll ==
    /\ poller = "poll" /\ Readable # {}
    /\ ready' = Readable
    /\ poller' = "round"
    /\ UNCHANGED <<activated, gate, event, thread_vars, queue, unread, commanded>>

\* Any error of poll, a signal included, ends the loop: main then sleeps for
\* good, and the thread goes on as it is.
PollFails ==
    /\ poller = "poll"
    /\ poller' = "dead"
    /\ UNCHANGED <<activated, gate, ready, event, thread_vars, queue, unread, commanded>>

\* The orientation device is the first entry.
HandleInput ==
    /\ poller = "round" /\ Input \in ready
    /\ ready' = ready \ {Input}
    /\ poller' = "input"
    /\ UNCHANGED <<activated, gate, event, thread_vars, queue, unread, commanded>>

\* Mutant of the next definition: the gate opens before the flag is set.
BugStatement(k, c) ==
    IF k = 1 THEN gate' = FALSE /\ UNCHANGED activated
             ELSE activated' = (c = "ON") /\ UNCHANGED gate

\* What a command does, in this order: set the flag, unlock the gate, which
\* may be open already.
Statement(k, c) ==
    IF k = 1 THEN activated' = (c = "ON") /\ UNCHANGED gate
             ELSE gate' = FALSE /\ UNCHANGED activated

\* One round of orientation_get_data, which ends at a SYN or with nothing to
\* read.  A command stops half way.
ReadInput ==
    /\ poller = "input"
    /\ IF queue # <<>> /\ Head(queue) \in Commands
       THEN /\ event' = Head(queue)
            /\ Statement(1, Head(queue))
            /\ poller' = "unlock"
       ELSE /\ poller' = IF queue = <<>> \/ Head(queue) = "SYN" THEN "round" ELSE "input"
            /\ UNCHANGED <<activated, gate, event>>
    /\ queue' = IF queue = <<>> THEN queue ELSE Tail(queue)
    /\ UNCHANGED <<ready, thread_vars, unread, commanded>>

UnlockGate ==
    /\ poller = "unlock"
    /\ Statement(2, event)
    /\ poller' = "input"
    /\ UNCHANGED <<ready, event, thread_vars, queue, unread, commanded>>

\* get_data of a sensor reads one sample, up to its SYN; those behind it make
\* the device ready again in the next round.
ReadSensor(d) ==
    /\ poller = "round" /\ Input \notin ready /\ d \in ready
    /\ ready' = ready \ {d}
    /\ unread' = [unread EXCEPT ![d] = @ - 1]
    /\ UNCHANGED <<activated, gate, poller, event, thread_vars, queue, commanded>>

EndRound ==
    /\ poller = "round" /\ ready = {}
    /\ poller' = "poll"
    /\ UNCHANGED <<activated, gate, ready, event, thread_vars, queue, unread, commanded>>

Poller ==
    \/ Poll \/ HandleInput \/ ReadInput \/ UnlockGate \/ EndRound
    \/ \E d \in Sensors : ReadSensor(d)

-----------------------------------------------------------------------------
(* The sampling thread, orientationd_thread.  thread_continue stays 1.     *)

\* Mutant of the next definition: the gate stays open behind the thread.
BugPassGate == UNCHANGED gate

\* The lock, which the thread never gives back itself.
PassGate == gate' = TRUE

LockGate ==
    /\ thread = "lock" /\ ~gate
    /\ PassGate
    /\ thread' = "test"
    /\ UNCHANGED <<activated, poller_vars, written, queue, unread, commanded>>

TestActivated ==
    /\ thread = "test"
    /\ thread' = IF activated THEN "write" ELSE "lock"
    /\ UNCHANGED <<activated, gate, poller_vars, written, queue, unread, commanded>>

\* One write of a sample.  Without a poller nobody sees the event here.
Write ==
    /\ thread = "write"
    /\ written > 0 \/ poller = "dead" \/ Unread({"SYN"}) < MaxSamples
    /\ queue' = IF poller = "dead" THEN queue ELSE Append(queue, Sample[written + 1])
    /\ IF written + 1 < Len(Sample)
       THEN written' = written + 1 /\ UNCHANGED thread
       ELSE written' = 0 /\ thread' = "sleep"
    /\ UNCHANGED <<activated, gate, poller_vars, unread, commanded>>

\* The rest of the delay has passed, which may be no time at all.
Sleep ==
    /\ thread = "sleep"
    /\ thread' = "test"
    /\ UNCHANGED <<activated, gate, poller_vars, written, queue, unread, commanded>>

Thread == LockGate \/ TestActivated \/ Write \/ Sleep

Next ==
    \/ \E c \in Commands : Command(c)
    \/ \E d \in Sensors : Report(d)
    \/ Poller \/ PollFails
    \/ Thread

\* Both threads are scheduled; the gate has one waiter, so it is not taken
\* from it; poll need not fail.
Spec == Init /\ [][Next]_vars /\ WF_vars(Poller) /\ WF_vars(Thread)

-----------------------------------------------------------------------------
TypeOK ==
    /\ activated \in BOOLEAN /\ gate \in BOOLEAN
    /\ poller \in {"poll", "round", "input", "unlock", "dead"}
    /\ ready \subseteq Sensors \cup {Input} /\ unread \in [Sensors -> 0 .. MaxUnread]
    /\ thread \in {"lock", "test", "write", "sleep"} /\ written \in 0 .. 3
    /\ queue \in Seq(Events)
    /\ event \in Commands /\ commanded \in Commands

\* An activation is never missed by a thread on its way to the gate: if it
\* sleeps there though the sensor is active, the poller is just about to
\* unlock.  The flag is written and read outside of any lock.
NoLostActivation ==
    thread = "lock" /\ gate /\ activated => poller = "unlock"

\* An active daemon samples again and again, however commands repeat and even
\* after its poller has died.
SamplesWhileActive == <>[]activated => []<>(thread = "sleep")

\* An inactive daemon whose commands are read comes to rest behind the closed
\* gate, though every command, one that stops it included, opens the gate.
QuietWhenInactive ==
    <>[](~activated /\ queue = <<>>) => <>[](thread = "lock" /\ gate)

\* While the poller lives, what the HAL last asked for is what the daemon ends
\* up doing, though the commands are mixed with the daemon's own events, and an
\* active daemon reads a sensor again and again for as long as it has samples,
\* however many the other devices have.
PollerKeepsUp ==
    [](poller # "dead") =>
        /\ \A c \in Commands : <>[](commanded = c) => <>[](activated = (c = "ON"))
        /\ <>[]activated =>
              \A d \in Sensors : []<>(unread[d] = 0) \/ []<><<ReadSensor(d)>>_vars
=============================================================================
