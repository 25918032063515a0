----------------------------- MODULE SensorsHal -----------------------------
(***************************************************************************)
(* The sensors HAL, libsensors/sensors.cpp with the drivers' enable and    *)
(* readEvents: one thread of the framework activates sensors while another *)
(* sits in pollEvents, and the two share the drivers and the wake pipe.    *)
(*                                                                         *)
(* Abstracted: an event is a complete sample, the EV_SYN that makes        *)
(* readEvents deliver one; the values before it are data.  The ring of a   *)
(* driver is a queue (module EventRing), of which only the length matters. *)
(* setDelay writes one file of the driver and is left out.                 *)
(***************************************************************************)
EXTENDS Integers, Sequences, FiniteSetsExt

CONSTANTS Handles,     \* the sensors the framework activates
          Reporting,   \* the sensors whose device reports samples
          Count,       \* the room in the caller's buffer
          RingSize,    \* 4: the size of each driver's reader
          QueueBound,  \* bound: samples waiting in a device
          PipeSize,    \* bytes the wake pipe holds
          Errno        \* the error a read returns, negated

\* The scan order of pollEvents, the enumeration of the drivers.
Scan == <<"light", "orientation", "magnetic", "acceleration", "proximity">>
Drivers == {"light", "orientation", "magnetic", "acceleration", "proximity"}

ASSUME SetAssumption == Handles \subseteq Drivers /\ Reporting \subseteq Drivers
ASSUME BoundAssumption ==
    {Count, RingSize, QueueBound, PipeSize, Errno} \subseteq Nat \ {0}

VARIABLES
    hasProximity, stray,  \* stray: without proximity its poll entry is never
                          \* written; whether what it holds looks ready
    enabled, pending,     \* mEnabled; mHasPendingEvent of the proximity sensor
    queue, ring, revents, \* device, mInputReader, POLLIN of each driver
    pipe,                 \* wake bytes in the pipe
    oriActive, accActive, magActive,
    apc, todo, enable,    \* the activate call: step, drivers to switch, value
    ppc, i, count, nb,    \* the pollEvents call: step and local variables
    touched, enableFailed, \* history: drivers ever switched, a failed switch
    readFailed,           \* history: a read failed in this pollEvents
    filled                \* history: a buffer was filled, and no poll since

hardware == <<hasProximity, stray>>
active == <<oriActive, accActive, magActive>>
activation == <<apc, todo, enable>>
polling == <<ppc, i, count, nb>>
history == <<touched, enableFailed, readFailed, filled>>
vars == <<hardware, enabled, pending, queue, ring, revents, pipe, active,
          activation, polling, history>>

Present(d) == d # "proximity" \/ hasProximity

\* The constructors: every driver switches its sensor on, and the proximity
\* sensor's initial state is to be reported.
Init ==
    /\ hasProximity \in BOOLEAN
    /\ stray \in (IF hasProximity THEN {FALSE} ELSE BOOLEAN)
    /\ enabled = [d \in Drivers |-> Present(d)]
    /\ pending = hasProximity
    /\ queue = [d \in Drivers |-> 0] /\ ring = [d \in Drivers |-> 0]
    /\ revents = [d \in Drivers |-> FALSE]
    /\ pipe = 0
    /\ oriActive = FALSE /\ accActive = FALSE /\ magActive = FALSE
    /\ apc = "idle" /\ todo = <<>> /\ enable = FALSE
    /\ ppc = "out" /\ i = 1 /\ count = Count /\ nb = 0
    /\ touched = {} /\ enableFailed = FALSE /\ readFailed = FALSE
    /\ filled = FALSE

\* External: a sensor that is on reports a sample.
Report(d) ==
    /\ enabled[d] /\ queue[d] < QueueBound
    /\ queue' = [queue EXCEPT ![d] = @ + 1]
    /\ UNCHANGED <<hardware, enabled, pending, ring, revents, pipe, active,
                   activation, polling, history>>

----------------------------------------------------------------------------
(* activate and real_activate.                                              *)

\* Mutant of the next definition: the orientation sensor switches the other
\* two off although the framework uses them.
BugDependenciesAlways(h) ==
    IF h = "orientation" THEN <<"acceleration", "magnetic", h>>
    ELSE IF h \in {"acceleration", "magnetic"} /\ oriActive THEN <<>>
    ELSE <<h>>

\* Mutant of the next definition: no early return while the orientation
\* sensor is active.
BugNoEarlyReturn(h) ==
    IF h = "orientation"
      THEN (IF accActive THEN <<>> ELSE <<"acceleration">>)
           \o (IF magActive THEN <<>> ELSE <<"magnetic">>) \o <<h>>
      ELSE <<h>>

\* The drivers a call switches.  "Orientation requires accelerometer and
\* magnetic sensor": it takes them along unless the framework uses them, and
\* they are left alone while it is active.
Switched(h) ==
    IF h = "orientation"
      THEN (IF accActive THEN <<>> ELSE <<"acceleration">>)
           \o (IF magActive THEN <<>> ELSE <<"magnetic">>) \o <<h>>
      ELSE IF h \in {"acceleration", "magnetic"} /\ oriActive THEN <<>>
      ELSE <<h>>

Activate(h, on) ==
    /\ apc = "idle" /\ Present(h)
    /\ todo' = Switched(h) /\ enable' = on
    /\ apc' = IF todo' = <<>> THEN "idle" ELSE "enable"
    /\ oriActive' = IF h = "orientation" THEN on ELSE oriActive
    /\ accActive' = IF h = "acceleration" THEN on ELSE accActive
    /\ magActive' = IF h = "magnetic" THEN on ELSE magActive
    /\ UNCHANGED <<hardware, enabled, pending, queue, ring, revents, pipe,
                   polling, history>>

\* The driver's enable; the proximity sensor then looks at its state.
Enable ==
    /\ apc = "enable"
    /\ enabled' = [enabled EXCEPT ![Head(todo)] = enable]
    /\ apc' = IF Head(todo) = "proximity" /\ enabled' # enabled
              THEN "initialState" ELSE "wake"
    /\ touched' = touched \cup {Head(todo)}
    /\ UNCHANGED <<hardware, pending, queue, ring, revents, pipe, active,
                   todo, enable, polling, enableFailed, readFailed, filled>>

\* Its sysfs file cannot be opened: activate returns at once.
EnableFails ==
    /\ apc = "enable" /\ enabled[Head(todo)] # enable
    /\ apc' = "idle" /\ todo' = <<>>
    /\ enableFailed' = TRUE
    /\ UNCHANGED <<hardware, enabled, pending, queue, ring, revents, pipe,
                   active, enable, polling, touched, readFailed, filled>>

\* setInitialState; nothing is reported if the ioctl fails.
SetInitialState ==
    /\ apc = "initialState" /\ apc' = "wake"
    /\ pending' \in {pending, TRUE}
    /\ UNCHANGED <<hardware, enabled, queue, ring, revents, pipe, active,
                   todo, enable, polling, history>>

\* Mutant of the next definition: only switching on wakes the poller.
BugWakeIfOn == pipe' = IF enable /\ pipe < PipeSize THEN pipe + 1 ELSE pipe

\* The write end does not block: a full pipe drops the byte.
WriteWake == pipe' = IF pipe < PipeSize THEN pipe + 1 ELSE pipe

Wake ==
    /\ apc = "wake"
    /\ WriteWake
    /\ todo' = Tail(todo)
    /\ apc' = IF todo' = <<>> THEN "idle" ELSE "enable"
    /\ UNCHANGED <<hardware, enabled, pending, queue, ring, revents, active,
                   enable, polling, history>>

----------------------------------------------------------------------------
(* pollEvents.                                                              *)

PollEvents ==
    /\ ppc = "out" /\ ppc' = "scan"
    /\ i' = 1 /\ count' = Count /\ nb' = 0
    /\ readFailed' = FALSE
    /\ UNCHANGED <<hardware, enabled, pending, queue, ring, revents, pipe,
                   active, activation, touched, enableFailed, filled>>

HasPending(d) == d = "proximity" /\ pending

\* One driver of the scan; after the last one, or without room, poll or
\* return.
ScanNext ==
    /\ ppc = "scan"
    /\ IF i <= Len(Scan) /\ count # 0
         THEN IF Present(Scan[i]) /\ (revents[Scan[i]] \/ HasPending(Scan[i]))
                THEN ppc' = "read" /\ i' = i
                ELSE i' = i + 1 /\ ppc' = ppc
         ELSE ppc' = (IF count # 0 THEN "poll" ELSE "out") /\ i' = 1
    /\ UNCHANGED <<hardware, enabled, pending, queue, ring, revents, pipe,
                   active, activation, count, nb, history>>

\* What pollEvents does with the result n of readEvents.
Took(n) ==
    /\ revents' = [revents EXCEPT ![Scan[i]] = @ /\ n >= count]
    /\ count' = count - n /\ nb' = nb + n
    /\ i' = i + 1 /\ ppc' = "scan"
    /\ filled' = (filled \/ count' = 0)

\* readEvents with mHasPendingEvent: one event, if the sensor is on.
ReadPending ==
    /\ ppc = "read" /\ HasPending(Scan[i])
    /\ pending' = FALSE
    /\ Took(IF enabled[Scan[i]] THEN 1 ELSE 0)
    /\ UNCHANGED <<hardware, enabled, queue, ring, pipe, active, activation,
                   touched, enableFailed, readFailed>>

\* Otherwise it goes on to fill, whatever becomes of the flag meanwhile.
EnterFill ==
    /\ ppc = "read" /\ ~HasPending(Scan[i])
    /\ ppc' = "fill"
    /\ UNCHANGED <<hardware, enabled, pending, queue, ring, revents, pipe,
                   active, activation, i, count, nb, history>>

\* Mutant of the next definition: fill reads a whole ring.
BugFillWholeRing(d) == Min({RingSize, queue[d]})

\* The samples fill reads from the device into the free part of the ring.
Filled(d) == Min({RingSize - ring[d], queue[d]})

\* Mutant of the next definition: the room left is not looked at.
BugDrainAll(d) == IF enabled[d] THEN ring[d] + Filled(d) ELSE 0

\* The samples readEvents delivers; those of a sensor that is off are dropped.
Delivered(d) == IF enabled[d] THEN Min({ring[d] + Filled(d), count}) ELSE 0

\* The devices are opened to block: fill returns only when one has a sample,
\* or when its ring is full.
MustBlock(d) == ring[d] < RingSize /\ queue[d] = 0

ReadEvents ==
    LET d == Scan[i] IN
    /\ ppc = "fill" /\ ~MustBlock(d)
    /\ queue' = [queue EXCEPT ![d] = @ - Filled(d)]
    /\ ring' = [ring EXCEPT ![d] = IF enabled[d]
                                   THEN @ + Filled(d) - Delivered(d) ELSE 0]
    /\ Took(Delivered(d))
    /\ UNCHANGED <<hardware, enabled, pending, pipe, active, activation,
                   touched, enableFailed, readFailed>>

\* fill's read fails and the negated error counts as a number of events.
\* Bound: once in a pollEvents.
ReadFails ==
    /\ ppc = "fill" /\ ring[Scan[i]] < RingSize
    /\ ~readFailed /\ readFailed' = TRUE
    /\ Took(-Errno)
    /\ UNCHANGED <<hardware, enabled, pending, queue, ring, pipe, active,
                   activation, touched, enableFailed>>

AnyReady == pipe > 0 \/ stray \/ \E d \in Drivers : queue[d] > 0

\* poll(2), for ever unless some events are there, and one wake byte.
Poll ==
    /\ ppc = "poll" /\ (nb # 0 \/ AnyReady)
    /\ revents' = [d \in Drivers |-> queue[d] > 0]
    /\ pipe' = IF pipe > 0 THEN pipe - 1 ELSE pipe
    /\ ppc' = IF AnyReady THEN "scan" ELSE "out"
    /\ filled' = FALSE
    /\ UNCHANGED <<hardware, enabled, pending, queue, ring, active,
                   activation, i, count, nb, touched, enableFailed, readFailed>>

PollFails ==
    /\ ppc = "poll" /\ ppc' = "out"
    /\ UNCHANGED <<hardware, enabled, pending, queue, ring, revents, pipe,
                   active, activation, i, count, nb, history>>

Next ==
    \/ \E d \in Reporting : Report(d)
    \/ \E h \in Handles, on \in BOOLEAN : Activate(h, on)
    \/ Enable \/ EnableFails \/ SetInitialState \/ Wake
    \/ PollEvents \/ ScanNext \/ ReadPending \/ EnterFill \/ ReadEvents \/ ReadFails
    \/ Poll \/ PollFails

Spec == Init /\ [][Next]_vars

----------------------------------------------------------------------------

TypeOK ==
    /\ hasProximity \in BOOLEAN /\ stray \in BOOLEAN
    /\ enabled \in [Drivers -> BOOLEAN] /\ pending \in BOOLEAN
    /\ queue \in [Drivers -> 0 .. QueueBound]
    /\ ring \in [Drivers -> 0 .. RingSize]
    /\ revents \in [Drivers -> BOOLEAN]
    /\ pipe \in 0 .. PipeSize
    /\ oriActive \in BOOLEAN /\ accActive \in BOOLEAN /\ magActive \in BOOLEAN
    /\ apc \in {"idle", "enable", "initialState", "wake"}
    /\ todo \in Seq(Drivers) /\ enable \in BOOLEAN
    /\ ppc \in {"out", "scan", "read", "fill", "poll"}
    /\ i \in 1 .. Len(Scan) + 1 /\ count \in Int /\ nb \in Int
    /\ touched \subseteq Drivers
    /\ enableFailed \in BOOLEAN /\ readFailed \in BOOLEAN
    /\ filled \in BOOLEAN

\* The poller sleeps in poll(2), or in the blocking read of a driver.
Asleep ==
    \/ ppc = "poll" /\ nb = 0 /\ ~AnyReady
    \/ ppc = "fill" /\ MustBlock(Scan[i])

\* The poller sleeps on an initial state to be reported only until the wake
\* byte under way arrives, with one exception: after a buffer was filled, and
\* until the next poll, revents outlive the samples they stand for, and the
\* read they lead to may sleep on it until its own device reports.
PendingWakes ==
    (Asleep /\ pending) => apc = "wake" \/ (ppc = "fill" /\ filled)

\* Between two activate calls, as long as no switch has failed, the
\* accelerometer and the magnetometer are on exactly when the framework or
\* the orientation sensor uses them, whatever the order of the calls (until
\* its first switch a sensor stays on, as its constructor left it).
Wanted(d) == oriActive \/ IF d = "acceleration" THEN accActive ELSE magActive
SharedPower ==
    (apc = "idle" /\ ~enableFailed) =>
        \A d \in {"acceleration", "magnetic"} :
            /\ Wanted(d) => enabled[d]
            /\ (~Wanted(d) /\ d \in touched) => ~enabled[d]

\* While the orientation sensor stays active, neither of the sensors it is
\* computed from is switched off, not even when the framework stops using it
\* or a switch fails.
FusionNotInterrupted ==
    [][(oriActive /\ oriActive') =>
          \A d \in {"acceleration", "magnetic"} : enabled[d] => enabled'[d]]_vars

\* pollEvents stays in the caller's buffer at every round, until a read
\* fails; even then what it has written and the room left add up.
FitsBuffer ==
    /\ nb + count = Count
    /\ ~readFailed => nb \in 0 .. Count

\* "see if we have some leftover from the last poll()": no sample read from
\* a device is held back while the poller sleeps, in poll or in a read.
NoEventHeldBack == Asleep => \A d \in Drivers : ring[d] = 0
=============================================================================
