-------------------------- MODULE AudioStreamsProofs --------------------------
(***************************************************************************)
(* Proofs about AudioStreams for every set of framework threads.  The      *)
(* inductive invariant says which locks a thread holds at each point of    *)
(* its call, which calls can be at which point, that a close has its       *)
(* stream for itself, and what a set_mode on its way to or back from the   *)
(* capture stream may rely on while it holds the device's lock.            *)
(***************************************************************************)
EXTENDS AudioStreams, TLAPS

HoldsDevice(t)    == at[t] \in {"want_stream", "both", "unlock"}
HoldsStream(t, s) == at[t] \in {"both", "io", "fail"} /\ StreamOf(call[t]) = s

LocksHeld ==
    \A t \in Threads :
        /\ lock["adev"] = t <=> HoldsDevice(t)
        /\ \A s \in Streams : lock[s] = t <=> HoldsStream(t, s)

CallsAtPoints ==
    \A t \in Threads :
        /\ at[t] = "idle" <=> call[t] = "none"
        /\ at[t] \in {"io", "fail"} => call[t] \in {"write", "read"}
        /\ at[t] = "free" => call[t] \in CloseCalls
        /\ at[t] \in {"want_stream", "both"} => call[t] # "wb_callback"

\* A stream in use is open, and a close is the only call on its stream.
UsersAgree ==
    \A t \in Threads, s \in Streams : Uses(t, s) =>
        /\ stream[s] # "closed"
        /\ call[t] \in CloseCalls => \A u \in Threads : Uses(u, s) => u = t

\* What the holder of the device's lock relies on.
StreamsFollow ==
    /\ active_input <=> stream["in"] = "running"
    /\ \A t \in Threads :
          /\ call[t] = "set_mode" /\ at[t] \in {"want_stream", "both"} => active_input
          /\ call[t] \in CloseCalls /\ at[t] \in {"unlock", "free"} =>
                stream[StreamOf(call[t])] = "standby"
          /\ at[t] = "unlock" /\ call[t] = "set_mode" /\ mode = "IN_CALL" /\ ~in_call =>
                ~active_input

IInv == TypeOK /\ LocksHeld /\ CallsAtPoints /\ UsersAgree /\ StreamsFollow

-----------------------------------------------------------------------------
LEMMA InitIInv == Init => IInv
<1>. SUFFICES ASSUME Init PROVE IInv
    OBVIOUS
<1>. USE ThreadsAssumption DEF Init
<1>1. TypeOK
    BY DEF TypeOK, Locks, Streams, Points, Calls, Threads
<1>2. LocksHeld
    BY DEF LocksHeld, HoldsDevice, HoldsStream, Locks, Streams, Threads
<1>3. CallsAtPoints
    BY DEF CallsAtPoints, CloseCalls
<1>4. UsersAgree
    BY DEF UsersAgree, Uses, OutCalls, InCalls
<1>5. StreamsFollow
    BY DEF StreamsFollow, CloseCalls, Streams
<1>6. QED BY <1>1, <1>2, <1>3, <1>4, <1>5 DEF IInv

\* Opening a stream.
LEMMA OpenIInv == ASSUME IInv, NEW s \in Streams, Open(s) PROVE IInv'
<1>. USE ThreadsAssumption DEF IInv, Locks, Streams, Calls, OutCalls, InCalls, CloseCalls, StreamOf, Goto, Return, Take, Release, stream_vars, mode_vars
<1>1. TypeOK'
    BY DEF Open, TypeOK, Points
<1>2. LocksHeld'
    BY <1>1 DEF Open, TypeOK, LocksHeld, HoldsDevice, HoldsStream, CallsAtPoints
<1>3. CallsAtPoints'
    BY <1>1 DEF Open, TypeOK, CallsAtPoints
<1>4. UsersAgree'
    BY <1>1 DEF Open, TypeOK, UsersAgree, Uses, StreamsFollow, CallsAtPoints
<1>5. StreamsFollow'
    BY <1>1 DEF Open, TypeOK, StreamsFollow, LocksHeld, HoldsDevice, HoldsStream, UsersAgree, Uses, CallsAtPoints
<1>6. QED BY <1>1, <1>2, <1>3, <1>4, <1>5

\* Beginning a call.
LEMMA BeginIInv == ASSUME IInv, NEW t \in Threads, NEW c \in CallsOf(t), Begin(t, c) PROVE IInv'
<1>. USE ThreadsAssumption DEF IInv, Locks, Streams, Calls, OutCalls, InCalls, CloseCalls, StreamOf, Goto, Return, Take, Release, stream_vars, mode_vars
<1>1. TypeOK'
    BY DEF Begin, TypeOK, Points, CallsOf
<1>2. LocksHeld'
    BY <1>1 DEF Begin, TypeOK, LocksHeld, HoldsDevice, HoldsStream, CallsAtPoints, CallsOf
<1>3. CallsAtPoints'
    BY <1>1 DEF Begin, TypeOK, CallsAtPoints, CallsOf
<1>4. UsersAgree'
    <2>1. call' = [call EXCEPT ![t] = c] /\ UNCHANGED stream /\ c \in Calls
        BY DEF Begin, CallsOf
    <2>2. c \in OutCalls \cup InCalls =>
              /\ stream[StreamOf(c)] # "closed"
              /\ \A u \in Threads :
                    Uses(u, StreamOf(c)) => c \notin CloseCalls /\ call[u] \notin CloseCalls
        BY DEF Begin
    <2>3. QED BY <2>1, <2>2 DEF TypeOK, UsersAgree, Uses
<1>5. StreamsFollow'
    BY <1>1 DEF Begin, TypeOK, StreamsFollow, LocksHeld, HoldsDevice, HoldsStream, UsersAgree, Uses, CallsAtPoints, CallsOf
<1>6. QED BY <1>1, <1>2, <1>3, <1>4, <1>5

\* Locking the device.
LEMMA LockDeviceIInv == ASSUME IInv, NEW t \in Threads, LockDevice(t) PROVE IInv'
<1>. USE ThreadsAssumption DEF IInv, Locks, Streams, Calls, OutCalls, InCalls, CloseCalls, StreamOf, Goto, Return, Take, Release, stream_vars, mode_vars
<1>1. TypeOK'
    BY DEF LockDevice, TypeOK, Points
<1>2. LocksHeld'
    BY <1>1 DEF LockDevice, TypeOK, LocksHeld, HoldsDevice, HoldsStream, CallsAtPoints
<1>3. CallsAtPoints'
    BY <1>1 DEF LockDevice, TypeOK, CallsAtPoints
<1>4. UsersAgree'
    BY <1>1 DEF LockDevice, TypeOK, UsersAgree, Uses, StreamsFollow, CallsAtPoints
<1>5. StreamsFollow'
    BY <1>1 DEF LockDevice, TypeOK, StreamsFollow, LocksHeld, HoldsDevice, HoldsStream, UsersAgree, Uses, CallsAtPoints
<1>6. QED BY <1>1, <1>2, <1>3, <1>4, <1>5

\* Locking the stream.
LEMMA LockStreamIInv == ASSUME IInv, NEW t \in Threads, LockStream(t) PROVE IInv'
<1>. USE ThreadsAssumption DEF IInv, Locks, Streams, Calls, OutCalls, InCalls, CloseCalls, StreamOf, Goto, Return, Take, Release, stream_vars, mode_vars
<1>1. TypeOK'
    BY DEF LockStream, TypeOK, Points
<1>2. LocksHeld'
    BY <1>1 DEF LockStream, TypeOK, LocksHeld, HoldsDevice, HoldsStream, CallsAtPoints
<1>3. CallsAtPoints'
    BY <1>1 DEF LockStream, TypeOK, CallsAtPoints
<1>4. UsersAgree'
    BY <1>1 DEF LockStream, TypeOK, UsersAgree, Uses, StreamsFollow, CallsAtPoints
<1>5. StreamsFollow'
    BY <1>1 DEF LockStream, TypeOK, StreamsFollow, LocksHeld, HoldsDevice, HoldsStream, UsersAgree, Uses, CallsAtPoints
<1>6. QED BY <1>1, <1>2, <1>3, <1>4, <1>5

\* Starting a transfer.
LEMMA StartIInv == ASSUME IInv, NEW t \in Threads, Start(t) PROVE IInv'
<1>. USE ThreadsAssumption DEF IInv, Locks, Streams, Calls, OutCalls, InCalls, CloseCalls, StreamOf, Goto, Return, Take, Release, stream_vars, mode_vars
<1>1. TypeOK'
    BY DEF Start, TypeOK, Points
<1>2. LocksHeld'
    BY <1>1 DEF Start, TypeOK, LocksHeld, HoldsDevice, HoldsStream, CallsAtPoints
<1>3. CallsAtPoints'
    BY <1>1 DEF Start, TypeOK, CallsAtPoints
<1>4. UsersAgree'
    BY <1>1 DEF Start, TypeOK, UsersAgree, Uses, StreamsFollow, CallsAtPoints
<1>5. StreamsFollow'
    BY <1>1 DEF Start, TypeOK, StreamsFollow, LocksHeld, HoldsDevice, HoldsStream, UsersAgree, Uses, CallsAtPoints
<1>6. QED BY <1>1, <1>2, <1>3, <1>4, <1>5

\* Ending a transfer.
LEMMA FinishIInv == ASSUME IInv, NEW t \in Threads, Finish(t) PROVE IInv'
<1>. USE ThreadsAssumption DEF IInv, Locks, Streams, Calls, OutCalls, InCalls, CloseCalls, StreamOf, Goto, Return, Take, Release, stream_vars, mode_vars
<1>1. TypeOK'
    BY DEF Finish, TypeOK, Points
<1>2. LocksHeld'
    BY <1>1 DEF Finish, TypeOK, LocksHeld, HoldsDevice, HoldsStream, CallsAtPoints
<1>3. CallsAtPoints'
    BY <1>1 DEF Finish, TypeOK, CallsAtPoints
<1>4. UsersAgree'
    BY <1>1 DEF Finish, TypeOK, UsersAgree, Uses, StreamsFollow, CallsAtPoints
<1>5. StreamsFollow'
    BY <1>1 DEF Finish, TypeOK, StreamsFollow, LocksHeld, HoldsDevice, HoldsStream, UsersAgree, Uses, CallsAtPoints
<1>6. QED BY <1>1, <1>2, <1>3, <1>4, <1>5

\* Standby stops its stream and touches no other.
LEMMA StandbyEffect ==
    ASSUME TypeOK, active_input <=> stream["in"] = "running",
           NEW s \in Streams, DoStandby(s)
    PROVE  /\ stream' \in [Streams -> {"closed", "standby", "running"}]
           /\ active_input' \in BOOLEAN
           /\ stream'[s] \in {"closed", "standby"}
           /\ \A r \in Streams : /\ r # s => stream'[r] = stream[r]
                                 /\ stream'[r] = "closed" <=> stream[r] = "closed"
           /\ active_input' <=> stream'["in"] = "running"
<1>1. CASE stream[s] = "running"
    BY <1>1 DEF DoStandby, TypeOK, Streams
<1>2. CASE stream[s] # "running"
    BY <1>2 DEF DoStandby, TypeOK, Streams
<1>3. QED BY <1>1, <1>2

\* A control call.
LEMMA ControlIInv == ASSUME IInv, NEW t \in Threads, Control(t) PROVE IInv'
<1>. USE ThreadsAssumption DEF IInv, Locks, Streams, Calls, OutCalls, InCalls, CloseCalls, StreamOf, Goto, Return, Take, Release, stream_vars, mode_vars
<1> DEFINE s == StreamOf(call[t])
<1>a. s \in Streams
    OBVIOUS
<1>b. /\ at[t] = "both" /\ call[t] \notin {"write", "read"}
      /\ lock' = [l \in Locks |-> IF l \in {s} THEN NoThread ELSE lock[l]]
      /\ at' = [at EXCEPT ![t] = "unlock"]
      /\ UNCHANGED <<call, mode, in_call>>
    BY DEF Control
<1>c. /\ stream' \in [Streams -> {"closed", "standby", "running"}]
      /\ active_input' \in BOOLEAN
      /\ \A r \in Streams : /\ r # s => stream'[r] = stream[r]
                            /\ stream'[r] = "closed" <=> stream[r] = "closed"
      /\ active_input' <=> stream'["in"] = "running"
      /\ call[t] \in MustStandby => stream'[s] \in {"closed", "standby"}
    <2>1. CASE DoStandby(s)
        BY <1>a, <2>1, StandbyEffect DEF StreamsFollow
    <2>2. CASE UNCHANGED stream_vars /\ call[t] \notin MustStandby
        BY <1>a, <2>2 DEF TypeOK, StreamsFollow
    <2>3. QED BY <2>1, <2>2 DEF Control
<1>1. TypeOK'
    BY <1>b, <1>c DEF TypeOK, Points
<1>2. LocksHeld'
    BY <1>a, <1>b, <1>c DEF TypeOK, LocksHeld, HoldsDevice, HoldsStream, CallsAtPoints
<1>3. CallsAtPoints'
    BY <1>a, <1>b, <1>c DEF TypeOK, CallsAtPoints
<1>4. UsersAgree'
    BY <1>a, <1>b, <1>c DEF TypeOK, UsersAgree, Uses, StreamsFollow, CallsAtPoints
<1>5. StreamsFollow'
    BY <1>a, <1>b, <1>c DEF TypeOK, StreamsFollow, MustStandby, LocksHeld, HoldsDevice, HoldsStream, UsersAgree, Uses, CallsAtPoints
<1>6. QED BY <1>1, <1>2, <1>3, <1>4, <1>5

\* Setting the mode.
LEMMA SetModeIInv == ASSUME IInv, NEW t \in Threads, SetMode(t) PROVE IInv'
<1>. USE ThreadsAssumption DEF IInv, Locks, Streams, Calls, OutCalls, InCalls, CloseCalls, StreamOf, Goto, Return, Take, Release, stream_vars, mode_vars
<1>1. TypeOK'
    BY DEF SetMode, TypeOK, Points
<1>2. LocksHeld'
    BY <1>1 DEF SetMode, TypeOK, LocksHeld, HoldsDevice, HoldsStream, CallsAtPoints
<1>3. CallsAtPoints'
    BY <1>1 DEF SetMode, TypeOK, CallsAtPoints
<1>4. UsersAgree'
    BY <1>1 DEF SetMode, TypeOK, UsersAgree, Uses, StreamsFollow, CallsAtPoints
<1>5. StreamsFollow'
    BY <1>1 DEF SetMode, TypeOK, StreamsFollow, LocksHeld, HoldsDevice, HoldsStream, UsersAgree, Uses, CallsAtPoints
<1>6. QED BY <1>1, <1>2, <1>3, <1>4, <1>5

\* The wideband callback.
LEMMA WbAmrCallbackIInv == ASSUME IInv, NEW t \in Threads, WbAmrCallback(t) PROVE IInv'
<1>. USE ThreadsAssumption DEF IInv, Locks, Streams, Calls, OutCalls, InCalls, CloseCalls, StreamOf, Goto, Return, Take, Release, stream_vars, mode_vars
<1>1. TypeOK'
    BY DEF WbAmrCallback, TypeOK, Points
<1>2. LocksHeld'
    BY <1>1 DEF WbAmrCallback, TypeOK, LocksHeld, HoldsDevice, HoldsStream, CallsAtPoints
<1>3. CallsAtPoints'
    BY <1>1 DEF WbAmrCallback, TypeOK, CallsAtPoints
<1>4. UsersAgree'
    BY <1>1 DEF WbAmrCallback, TypeOK, UsersAgree, Uses, StreamsFollow, CallsAtPoints
<1>5. StreamsFollow'
    BY <1>1 DEF WbAmrCallback, TypeOK, StreamsFollow, LocksHeld, HoldsDevice, HoldsStream, UsersAgree, Uses, CallsAtPoints
<1>6. QED BY <1>1, <1>2, <1>3, <1>4, <1>5

\* Unlocking the device.
LEMMA UnlockIInv == ASSUME IInv, NEW t \in Threads, Unlock(t) PROVE IInv'
<1>. USE ThreadsAssumption DEF IInv, Locks, Streams, Calls, OutCalls, InCalls, CloseCalls, StreamOf, Goto, Return, Take, Release, stream_vars, mode_vars
<1>1. TypeOK'
    BY DEF Unlock, TypeOK, Points
<1>2. LocksHeld'
    BY <1>1 DEF Unlock, TypeOK, LocksHeld, HoldsDevice, HoldsStream, CallsAtPoints
<1>3. CallsAtPoints'
    BY <1>1 DEF Unlock, TypeOK, CallsAtPoints
<1>4. UsersAgree'
    BY <1>1 DEF Unlock, TypeOK, UsersAgree, Uses, StreamsFollow, CallsAtPoints
<1>5. StreamsFollow'
    BY <1>1 DEF Unlock, TypeOK, StreamsFollow, LocksHeld, HoldsDevice, HoldsStream, UsersAgree, Uses, CallsAtPoints
<1>6. QED BY <1>1, <1>2, <1>3, <1>4, <1>5

\* Freeing a stream.
LEMMA FreeIInv == ASSUME IInv, NEW t \in Threads, Free(t) PROVE IInv'
<1>. USE ThreadsAssumption DEF IInv, Locks, Streams, Calls, OutCalls, InCalls, CloseCalls, StreamOf, Goto, Return, Take, Release, stream_vars, mode_vars
<1>1. TypeOK'
    BY DEF Free, TypeOK, Points
<1>2. LocksHeld'
    BY <1>1 DEF Free, TypeOK, LocksHeld, HoldsDevice, HoldsStream, CallsAtPoints
<1>3. CallsAtPoints'
    BY <1>1 DEF Free, TypeOK, CallsAtPoints
<1>4. UsersAgree'
    BY <1>1 DEF Free, TypeOK, UsersAgree, Uses, StreamsFollow, CallsAtPoints
<1>5. StreamsFollow'
    BY <1>1 DEF Free, TypeOK, StreamsFollow, LocksHeld, HoldsDevice, HoldsStream, UsersAgree, Uses, CallsAtPoints
<1>6. QED BY <1>1, <1>2, <1>3, <1>4, <1>5

-----------------------------------------------------------------------------
LEMMA NextIInv == IInv /\ [Next]_vars => IInv'
<1>. SUFFICES ASSUME IInv, [Next]_vars PROVE IInv'
    OBVIOUS
<1>1. ASSUME NEW s \in Streams, Open(s) PROVE IInv'
    BY <1>1, OpenIInv
<1>2. ASSUME NEW t \in Threads, NEW c \in CallsOf(t), Begin(t, c) PROVE IInv'
    BY <1>2, BeginIInv
<1>3. ASSUME NEW t \in Threads, Step(t) PROVE IInv'
    BY <1>3, LockDeviceIInv, LockStreamIInv, StartIInv, FinishIInv, ControlIInv, SetModeIInv,
       WbAmrCallbackIInv, UnlockIInv, FreeIInv DEF Step
<1>4. CASE UNCHANGED vars
    BY <1>4 DEF vars, stream_vars, mode_vars, IInv, TypeOK, LocksHeld, HoldsDevice, HoldsStream,
       CallsAtPoints, UsersAgree, Uses, StreamsFollow
<1>5. QED BY <1>1, <1>2, <1>3, <1>4 DEF Next

LEMMA SpecIInv == Spec => []IInv
BY InitIInv, NextIInv, PTL DEF Spec

-----------------------------------------------------------------------------
\* The locks have owners among the threads, the streams one of their states.
THEOREM TypeCorrect == Spec => []TypeOK
<1>1. IInv => TypeOK
    BY DEF IInv
<1>2. QED BY <1>1, SpecIInv, PTL

\* Device before stream: a thread that waits for the device's lock holds none,
\* one that waits for a stream's holds the device's, so that the stream's
\* holder is transferring.  Hence no cycle, for any number of threads.
THEOREM DeadlockFree == Spec => []NoCircularWait
<1>1. IInv => NoCircularWait
    <2>. SUFFICES ASSUME IInv, NEW t \in Threads, NEW u \in Threads,
                         WaitsFor(t, u), Blocked(u)
                  PROVE  \E v \in Threads : WaitsFor(u, v) /\ ~Blocked(v)
        BY DEF NoCircularWait
    <2>1. PICK v \in Threads : WaitsFor(u, v)
        BY DEF Blocked
    <2>2. ASSUME NEW x \in Threads, at[x] \in {"io", "fail"} PROVE ~Blocked(x)
        BY <2>2 DEF Blocked, WaitsFor
    <2>3. ASSUME NEW x \in Threads, NEW y \in Threads, at[x] = "want_stream", WaitsFor(x, y)
          PROVE  at[y] \in {"io", "fail"}
        <3>1. lock[StreamOf(call[x])] = y /\ StreamOf(call[x]) \in Streams
            BY <2>3 DEF WaitsFor, StreamOf, Streams
        <3>2. at[y] \in {"both", "io", "fail"}
            BY <3>1 DEF IInv, LocksHeld, HoldsStream
        <3>3. lock["adev"] = x
            BY <2>3 DEF IInv, LocksHeld, HoldsDevice
        <3>4. at[y] # "both"
            BY <2>3, <3>3 DEF IInv, LocksHeld, HoldsDevice
        <3>5. QED BY <3>2, <3>4
    <2>4. CASE at[t] = "want_stream"
        BY <2>2, <2>3, <2>4
    <2>5. CASE at[t] = "want_adev"
        <3>1. at[u] = "want_stream"
            BY <2>1, <2>5 DEF WaitsFor, IInv, LocksHeld, HoldsDevice
        <3>2. QED BY <2>1, <2>2, <2>3, <3>1
    <2>6. QED BY <2>4, <2>5 DEF WaitsFor
<1>2. QED BY <1>1, SpecIInv, PTL

\* Calls from the framework keep their stream open by their use of it; set_mode
\* reaches the capture stream through active_input, which a close has reset.
THEOREM StreamsOutliveUse == Spec => []NoUseAfterFree
<1>1. IInv => NoUseAfterFree
    <2>. SUFFICES ASSUME IInv, NEW t \in Threads,
                         at[t] \in {"want_stream", "both", "io", "fail"}
                  PROVE  stream[StreamOf(call[t])] # "closed"
        BY DEF NoUseAfterFree
    <2>1. CASE call[t] = "set_mode"
        BY <2>1 DEF IInv, StreamsFollow, CallsAtPoints, StreamOf, OutCalls
    <2>2. CASE call[t] # "set_mode"
        <3>1. Uses(t, StreamOf(call[t]))
            BY <2>2 DEF IInv, TypeOK, CallsAtPoints, Calls, Uses, StreamOf, OutCalls, InCalls
        <3>2. QED BY <3>1 DEF IInv, UsersAgree, StreamOf, Streams
    <2>3. QED BY <2>1, <2>2
<1>2. QED BY <1>1, SpecIInv, PTL

\* set_mode holds the device's lock from looking at active_input to the
\* beginning of the call, and a capture needs that lock to start.
THEOREM CallsStartQuiet == Spec => CallStartsQuiet
<1>1. IInv /\ [Next]_vars => (~in_call /\ in_call' => stream'["in"] # "running")
    <2>. SUFFICES ASSUME IInv, [Next]_vars, ~in_call, in_call'
                  PROVE  stream'["in"] # "running"
        OBVIOUS
    <2>1. PICK t \in Threads : Unlock(t)
        BY DEF Next, Step, vars, stream_vars, mode_vars, Open, Begin, LockDevice, LockStream,
           Start, Finish, Control, SetMode, WbAmrCallback, Free
    <2>2. call[t] = "set_mode" /\ mode = "IN_CALL" /\ at[t] = "unlock" /\ UNCHANGED stream
        BY <2>1 DEF Unlock, stream_vars
    <2>3. QED BY <2>2 DEF IInv, StreamsFollow
<1>2. QED BY <1>1, SpecIInv, PTL DEF Spec, CallStartsQuiet

-----------------------------------------------------------------------------
(* Each stream is the abstract one of StreamLife.                          *)

\* A step of StreamLife, or none, seen on stream s.
LifeStep(s) ==
    \/ stream[s] = "closed" /\ stream'[s] = "standby" /\ (Busy(s)' <=> Busy(s))
    \/ ~Busy(s) /\ stream[s] # "closed" /\ stream'[s] = "running" /\ Busy(s)'
    \/ Busy(s) /\ ~Busy(s)' /\ stream'[s] = stream[s]
    \/ ~Busy(s) /\ stream[s] = "running" /\ stream'[s] = "standby" /\ (Busy(s)' <=> Busy(s))
    \/ ~Busy(s) /\ stream[s] = "standby" /\ stream'[s] = "closed" /\ (Busy(s)' <=> Busy(s))
    \/ stream'[s] = stream[s] /\ (Busy(s)' <=> Busy(s))

\* A step in which no thread begins or ends a transfer.
NoIoMoves ==
    \A u \in Threads : at[u] = "io" \/ at'[u] = "io" =>
        at'[u] = at[u] /\ StreamOf(call'[u]) = StreamOf(call[u])

LEMMA BusyStays == ASSUME NoIoMoves, NEW s \in Streams PROVE Busy(s)' <=> Busy(s)
BY DEF NoIoMoves, Busy

\* Whoever holds a stream's lock at another point keeps transfers off it.
LEMMA HolderAlone ==
    ASSUME IInv, NEW t \in Threads, NEW s \in Streams, HoldsStream(t, s), at[t] # "io"
    PROVE  ~Busy(s)
<1>. SUFFICES ASSUME NEW u \in Threads, at[u] = "io", StreamOf(call[u]) = s PROVE FALSE
    BY DEF Busy
<1>1. lock[s] = t /\ lock[s] = u
    BY DEF IInv, LocksHeld, HoldsStream
<1>2. QED BY <1>1

\* The steps that begin and end a transfer, stop and free a stream.
LEMMA StartIsLife ==
    ASSUME IInv, NEW t \in Threads, Start(t), NEW s \in Streams PROVE LifeStep(s)
<1>1. PICK ok \in BOOLEAN :
        /\ stream' = IF ok THEN [stream EXCEPT ![StreamOf(call[t])] = "running"] ELSE stream
        /\ at' = [at EXCEPT ![t] = IF ok THEN "io" ELSE "fail"]
    BY DEF Start, Goto
<1>2. at[t] = "both" /\ call' = call /\ at \in [Threads -> Points]
    BY DEF Start, Goto, IInv, TypeOK
<1>3. CASE ok /\ StreamOf(call[t]) = s
    <2>1. ~Busy(s)
        BY <1>2, <1>3, HolderAlone DEF HoldsStream
    <2>2. Busy(s)'
        BY <1>1, <1>2, <1>3 DEF Busy
    <2>3. stream[s] # "closed"
        BY <1>2, <1>3 DEF Start, IInv, UsersAgree, Uses, StreamOf, OutCalls, InCalls, Streams
    <2>4. stream'[s] = "running"
        BY <1>1, <1>3 DEF IInv, TypeOK
    <2>5. QED BY <2>1, <2>2, <2>3, <2>4 DEF LifeStep
<1>4. CASE ok /\ StreamOf(call[t]) # s
    <2>1. stream'[s] = stream[s]
        BY <1>1, <1>4 DEF IInv, TypeOK
    <2>2. Busy(s)' <=> Busy(s)
        BY <1>1, <1>2, <1>4 DEF Busy
    <2>3. QED BY <2>1, <2>2 DEF LifeStep
<1>5. CASE ~ok
    <2>1. NoIoMoves
        BY <1>1, <1>2, <1>5 DEF NoIoMoves
    <2>2. QED BY <1>1, <1>5, <2>1, BusyStays DEF LifeStep
<1>6. QED BY <1>3, <1>4, <1>5

LEMMA FinishIsLife ==
    ASSUME IInv, NEW t \in Threads, Finish(t), NEW s \in Streams PROVE LifeStep(s)
<1>1. /\ at[t] \in {"io", "fail"} /\ UNCHANGED stream
      /\ at' = [at EXCEPT ![t] = "idle"] /\ call' = [call EXCEPT ![t] = "none"]
      /\ at \in [Threads -> Points] /\ call \in [Threads -> Calls]
    BY DEF Finish, Return, stream_vars, IInv, TypeOK
<1>2. CASE HoldsStream(t, s) /\ at[t] = "io"
    <2>1. ASSUME NEW u \in Threads, at[u] = "io", StreamOf(call[u]) = s PROVE u = t
        BY <1>2, <2>1 DEF HoldsStream, IInv, LocksHeld
    <2>2. Busy(s) /\ ~Busy(s)'
        BY <1>1, <1>2, <2>1 DEF Busy, HoldsStream
    <2>3. QED BY <1>1, <2>2 DEF LifeStep
<1>3. CASE ~(HoldsStream(t, s) /\ at[t] = "io")
    <2>1. Busy(s)' <=> Busy(s)
        BY <1>1, <1>3 DEF Busy, HoldsStream
    <2>2. QED BY <1>1, <2>1 DEF LifeStep
<1>4. QED BY <1>2, <1>3

LEMMA ControlIsLife ==
    ASSUME IInv, NEW t \in Threads, Control(t), NEW s \in Streams PROVE LifeStep(s)
<1> DEFINE r == StreamOf(call[t])
<1>1. at[t] = "both" /\ r \in Streams
    BY DEF Control, StreamOf, Streams
<1>2. Busy(s)' <=> Busy(s)
    <2>1. NoIoMoves
        BY <1>1 DEF Control, Goto, IInv, TypeOK, NoIoMoves
    <2>2. QED BY <2>1, BusyStays
<1>3. ~Busy(r)
    BY <1>1, HolderAlone DEF HoldsStream
<1>4. \/ UNCHANGED stream
      \/ stream[r] = "running" /\ stream' = [stream EXCEPT ![r] = "standby"]
    BY DEF Control, DoStandby, stream_vars
<1>5. CASE r = s
    BY <1>2, <1>3, <1>4, <1>5 DEF LifeStep, IInv, TypeOK
<1>6. CASE r # s
    BY <1>2, <1>4, <1>6 DEF LifeStep, IInv, TypeOK
<1>7. QED BY <1>5, <1>6

LEMMA FreeIsLife ==
    ASSUME IInv, NEW t \in Threads, Free(t), NEW s \in Streams PROVE LifeStep(s)
<1> DEFINE r == StreamOf(call[t])
<1>1. /\ at[t] = "free" /\ call[t] \in CloseCalls /\ r \in Streams
      /\ stream' = [stream EXCEPT ![r] = "closed"] /\ stream \in [Streams -> {"closed", "standby", "running"}]
    BY DEF Free, IInv, TypeOK, CallsAtPoints, StreamOf, Streams
<1>2. Busy(s)' <=> Busy(s)
    <2>1. NoIoMoves
        BY <1>1 DEF Free, Return, IInv, TypeOK, NoIoMoves
    <2>2. QED BY <2>1, BusyStays
<1>3. stream[r] = "standby"
    BY <1>1 DEF IInv, StreamsFollow
<1>4. ~Busy(r)
    <2>. SUFFICES ASSUME NEW u \in Threads, at[u] = "io", StreamOf(call[u]) = r PROVE FALSE
        BY DEF Busy
    <2>1. Uses(t, r) /\ Uses(u, r)
        BY <1>1 DEF Uses, CloseCalls, StreamOf, OutCalls, InCalls, IInv, CallsAtPoints
    <2>2. QED BY <1>1, <2>1 DEF IInv, UsersAgree
<1>5. CASE r = s
    BY <1>1, <1>2, <1>3, <1>4, <1>5 DEF LifeStep
<1>6. CASE r # s
    BY <1>1, <1>2, <1>6 DEF LifeStep
<1>7. QED BY <1>5, <1>6

LEMMA NextIsLife ==
    ASSUME IInv, [Next]_vars, NEW s \in Streams PROVE LifeStep(s)
<1>1. ASSUME NEW r \in Streams, Open(r) PROVE LifeStep(s)
    <2>1. NoIoMoves
        BY <1>1 DEF Open, NoIoMoves
    <2>2. QED BY <1>1, <2>1, BusyStays DEF Open, LifeStep, IInv, TypeOK
<1>2. ASSUME NEW t \in Threads, NEW c \in CallsOf(t), Begin(t, c) PROVE LifeStep(s)
    <2>1. NoIoMoves
        BY <1>2 DEF Begin, NoIoMoves, IInv, TypeOK
    <2>2. QED BY <1>2, <2>1, BusyStays DEF Begin, stream_vars, LifeStep
<1>3. ASSUME NEW t \in Threads,
             LockDevice(t) \/ LockStream(t) \/ SetMode(t) \/ WbAmrCallback(t) \/ Unlock(t)
      PROVE  LifeStep(s)
    <2>1. NoIoMoves
        BY <1>3 DEF LockDevice, LockStream, SetMode, WbAmrCallback, Unlock, Goto, Return,
                    NoIoMoves, IInv, TypeOK
    <2>2. UNCHANGED stream
        BY <1>3 DEF LockDevice, LockStream, SetMode, WbAmrCallback, Unlock, stream_vars
    <2>3. QED BY <2>1, <2>2, BusyStays DEF LifeStep
<1>4. CASE UNCHANGED vars
    <2>1. UNCHANGED <<stream, at, call>>
        BY <1>4 DEF vars, stream_vars
    <2>2. NoIoMoves
        BY <2>1 DEF NoIoMoves
    <2>3. QED BY <2>1, <2>2, BusyStays DEF LifeStep
<1>5. QED BY <1>1, <1>2, <1>3, <1>4, StartIsLife, FinishIsLife, ControlIsLife, FreeIsLife DEF Next, Step

\* The capture stream: set_mode and the effects, on other threads, wait for the
\* stream's lock and so for the transfer.
LEMMA CaptureIsStreamLife == Spec => In!Spec
<1>1. Init => In!Init
    BY DEF Init, In!Init, Busy, Streams
<1>2. IInv /\ [Next]_vars => [In!Next]_<<stream["in"], Busy("in")>>
    <2>. SUFFICES ASSUME IInv, [Next]_vars PROVE [In!Next]_<<stream["in"], Busy("in")>>
        OBVIOUS
    <2>1. LifeStep("in") /\ stream["in"] \in {"closed", "standby", "running"}
        BY NextIsLife DEF IInv, TypeOK, Streams
    <2>2. Busy("in") \in BOOLEAN /\ Busy("in")' \in BOOLEAN
        BY DEF Busy
    <2>3. QED BY <2>1, <2>2 DEF LifeStep, In!Next, In!Open, In!Transfer, In!Finish, In!Standby, In!Close
<1>3. QED BY <1>1, <1>2, SpecIInv, PTL DEF Spec, In!Spec

\* The output stream, the same.
LEMMA PlaybackIsStreamLife == Spec => Out!Spec
<1>1. Init => Out!Init
    BY DEF Init, Out!Init, Busy, Streams
<1>2. IInv /\ [Next]_vars => [Out!Next]_<<stream["out"], Busy("out")>>
    <2>. SUFFICES ASSUME IInv, [Next]_vars PROVE [Out!Next]_<<stream["out"], Busy("out")>>
        OBVIOUS
    <2>1. LifeStep("out") /\ stream["out"] \in {"closed", "standby", "running"}
        BY NextIsLife DEF IInv, TypeOK, Streams
    <2>2. Busy("out") \in BOOLEAN /\ Busy("out")' \in BOOLEAN
        BY DEF Busy
    <2>3. QED BY <2>1, <2>2 DEF LifeStep, Out!Next, Out!Open, Out!Transfer, Out!Finish, Out!Standby, Out!Close
<1>3. QED BY <1>1, <1>2, SpecIInv, PTL DEF Spec, Out!Spec

\* Both streams live as their users are promised, whatever set_mode, an effect
\* or a close does on other threads.
THEOREM StreamsLive == Spec => StreamsHaveLife
BY CaptureIsStreamLife, PlaybackIsStreamLife, PTL DEF StreamsHaveLife

=============================================================================
