---------------------------- MODULE AudioStreams ----------------------------
(***************************************************************************)
(* The threads and the locks of the audio HAL (audio/audio_hw.c).  The     *)
(* playback and the record thread write to and read from their stream,     *)
(* framework threads set the mode, add and remove effects and open and     *)
(* close the streams, and the modem client's thread delivers the wideband  *)
(* callback.  A call locks the device, then the stream; the transfer on    *)
(* the PCM runs under the stream's lock alone, so the device stays free    *)
(* while a read or a write blocks.                                         *)
(*                                                                         *)
(* What a call does between taking its last lock and releasing its first   *)
(* is one step: nothing it touches is read without those locks.            *)
(***************************************************************************)
EXTENDS Naturals

CONSTANTS Controls,      \* framework threads other than the streams' own
          NoThread

Threads == Controls \cup {"playback", "record", "ril"}

ASSUME ThreadsAssumption ==
    NoThread \notin Threads /\ Controls \cap {"playback", "record", "ril"} = {}

VARIABLES
    lock,            \* owner of adev->lock, in->lock and out->lock
    at,              \* where each thread is in its call
    call,            \* the call it is in
    stream,          \* each stream: closed, in standby or running
    active_input,    \* adev->active_input != NULL
    mode, in_call

stream_vars == <<stream, active_input>>
mode_vars   == <<mode, in_call>>
vars == <<lock, at, call, stream_vars, mode_vars>>

-----------------------------------------------------------------------------
Streams   == {"in", "out"}
Locks     == {"adev"} \cup Streams
OutCalls  == {"write", "out_standby", "out_params", "close_out"}
InCalls   == {"read", "in_standby", "in_params", "in_effect", "close_in"}
Calls     == OutCalls \cup InCalls \cup {"set_mode", "wb_callback", "none"}
CloseCalls == {"close_in", "close_out"}

\* The calls a thread makes.  The framework drives a stream from the stream's
\* own thread, all but the effects and the close.
CallsOf(t) ==
    {c \in Calls :
        \/ t = "playback"    /\ c \in {"write", "out_standby", "out_params"}
        \/ t = "record"      /\ c \in {"read", "in_standby", "in_params"}
        \/ t = "ril"         /\ c = "wb_callback"
        \/ t \in Controls    /\ c \in {"set_mode", "in_effect"} \cup CloseCalls}

StreamOf(c) == IF c \in OutCalls THEN "out" ELSE "in"
Uses(t, s)  == call[t] \in (IF s = "out" THEN OutCalls ELSE InCalls)

\* want_adev, want_stream: blocked on or about to take that lock; both: holds
\* both locks; io: holds the stream's and transfers; fail: holds the stream's
\* after a failed start; unlock: holds adev's; free: a close that has put the
\* stream into standby and holds nothing.
Points == {"idle", "want_adev", "want_stream", "both", "io", "fail", "unlock", "free"}

Take(l, t)  == lock[l] = NoThread /\ lock' = [lock EXCEPT ![l] = t]
Release(ls) == lock' = [l \in Locks |-> IF l \in ls THEN NoThread ELSE lock[l]]
Goto(t, p)  == at' = [at EXCEPT ![t] = p] /\ UNCHANGED call
Return(t)   == at' = [at EXCEPT ![t] = "idle"] /\ call' = [call EXCEPT ![t] = "none"]

Init ==
    /\ lock = [l \in Locks |-> NoThread]
    /\ at = [t \in Threads |-> "idle"] /\ call = [t \in Threads |-> "none"]
    /\ stream = [s \in Streams |-> "closed"]
    /\ active_input = FALSE
    /\ mode = "NORMAL" /\ in_call = FALSE

-----------------------------------------------------------------------------
\* adev_open_input_stream, adev_open_output_stream: no lock is taken.
Open(s) ==
    /\ stream[s] = "closed"
    /\ stream' = [stream EXCEPT ![s] = "standby"]
    /\ UNCHANGED <<lock, at, call, active_input, mode_vars>>

\* A call begins.  The framework calls on an open stream only, and closes it
\* when no other call on it is under way.
Begin(t, c) ==
    /\ at[t] = "idle" /\ c \in CallsOf(t)
    /\ c \in OutCalls \cup InCalls =>
          /\ stream[StreamOf(c)] # "closed"
          /\ \A u \in Threads :
                Uses(u, StreamOf(c)) => {c, call[u]} \cap CloseCalls = {}
    /\ at' = [at EXCEPT ![t] = "want_adev"] /\ call' = [call EXCEPT ![t] = c]
    /\ UNCHANGED <<lock, stream_vars, mode_vars>>

\* Mutant of the next definition: a running capture is read under its own lock.
BugReadSkipsDevice(t) ==
    /\ at[t] = "want_adev" /\ call[t] \in OutCalls \cup InCalls
    /\ IF call[t] = "read" /\ stream["in"] = "running"
       THEN Take("in", t) /\ Goto(t, "io")
       ELSE Take("adev", t) /\ Goto(t, "want_stream")
    /\ UNCHANGED <<stream_vars, mode_vars>>

\* Every call on a stream takes the device's lock first, then the stream's.
LockDevice(t) ==
    /\ at[t] = "want_adev" /\ call[t] \in OutCalls \cup InCalls
    /\ Take("adev", t)
    /\ Goto(t, "want_stream")
    /\ UNCHANGED <<stream_vars, mode_vars>>

\* Mutant of the next definition: select_mode forgets the stream's lock.
BugLockStreamNotInMode(t) ==
    /\ at[t] = "want_stream"
    /\ IF call[t] = "set_mode" THEN UNCHANGED lock ELSE Take(StreamOf(call[t]), t)
    /\ Goto(t, "both")
    /\ UNCHANGED <<stream_vars, mode_vars>>

LockStream(t) ==
    /\ at[t] = "want_stream"
    /\ Take(StreamOf(call[t]), t)
    /\ Goto(t, "both")
    /\ UNCHANGED <<stream_vars, mode_vars>>

\* Mutant of Start: the error path leaves the device locked.
BugStartKeepsDevice(t) ==
    /\ at[t] = "both" /\ call[t] \in {"write", "read"}
    /\ LET s == StreamOf(call[t]) IN
       \E ok \in BOOLEAN :
          /\ stream[s] = "running" => ok
          /\ stream' = IF ok THEN [stream EXCEPT ![s] = "running"] ELSE stream
          /\ active_input' =
                IF s = "in" /\ stream[s] = "standby" THEN ok ELSE active_input
          /\ Goto(t, IF ok THEN "io" ELSE "fail")
          /\ IF ok THEN Release({"adev"}) ELSE UNCHANGED lock
    /\ UNCHANGED mode_vars

\* out_write_deep_buffer and in_read: a stream in standby is started, which may
\* fail; the device's lock is released before the transfer.
Start(t) ==
    /\ at[t] = "both" /\ call[t] \in {"write", "read"}
    /\ LET s == StreamOf(call[t]) IN
       \E ok \in BOOLEAN :
          /\ stream[s] = "running" => ok
          /\ stream' = IF ok THEN [stream EXCEPT ![s] = "running"] ELSE stream
          /\ active_input' =
                IF s = "in" /\ stream[s] = "standby" THEN ok ELSE active_input
          /\ Goto(t, IF ok THEN "io" ELSE "fail")
    /\ Release({"adev"})
    /\ UNCHANGED mode_vars

\* The transfer, or the sleep that stands in for one after an error, ends.
Finish(t) ==
    /\ at[t] \in {"io", "fail"}
    /\ Release({StreamOf(call[t])})
    /\ Return(t)
    /\ UNCHANGED <<stream_vars, mode_vars>>

\* Mutant of the next definition: active_input dangles.
BugStandbyKeepsActive(s) ==
    /\ stream' = IF stream[s] = "running" THEN [stream EXCEPT ![s] = "standby"] ELSE stream
    /\ UNCHANGED active_input

\* do_input_standby, do_output_standby.
DoStandby(s) ==
    /\ stream' = IF stream[s] = "running" THEN [stream EXCEPT ![s] = "standby"] ELSE stream
    /\ active_input' =
          IF s = "in" /\ stream[s] = "running" THEN FALSE ELSE active_input

\* The calls that put the stream into standby: the standby calls and the
\* closes always, in_set_parameters and the effects when something changed,
\* select_mode through force_all_standby.  out_set_parameters reroutes only.
MustStandby == {"in_standby", "out_standby", "set_mode"} \cup CloseCalls
MayStandby  == {"in_params", "in_effect"}

Control(t) ==
    /\ at[t] = "both" /\ call[t] \notin {"write", "read"}
    /\ \/ call[t] \in MustStandby \cup MayStandby /\ DoStandby(StreamOf(call[t]))
       \/ call[t] \notin MustStandby /\ UNCHANGED stream_vars
    /\ Release({StreamOf(call[t])})
    /\ Goto(t, "unlock")
    /\ UNCHANGED mode_vars

\* Mutant of SetMode: the active capture stream is left running.
BugSetModeOnly(t) ==
    /\ at[t] = "want_adev" /\ call[t] = "set_mode"
    /\ Take("adev", t)
    /\ \E m \in {"NORMAL", "IN_CALL"} :
          mode' = m /\ in_call' = (in_call /\ m = "IN_CALL")
    /\ Goto(t, "unlock")
    /\ UNCHANGED stream_vars

\* adev_set_mode: the mode is stored, and when the call state changes with it
\* select_mode forces the active capture stream into standby.
SetMode(t) ==
    /\ at[t] = "want_adev" /\ call[t] = "set_mode"
    /\ Take("adev", t)
    /\ \E m \in {"NORMAL", "IN_CALL"} :
          /\ mode' = m
          /\ in_call' = (in_call /\ m = "IN_CALL")
          /\ Goto(t, IF in_call # (m = "IN_CALL") /\ active_input
                     THEN "want_stream" ELSE "unlock")
    /\ UNCHANGED stream_vars

\* audio_set_wb_amr_callback: reopens the call PCMs under the device's lock.
WbAmrCallback(t) ==
    /\ at[t] = "want_adev" /\ call[t] = "wb_callback"
    /\ Take("adev", t)
    /\ Goto(t, "unlock")
    /\ UNCHANGED <<stream_vars, mode_vars>>

\* The device's lock is released; select_mode has set in_call by then.
Unlock(t) ==
    /\ at[t] = "unlock"
    /\ Release({"adev"})
    /\ in_call' = IF call[t] = "set_mode" THEN mode = "IN_CALL" ELSE in_call
    /\ IF call[t] \in CloseCalls THEN Goto(t, "free") ELSE Return(t)
    /\ UNCHANGED <<stream_vars, mode>>

\* Mutant of Free: the handle dangles.
BugFreeDangling(t) ==
    /\ at[t] = "free"
    /\ stream' = [stream EXCEPT ![StreamOf(call[t])] = "freed"]
    /\ Return(t)
    /\ UNCHANGED <<lock, active_input, mode_vars>>

\* The rest of adev_close_*_stream frees the stream, holding no lock.
Free(t) ==
    /\ at[t] = "free"
    /\ stream' = [stream EXCEPT ![StreamOf(call[t])] = "closed"]
    /\ Return(t)
    /\ UNCHANGED <<lock, active_input, mode_vars>>

Step(t) ==
    \/ LockDevice(t) \/ LockStream(t) \/ Start(t) \/ Finish(t) \/ Control(t)
    \/ SetMode(t) \/ WbAmrCallback(t) \/ Unlock(t) \/ Free(t)

Next ==
    \/ \E s \in Streams : Open(s)
    \/ \E t \in Threads : Step(t) \/ \E c \in CallsOf(t) : Begin(t, c)

Spec == Init /\ [][Next]_vars

\* A thread inside a call keeps running: a mutex nobody holds is acquired
\* eventually if nobody else keeps taking it, and a transfer ends.  Nothing is
\* assumed of which waiter gets a contended mutex.
FairSpec == Spec /\ \A t \in Threads : WF_vars(Step(t))

-----------------------------------------------------------------------------
TypeOK ==
    /\ lock \in [Locks -> Threads \cup {NoThread}]
    /\ at \in [Threads -> Points]
    /\ call \in [Threads -> Calls]
    /\ stream \in [Streams -> {"closed", "standby", "running"}]
    /\ active_input \in BOOLEAN
    /\ mode \in {"NORMAL", "IN_CALL"} /\ in_call \in BOOLEAN

\* No thread waits for itself through the others: whoever holds a lock a
\* thread waits for either runs or waits for a lock whose holder runs.
WaitsFor(t, u) ==
    \/ at[t] = "want_adev" /\ lock["adev"] = u
    \/ at[t] = "want_stream" /\ lock[StreamOf(call[t])] = u
Blocked(t) == \E u \in Threads : WaitsFor(t, u)
NoCircularWait ==
    \A t, u \in Threads :
        WaitsFor(t, u) /\ Blocked(u) =>
            \E v \in Threads : WaitsFor(u, v) /\ ~Blocked(v)

\* The stream a call waits for, holds or transfers on is never a freed one,
\* be it reached from the caller's handle or, in set_mode, by active_input.
NoUseAfterFree ==
    \A t \in Threads :
        at[t] \in {"want_stream", "both", "io", "fail"} =>
            stream[StreamOf(call[t])] # "closed"

\* A call begins with the capture in standby, whatever the record thread was
\* doing when the mode was set.
CallStartsQuiet == [][~in_call /\ in_call' => stream'["in"] # "running"]_vars

\* A thread that has the device's lock gives it back: set_mode, which waits for
\* in->lock with the device locked, is not overtaken by read after read.
DeviceLockReleased ==
    \A t \in Threads : lock["adev"] = t ~> lock["adev"] # t

\* Each stream, as its users see it, is the one of StreamLife: neither
\* set_mode, an effect nor a close stops a stream under a transfer.
Busy(s) == \E t \in Threads : at[t] = "io" /\ StreamOf(call[t]) = s
In  == INSTANCE StreamLife WITH state <- stream["in"], busy <- Busy("in")
Out == INSTANCE StreamLife WITH state <- stream["out"], busy <- Busy("out")
StreamsHaveLife == In!Spec /\ Out!Spec
=============================================================================
