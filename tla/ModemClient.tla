----------------------------- MODULE ModemClient -----------------------------
(***************************************************************************)
(* The audio HAL's requests to the modem, audio/ril_interface.c and the    *)
(* handlers of audio/audio_hw.c that use it, over a connection that is     *)
(* made when a request needs it, may fail to come up, and may break.  A    *)
(* request that does not get through is reported as a success and never    *)
(* repeated.                                                               *)
(*                                                                         *)
(* The modem reports the bandwidth of the voice codec by messages, of its  *)
(* own accord and in answer to the query that follows each connect; they   *)
(* arrive on a thread of the client library.  The result of the query is   *)
(* not looked at either: it may go unanswered.  Which audio path a device  *)
(* needs, and the PCMs of the call, are in VoiceCall.                      *)
(*                                                                         *)
(* The handlers that send one kind of request exclude each other, by       *)
(* adev->lock (the path) or by the framework's lock around calls on the    *)
(* device (the others), so each handler is one action.                     *)
(***************************************************************************)
EXTENDS Naturals, Sequences

\* AudioDevice assumes of these what ClientAssumption says.
CONSTANTS
    Paths,              \* call audio paths
    Volumes,            \* voice volumes, in percent
    VolumeSteps,        \* ril->volume_steps_max
    HasGetWbAmr,        \* the client library has the query for the bandwidth
    MaxMessages         \* bound: messages under way

VARIABLES
    in_call,            \* adev->mode is IN_CALL
    wb_amr, voice_volume, mic_mute,
    path,               \* the call audio path last selected
    connected,
    messages,           \* bandwidths reported and not yet received
    modem,              \* what the modem has been told
    amr,                \* the bandwidth the modem uses
    dropped,            \* the kinds whose last request was dropped; "rate" if
                        \* the bandwidth was asked for in vain and not reported
    mute_told           \* a mute request was made in this call

hal_vars  == <<in_call, wb_amr, voice_volume, mic_mute, path, mute_told>>
link_vars == <<connected, messages, modem, dropped>>
vars == <<hal_vars, link_vars, amr>>

-----------------------------------------------------------------------------
Kinds == {"path", "clock", "volume", "mute"}
Told  == [path : Paths \cup {"UNSET"}, clock : {"STOP", "START"},
          volume : 0 .. VolumeSteps, mute : BOOLEAN]
NothingTold ==
    [path |-> "UNSET", clock |-> "STOP", volume |-> 0, mute |-> FALSE]

\* The modem takes a number of steps, rounded down.
Level(volume) == (volume * VolumeSteps) \div 100

Link == [connected |-> connected, messages |-> messages, modem |-> modem,
         dropped |-> dropped]

Answered(l)   == [l EXCEPT !.dropped = @ \ {"rate"}, !.messages = Append(@, amr)]
Unanswered(l) == [l EXCEPT !.dropped = @ \cup {"rate"}]

\* Mutant of the next definition: only the first connect asks.
BugQueried(l) == IF HasGetWbAmr /\ l.modem.clock = "STOP"
                 THEN {Answered(l), Unanswered(l)} ELSE {l}

\* ril_connect_if_required: the query of a new connection, answered or not.
Queried(l) == IF HasGetWbAmr THEN {Answered(l), Unanswered(l)} ELSE {l}

ConnectIfRequired(l) ==
    IF l.connected THEN {l} ELSE {l} \cup Queried([l EXCEPT !.connected = TRUE])

\* ril_set_*: a request gets through only over a connection, and may fail there.
Sent(l, kind, value) ==
    UNION {{[c EXCEPT !.dropped = @ \cup {kind}]} \cup
           (IF c.connected
            THEN {[c EXCEPT !.dropped = @ \ {kind}, !.modem[kind] = value]}
            ELSE {}) : c \in ConnectIfRequired(l)}

IsLink(l) ==
    /\ connected' = l.connected /\ messages' = l.messages
    /\ modem' = l.modem /\ dropped' = l.dropped

Request(kind, value) == \E l \in Sent(Link, kind, value) : IsLink(l)

-----------------------------------------------------------------------------
Init ==
    /\ in_call = FALSE /\ wb_amr = FALSE /\ mic_mute = FALSE
    /\ voice_volume = 100
    /\ path = "UNSET" /\ mute_told = FALSE
    /\ connected = FALSE /\ messages = <<>>
    /\ modem = NothingTold /\ dropped = {}
    /\ amr = FALSE

\* Mutant of the next definition: the volume is not sent when a call begins.
BugCallRequests(p) ==
    UNION {Sent(l, "clock", "START") : l \in Sent(Link, "path", p)}

\* The requests of select_mode, in order: select_output_device's path, then
\* the clock and the volume.
CallRequests(p) ==
    UNION {Sent(l, "volume", Level(voice_volume)) :
           l \in UNION {Sent(k, "clock", "START") : k \in Sent(Link, "path", p)}}

\* adev_set_mode, entering a call.  The microphone's state is not sent.
EnterCall(p) ==
    /\ ~in_call
    /\ in_call' = TRUE
    /\ path' = p
    /\ \E l \in CallRequests(p) : IsLink(l)
    /\ mute_told' = FALSE
    /\ UNCHANGED <<wb_amr, voice_volume, mic_mute, amr>>

\* adev_set_mode, leaving the call: the modem is not told.
LeaveCall ==
    /\ in_call
    /\ in_call' = FALSE
    /\ UNCHANGED <<wb_amr, voice_volume, mic_mute, path, mute_told, link_vars, amr>>

\* select_output_device in a call, after a change of the device or of TTY.
SelectPath(p) ==
    /\ in_call
    /\ path' = p
    /\ Request("path", p)
    /\ UNCHANGED <<in_call, wb_amr, voice_volume, mic_mute, mute_told, amr>>

\* adev_set_voice_volume.
SetVoiceVolume(v) ==
    /\ voice_volume' = v
    /\ IF in_call THEN Request("volume", Level(v)) ELSE UNCHANGED link_vars
    /\ UNCHANGED <<in_call, wb_amr, mic_mute, path, mute_told, amr>>

\* adev_set_mic_mute.
SetMicMute(state) ==
    /\ mic_mute' = state
    /\ mute_told' = in_call
    /\ IF in_call THEN Request("mute", state) ELSE UNCHANGED link_vars
    /\ UNCHANGED <<in_call, wb_amr, voice_volume, path, amr>>

\* adev_set_parameters: two-microphone control, in or out of a call.  Of it
\* only the connection it may make is kept.
SetNoiseSuppression ==
    /\ \E l \in ConnectIfRequired(Link) : IsLink(l)
    /\ UNCHANGED <<hal_vars, amr>>

\* ril_set_wb_amr_callback: a new bandwidth selects the output again in a call.
Receive ==
    /\ messages # <<>>
    /\ wb_amr' = Head(messages)
    /\ IF in_call /\ wb_amr' # wb_amr
       THEN \E l \in Sent([Link EXCEPT !.messages = Tail(@)], "path", path) : IsLink(l)
       ELSE messages' = Tail(messages) /\ UNCHANGED <<connected, modem, dropped>>
    /\ UNCHANGED <<in_call, voice_volume, mic_mute, path, mute_told, amr>>

-----------------------------------------------------------------------------
(* The modem.                                                              *)

\* Only a connected client hears of a change.
AmrChanges ==
    /\ Len(messages) < MaxMessages
    /\ amr' = ~amr
    /\ messages' = IF connected THEN Append(messages, amr') ELSE messages
    /\ dropped' = IF connected THEN dropped \ {"rate"} ELSE dropped
    /\ UNCHANGED <<hal_vars, connected, modem>>

Disconnect ==
    /\ connected
    /\ connected' = FALSE /\ messages' = <<>>
    /\ UNCHANGED <<hal_vars, modem, dropped, amr>>

Next ==
    \/ \E p \in Paths : EnterCall(p) \/ SelectPath(p)
    \/ LeaveCall
    \/ \E v \in Volumes : SetVoiceVolume(v)
    \/ \E state \in BOOLEAN : SetMicMute(state)
    \/ SetNoiseSuppression
    \/ Receive
    \/ AmrChanges \/ Disconnect

Spec == Init /\ [][Next]_vars

-----------------------------------------------------------------------------
TypeOK ==
    /\ in_call \in BOOLEAN /\ wb_amr \in BOOLEAN /\ mic_mute \in BOOLEAN
    /\ voice_volume \in Volumes /\ path \in Paths \cup {"UNSET"} /\ mute_told \in BOOLEAN
    /\ connected \in BOOLEAN /\ messages \in Seq(BOOLEAN)
    /\ modem \in Told /\ amr \in BOOLEAN /\ dropped \subseteq Kinds \cup {"rate"}

\* In a call the modem has the path of the device, the volume and the running
\* clock, whenever each was set, over broken connections and bandwidth changes;
\* only a setting whose last request was dropped may differ.  The mute state is
\* the HAL's only once it was set in this call: a mute set before is not sent.
ModemFollows ==
    in_call =>
        /\ "path" \notin dropped => modem.path = path
        /\ "clock" \notin dropped => modem.clock = "START"
        /\ "volume" \notin dropped => modem.volume = Level(voice_volume)
        /\ mute_told /\ "mute" \notin dropped => modem.mute = mic_mute

\* While connected, the HAL knows the bandwidth or a message with it is under
\* way, though it missed every change while it was not connected: unless the
\* query of this connection was in vain and no change was reported since.
RateKnown ==
    connected /\ HasGetWbAmr /\ "rate" \notin dropped =>
        amr = IF messages = <<>> THEN wb_amr ELSE messages[Len(messages)]
=============================================================================
