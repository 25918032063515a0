------------------------------ MODULE VoiceCall ------------------------------
(***************************************************************************)
(* The voice-call state of the audio HAL device, struct                    *)
(* espresso_audio_device of audio/audio_hw.c: the telephony mode, the      *)
(* routing words, the four call PCMs (modem and Bluetooth, downlink and    *)
(* uplink), the wideband flag the modem reports, TTY, and the one capture  *)
(* stream whose start and standby reroute the input.                       *)
(*                                                                         *)
(* Every handler below runs under adev->lock, so each is one action.  The  *)
(* handlers call one another (select_mode calls force_all_standby,         *)
(* select_output_device and start_call, ...): the callees are operators    *)
(* that map the state before to the state, or the set of states, after.    *)
(* pcm_open may fail at any call, and start_call's result is ignored by    *)
(* all its callers.                                                        *)
(***************************************************************************)
EXTENDS DeviceRoutes

CONSTANTS
    OutWords,       \* routing words the policy manager sends to the output
    InWords,        \* routing words it sends to the input
    Modes,          \* telephony modes used, IN_CALL among them
    TtyModes        \* TTY modes used

ASSUME WordsAssumption ==
    /\ OutWords \subseteq (SUBSET OutBits) \ {{}}
    /\ InWords \subseteq InDevices
ASSUME ModesAssumption == {"NORMAL", "IN_CALL"} \subseteq Modes
ASSUME TtyAssumption ==
    "OFF" \in TtyModes /\ TtyModes \subseteq {"OFF", "VCO", "HCO", "FULL"}

VARIABLES
    route,          \* out_device, in_device, active_*_device, sections on
    mode, in_call,
    pcm,            \* pcm_modem_dl/ul, pcm_bt_dl/ul: NoPcm or the open rate
    leaked,         \* PCMs still open that no pointer refers to any more
    wb_amr, tty_mode, bluetooth_nrec,
    voice_routes,   \* voicecall route arrays last applied in their "on" form
    audio_path,     \* the call audio path last requested of the modem, if any
    input,          \* the capture stream: its standby flag and its device
    active_input    \* adev->active_input != NULL

call_vars   == <<mode, in_call, pcm, leaked, wb_amr>>
voice_vars  == <<tty_mode, bluetooth_nrec, voice_routes, audio_path>>
input_vars  == <<input, active_input>>
vars == <<route, call_vars, voice_vars, input_vars>>

-----------------------------------------------------------------------------
ModemPcms == {"modem_dl", "modem_ul"}
BtPcms    == {"bt_dl", "bt_ul"}
PcmNames  == ModemPcms \cup BtPcms
Downlinks == {"modem_dl", "bt_dl"}
Uplinks   == {"modem_ul", "bt_ul"}
NoPcm     == 0
Rates     == {8000, 16000}

\* Mutant of the next definition: the narrowband call PCMs at the media rate.
BugNarrowbandRate(wb) == IF wb THEN 16000 ELSE 44100

\* vx_rate of start_call.
VxRate(wb) == IF wb THEN 16000 ELSE 8000
ScoOn(out) == out \cap ALL_SCO # {}
AllClosed  == [c \in PcmNames |-> NoPcm]

Opened(p, names, rate) ==
    [c \in PcmNames |-> IF c \in names /\ p[c] = NoPcm THEN rate ELSE p[c]]

\* start_call: PCMs not yet open are opened in the order modem_dl, modem_ul,
\* then with a SCO route bt_dl, bt_ul, all at the current rate.
WantedPcms(out) == IF ScoOn(out) THEN PcmNames ELSE ModemPcms

\* Mutant of the next definition: each error label closes its own direction only.
BugOpenFailedOneSide(p, c, rate) ==
    LET before == IF c \in BtPcms THEN ModemPcms ELSE {"modem_dl"}
    IN  [n \in PcmNames |->
            IF n \in Downlinks <=> c \in Downlinks THEN NoPcm
            ELSE Opened(p, before, rate)[n]]

\* The error labels, when the open of c failed.  err_open_ul closes all four;
\* err_open_dl, taken by both downlinks, closes the downlinks only and leaves
\* an uplink that is open, or was opened before c, as it is.
OpenFailed(p, c, rate) ==
    LET before == IF c = "bt_dl" THEN ModemPcms ELSE {}
    IN  [n \in PcmNames |->
            IF c \in Uplinks \/ n \in Downlinks THEN NoPcm
            ELSE Opened(p, before, rate)[n]]

StartCall(p, out, rate) ==
    {Opened(p, WantedPcms(out), rate)} \cup
    {OpenFailed(p, c, rate) : c \in {w \in WantedPcms(out) : p[w] = NoPcm}}

\* Mutant of the next definition: the Bluetooth pointers survive.
BugEndCallModemOnly == [c \in PcmNames |-> IF c \in BtPcms THEN pcm[c] ELSE NoPcm]

\* end_call: all four pointers become NULL, but the Bluetooth PCMs are closed
\* only while the output word is a SCO one.
EndCall == AllClosed
EndCallLeaks(p, out) ==
    IF ScoOn(out) THEN {} ELSE {c \in BtPcms : p[c] # NoPcm}

\* select_output_device, the in-call PCM part: a SCO route reopens the PCMs.
ReselectPcms(p, out, rate) ==
    IF ScoOn(out) THEN StartCall(EndCall, out, rate) ELSE {p}

\* select_output_device, the mixer part of it in a call: which of the
\* voicecall arrays end up applied in their "on" form.  TTY overrides the
\* device flags unless Bluetooth is on.
VoiceFlags(out, tty) ==
    IF ScoOn(out) THEN out
    ELSE CASE tty \in {"FULL", "HCO"} -> {WIRED_HEADSET}
           [] tty = "VCO"             -> {SPEAKER}
           [] OTHER                   -> out

VoiceRouteNames ==
    {"voicecall_default", "default_input", "headset_input", "bt_input", "bt_output"}

VoiceRoutes(out, tty) ==
    LET flags == VoiceFlags(out, tty)
        on(bits) == flags \cap bits # {}
    IN  {name \in VoiceRouteNames :
            \/ /\ name = "voicecall_default"
               /\ on({WIRED_HEADSET, WIRED_HEADPHONE, SPEAKER, EARPIECE})
            \/ name = "default_input" /\ on({SPEAKER, EARPIECE, WIRED_HEADPHONE})
            \/ name = "headset_input" /\ on({WIRED_HEADSET})
            \/ name \in {"bt_input", "bt_output"} /\ ScoOn(out)}

\* set_incall_device: the output word must equal one device exactly to select
\* its path; any combination takes the default.
AudioPaths == {"UNSET", "HANDSET", "SPEAKER", "HEADSET", "HEADPHONE", "BLUETOOTH",
               "BLUETOOTH_NO_NR"}
AudioPath(out, nrec) ==
    CASE out = {EARPIECE}        -> "HANDSET"
      [] out \in {{SPEAKER}, {ANLG_DOCK_HEADSET}, {DGTL_DOCK_HEADSET}, {AUX_DIGITAL}}
                                 -> "SPEAKER"
      [] out = {WIRED_HEADSET}   -> "HEADSET"
      [] out = {WIRED_HEADPHONE} -> "HEADPHONE"
      [] out \in {{b} : b \in ALL_SCO}
                                 -> IF nrec THEN "BLUETOOTH" ELSE "BLUETOOTH_NO_NR"
      [] OTHER -> IF "earpiece" \in DevCfgs THEN "HANDSET" ELSE "SPEAKER"

-----------------------------------------------------------------------------
\* Assigning out_device or in_device and selecting.
Reroute(out, in) == SelectDevices([route EXCEPT !.out = out, !.in = in])

\* select_output_device after the routing word or one of the flags it reads
\* changed, for a mode and a set of PCMs the caller has already updated.
SelectOutputDevice(out, p, m, tty) ==
    /\ route' = Reroute(out, route.in)
    /\ IF m = "IN_CALL"
       THEN /\ pcm' \in ReselectPcms(p, out, VxRate(wb_amr))
            /\ voice_routes' = VoiceRoutes(out, tty)
            /\ audio_path' = AudioPath(out, bluetooth_nrec)
       ELSE /\ pcm' = p
            /\ UNCHANGED <<voice_routes, audio_path>>

\* The part that select_mode and the wideband callback share: select the
\* output with the call active, then start_call on whatever that left open.
SelectAndStartCall(out, in, p, rate) ==
    /\ route' = Reroute(out, in)
    /\ \E q \in ReselectPcms(p, out, rate) : pcm' \in StartCall(q, out, rate)
    /\ voice_routes' = VoiceRoutes(out, tty_mode)
    /\ audio_path' = AudioPath(out, bluetooth_nrec)

\* Mutant of the next definition: the input is dropped in a call as well.
BugStandbyRouteAlways(m) == IF input.standby THEN route ELSE Reroute(route.out, {})

\* do_input_standby, with the mode already m: outside a call it also drops
\* the input route.
StandbyRoute(m) ==
    IF input.standby \/ m = "IN_CALL" THEN route ELSE Reroute(route.out, {})

\* The stream's part of do_input_standby.
DoInputStandby ==
    /\ input' = [input EXCEPT !.standby = TRUE]
    /\ active_input' = (active_input /\ input.standby)

\* force_all_standby: reaches the capture stream through adev->active_input.
ForceStandbyRoute(m) == IF active_input THEN StandbyRoute(m) ELSE route

\* Mutant of the next definition: the capture stream runs on.
BugForceNoInput == UNCHANGED input_vars

\* force_all_standby: no output but the deep-buffer one exists, and it is not
\* the one a call forces into standby.
ForceAllStandby ==
    IF active_input THEN DoInputStandby ELSE UNCHANGED input_vars

-----------------------------------------------------------------------------
Init ==
    /\ route = DefaultRoute
    /\ mode = "NORMAL" /\ in_call = FALSE
    /\ pcm = AllClosed /\ leaked = {}
    /\ wb_amr = FALSE /\ tty_mode = "OFF" /\ bluetooth_nrec = TRUE
    /\ voice_routes = {} /\ audio_path = "UNSET"
    /\ input \in [standby : {TRUE}, device : InWords]
    /\ active_input = FALSE

\* adev_set_mode -> select_mode, entering a call.
EnterCallOut == IF route.out = {SPEAKER} THEN {EARPIECE} ELSE route.out \ {SPEAKER}
EnterCallIn  == IF route.out = {SPEAKER} THEN IN_BUILTIN_MIC ELSE route.in

EnterCall ==
    /\ mode # "IN_CALL" /\ ~in_call
    /\ mode' = "IN_CALL" /\ in_call' = TRUE
    /\ ForceAllStandby      \* the mode is IN_CALL by now: no input reroute
    /\ SelectAndStartCall(EnterCallOut, EnterCallIn, pcm, VxRate(wb_amr))
    /\ UNCHANGED <<leaked, wb_amr, tty_mode, bluetooth_nrec>>

\* adev_set_mode -> select_mode, leaving a call for mode m.
LeaveCall(m) ==
    /\ mode = "IN_CALL" /\ m # "IN_CALL" /\ in_call
    /\ mode' = m /\ in_call' = FALSE
    /\ pcm' = EndCall
    /\ leaked' = leaked \cup EndCallLeaks(pcm, route.out)
    /\ ForceAllStandby
    /\ route' = SelectDevices(ForceStandbyRoute(m))
    /\ UNCHANGED <<wb_amr, voice_vars>>

\* adev_set_mode between modes that are not a call, or with in_call already
\* at its new value: select_mode does nothing.
ChangeMode(m) ==
    /\ m # mode
    /\ (m = "IN_CALL") = in_call
    /\ mode' = m
    /\ UNCHANGED <<route, in_call, pcm, leaked, wb_amr, voice_vars, input_vars>>

\* out_set_parameters with a routing key; the low-latency and HDMI outputs it
\* tests for are never created, so only the deep-buffer case is left.
OutSetRouting(word) ==
    /\ word # route.out
    /\ SelectOutputDevice(word, pcm, mode, tty_mode)
    /\ UNCHANGED <<mode, in_call, leaked, wb_amr, tty_mode, bluetooth_nrec, input_vars>>

\* audio_set_wb_amr_callback, on the modem client's own thread.
WbAmrCallback(enable) ==
    /\ wb_amr # enable
    /\ wb_amr' = enable
    /\ IF in_call
       THEN /\ leaked' = leaked \cup EndCallLeaks(pcm, route.out)
            /\ SelectAndStartCall(route.out, route.in, EndCall, VxRate(enable))
       ELSE UNCHANGED <<route, pcm, leaked, voice_routes, audio_path>>
    /\ UNCHANGED <<mode, in_call, tty_mode, bluetooth_nrec, input_vars>>

\* Mutant of the next definition: the output is selected before the mode is stored.
BugSetTtyModeLate(tty) ==
    /\ tty # tty_mode
    /\ tty_mode' = tty
    /\ IF mode = "IN_CALL"
       THEN SelectOutputDevice(route.out, pcm, mode, tty_mode)
       ELSE UNCHANGED <<route, pcm, voice_routes, audio_path>>
    /\ UNCHANGED <<mode, in_call, leaked, wb_amr, bluetooth_nrec, input_vars>>

\* adev_set_parameters, one action per key.
SetTtyMode(tty) ==
    /\ tty # tty_mode
    /\ tty_mode' = tty
    /\ IF mode = "IN_CALL"
       THEN SelectOutputDevice(route.out, pcm, mode, tty)
       ELSE UNCHANGED <<route, pcm, voice_routes, audio_path>>
    /\ UNCHANGED <<mode, in_call, leaked, wb_amr, bluetooth_nrec, input_vars>>

SetBtNrec(on) ==
    /\ bluetooth_nrec' = on
    /\ UNCHANGED <<route, call_vars, tty_mode, voice_routes, audio_path, input_vars>>

\* in_read on a stream in standby -> start_input_stream.  The input is routed
\* before the PCM is opened; a failed open resets active_input only.
StartInput ==
    /\ input.standby
    /\ \E opened \in BOOLEAN :
          /\ input' = [input EXCEPT !.standby = ~opened]
          /\ active_input' = opened
    /\ route' = IF mode # "IN_CALL"
                THEN Reroute(route.out, input.device)
                ELSE route
    /\ UNCHANGED <<call_vars, voice_vars>>

\* in_standby; in_set_parameters with a new source does the same.
InStandby ==
    /\ DoInputStandby
    /\ route' = StandbyRoute(mode)
    /\ UNCHANGED <<call_vars, voice_vars>>

\* in_set_parameters with a new routing word.
InSetRouting(word) ==
    /\ word # input.device
    /\ input' = [standby |-> TRUE, device |-> word]
    /\ active_input' = (active_input /\ input.standby)
    /\ route' = StandbyRoute(mode)
    /\ UNCHANGED <<call_vars, voice_vars>>

Next ==
    \/ EnterCall
    \/ \E m \in Modes : LeaveCall(m) \/ ChangeMode(m)
    \/ \E word \in OutWords : OutSetRouting(word)
    \/ \E enable \in BOOLEAN : WbAmrCallback(enable)
    \/ \E tty \in TtyModes : SetTtyMode(tty)
    \/ \E on \in BOOLEAN : SetBtNrec(on)
    \/ StartInput
    \/ InStandby
    \/ \E word \in InWords : InSetRouting(word)

Spec == Init /\ [][Next]_vars

-----------------------------------------------------------------------------
TypeOK ==
    /\ route \in Routes
    /\ mode \in Modes /\ in_call \in BOOLEAN
    /\ pcm \in [PcmNames -> {NoPcm} \cup Rates]
    /\ leaked \subseteq BtPcms
    /\ wb_amr \in BOOLEAN /\ tty_mode \in TtyModes /\ bluetooth_nrec \in BOOLEAN
    /\ voice_routes \subseteq VoiceRouteNames
    /\ audio_path \in AudioPaths
    /\ input \in [standby : BOOLEAN, device : InWords]
    /\ active_input \in BOOLEAN

\* The mode the framework set and the in_call flag the modem callback and
\* select_mode test never disagree between two handlers, whatever failed.
ModeMatchesCall == in_call <=> mode = "IN_CALL"

\* No pointer to a call PCM survives the call, and within a call every PCM
\* still referred to runs at the rate the modem last asked for: the wideband
\* callback, a reroute to Bluetooth and failed opens may come in any order.
\* The framework's mode and the in_call flag of the callback never disagree.
PcmsFollowCall ==
    /\ ModeMatchesCall
    /\ \A c \in PcmNames : pcm[c] # NoPcm => in_call /\ pcm[c] = VxRate(wb_amr)

\* The two error labels never leave a downlink running without its uplink,
\* nor a Bluetooth PCM without the modem PCMs it is connected to.
NoHalfOpenCall ==
    /\ pcm["modem_dl"] # NoPcm => pcm["modem_ul"] # NoPcm
    /\ pcm["bt_dl"] # NoPcm <=> pcm["bt_ul"] # NoPcm
    /\ pcm["bt_dl"] # NoPcm => pcm["modem_dl"] # NoPcm

\* Every handler that changes a wanted device also selects it, so the active
\* words are the wanted ones between two handlers.
ActiveIsWanted == route.active_out = route.out /\ route.active_in = route.in

\* After every handler the wanted devices are the selected ones, and no section
\* of the mixer stays powered that no wanted word touches.
NoStaleRoute ==
    /\ ActiveIsWanted
    /\ route.on \subseteq Touched(route.out) \cup Touched(route.in)

\* In a call the voicecall mixer arrays and the modem's audio path are those
\* of the current device and TTY mode: route changes, TTY changes, wideband
\* changes and failed PCM opens all end with both up to date.  Noise reduction
\* is the one input whose change waits for the next selection.
VoiceRoutesCurrent ==
    in_call => /\ voice_routes = VoiceRoutes(route.out, tty_mode)
               /\ \E nrec \in BOOLEAN : audio_path = AudioPath(route.out, nrec)

\* adev->active_input points at the capture stream exactly while it is out of
\* standby, so force_all_standby never misses a running stream.
ActiveInputRuns == active_input <=> ~input.standby

\* Outside a call a running capture stream is recorded from its own device: a
\* stream started during a call, which is not routed, never outlives the call,
\* because set_mode finds it through active_input.
RecordingIsRouted ==
    /\ ActiveInputRuns
    /\ active_input /\ ~in_call => route.in = input.device

\* Recording during a call, and changing the recording's source or device,
\* never changes the input device of the call.
CallMicStable == [][in_call /\ in_call' => route'.in = route.in]_vars

\* What "reopen the pcms" promises: no call PCM stays open behind the HAL's back.
NoLeakedPcm == leaked = {}

\* What "disable old ones" promises: a section a wanted output device needs is
\* on after the devices are selected.
WantedOutputOn == Touched(route.out) \cap OutCfgs \subseteq route.on
=============================================================================
