--------------------------- MODULE VoiceCallProofs ---------------------------
(***************************************************************************)
(* Proofs about VoiceCall for every XML file, every set of routing words,  *)
(* modes and TTY modes.  The inductive invariant is the conjunction of the *)
(* invariants the runs check; none of them is inductive alone.             *)
(***************************************************************************)
EXTENDS VoiceCall, TLAPS

-----------------------------------------------------------------------------
(* The routing words.                                                      *)

\* What select_devices guarantees on any routing state: the wanted words are
\* kept and become the active ones.
LEMMA SelectDevicesSelects ==
    ASSUME NEW r \in Routes
    PROVE  /\ SelectDevices(r) \in Routes
           /\ SelectDevices(r).out = r.out /\ SelectDevices(r).in = r.in
           /\ SelectDevices(r).active_out = r.out
           /\ SelectDevices(r).active_in = r.in
<1>1. /\ Touched(r.out) \subseteq DevCfgs /\ Touched(r.in) \subseteq DevCfgs
    BY DEF Touched
<1>2. CASE r.active_out = r.out /\ r.active_in = r.in
    BY <1>2 DEF SelectDevices
<1>3. CASE ~(r.active_out = r.out /\ r.active_in = r.in)
    BY <1>1, <1>3 DEF SelectDevices, Routes
<1>4. QED BY <1>2, <1>3

\* A section is left on only if one of the words it was on for, or one of the
\* words now selected, touches it.
Powered(r) == r.on \subseteq Touched(r.active_out) \cup Touched(r.active_in)

LEMMA SelectDevicesPowersDown ==
    ASSUME NEW r \in Routes, Powered(r)
    PROVE  Powered(SelectDevices(r))
<1>1. CASE r.active_out = r.out /\ r.active_in = r.in
    BY <1>1 DEF SelectDevices
<1>2. CASE ~(r.active_out = r.out /\ r.active_in = r.in)
    BY <1>2 DEF SelectDevices, Routes, Powered
<1>3. QED BY <1>1, <1>2

-----------------------------------------------------------------------------
(* The call PCMs.                                                          *)

PcmType == [PcmNames -> {NoPcm} \cup Rates]
AtRate(p, rate) == \A c \in PcmNames : p[c] # NoPcm => p[c] = rate
Paired(p) ==
    /\ p["modem_dl"] # NoPcm => p["modem_ul"] # NoPcm
    /\ p["bt_dl"] # NoPcm <=> p["bt_ul"] # NoPcm
    /\ p["bt_dl"] # NoPcm => p["modem_dl"] # NoPcm
GoodPcms(p, rate) == p \in PcmType /\ AtRate(p, rate) /\ Paired(p)

\* NULL pointers everywhere are a good state at any rate.
LEMMA AllClosedGood == ASSUME NEW rate PROVE GoodPcms(AllClosed, rate)
BY DEF GoodPcms, PcmType, AtRate, Paired, AllClosed, PcmNames, ModemPcms, BtPcms, NoPcm

\* start_call keeps the PCMs good, whichever pcm_open of it fails.
LEMMA StartCallGood ==
    ASSUME NEW rate \in Rates, NEW out, NEW p, GoodPcms(p, rate),
           NEW q \in StartCall(p, out, rate)
    PROVE  GoodPcms(q, rate)
<1> USE DEF GoodPcms, PcmType, AtRate, Paired, PcmNames, ModemPcms, BtPcms, NoPcm
<1>0. rate # 0
    BY DEF Rates
<1>1. CASE q = Opened(p, WantedPcms(out), rate)
    BY <1>0, <1>1 DEF Opened, WantedPcms
<1>2. ASSUME NEW c \in PcmNames, p[c] = NoPcm, q = OpenFailed(p, c, rate)
      PROVE  GoodPcms(q, rate)
    BY <1>0, <1>2 DEF OpenFailed, Opened, Downlinks, Uplinks
<1>3. WantedPcms(out) \subseteq PcmNames
    BY DEF WantedPcms
<1>4. QED BY <1>1, <1>2, <1>3 DEF StartCall

\* So does the reopening of select_output_device on a SCO route.
LEMMA ReselectGood ==
    ASSUME NEW rate \in Rates, NEW out, NEW p, GoodPcms(p, rate),
           NEW q \in ReselectPcms(p, out, rate)
    PROVE  GoodPcms(q, rate)
BY AllClosedGood, StartCallGood DEF ReselectPcms, EndCall

LEMMA VxRateType == ASSUME NEW wb \in BOOLEAN PROVE VxRate(wb) \in Rates
BY DEF VxRate, Rates

LEMMA VoiceRoutesType ==
    ASSUME NEW out, NEW tty, NEW nrec
    PROVE  VoiceRoutes(out, tty) \subseteq VoiceRouteNames /\ AudioPath(out, nrec) \in AudioPaths
<1>1. VoiceRoutes(out, tty) \subseteq VoiceRouteNames
    BY DEF VoiceRoutes
<1>2. AudioPath(out, nrec) \in AudioPaths
    BY Zenon DEF AudioPath, AudioPaths
<1>3. QED BY <1>1, <1>2

\* A routing state between two handlers.
Settled(r) ==
    /\ r \in Routes
    /\ r.active_out = r.out /\ r.active_in = r.in
    /\ r.on \subseteq Touched(r.out) \cup Touched(r.in)

\* Selecting new words from a settled state settles it on them.
LEMMA RerouteSettles ==
    ASSUME Settled(route), NEW out \in SUBSET OutBits, NEW in \in SUBSET (0 .. 31)
    PROVE  /\ Settled(Reroute(out, in))
           /\ Reroute(out, in).out = out /\ Reroute(out, in).in = in
<1> DEFINE r == [route EXCEPT !.out = out, !.in = in]
<1>1. r \in Routes /\ r.out = out /\ r.in = in
    BY DEF Settled, Routes
<1>2. Powered(r)
    BY DEF Settled, Powered, Routes
<1>3. QED
    BY <1>1, <1>2, SelectDevicesSelects, SelectDevicesPowersDown
    DEF Settled, Powered, Reroute

\* Selecting again what is selected changes nothing.
LEMMA SelectSettled == ASSUME NEW r, Settled(r) PROVE SelectDevices(r) = r
BY DEF Settled, SelectDevices

LEMMA SettledWords ==
    ASSUME Settled(route)
    PROVE  route.out \in SUBSET OutBits /\ route.in \in SUBSET (0 .. 31)
BY DEF Settled, Routes

LEMMA InputWordType ==
    ASSUME NEW w \in InDevices \cup {{}} PROVE w \in SUBSET (0 .. 31)
BY DEF InDevices, IN_BUILTIN_MIC, IN_SCO_HEADSET, IN_WIRED_HEADSET, IN_BACK_MIC

-----------------------------------------------------------------------------
(* The inductive invariant.  The PCMs are good at the current rate, the    *)
(* routing is settled, and the pointers are NULL outside a call.           *)

IInv ==
    /\ TypeOK
    /\ ModeMatchesCall
    /\ Settled(route)
    /\ GoodPcms(pcm, VxRate(wb_amr))
    /\ ~in_call => pcm = AllClosed
    /\ VoiceRoutesCurrent
    /\ ActiveInputRuns
    /\ RecordingIsRouted

LEMMA InitIInv == Init => IInv
<1> SUFFICES ASSUME Init PROVE IInv
    OBVIOUS
<1> DEFINE r0 == [out |-> {SPEAKER}, in |-> IN_BUILTIN_MIC, on |-> {},
                  active_out |-> {}, active_in |-> {}]
<1>1. r0 \in Routes /\ Powered(r0)
    BY InputWordType DEF Routes, Powered, OutBits, InDevices
<1>2. Settled(route)
    BY <1>1, SelectDevicesSelects, SelectDevicesPowersDown
    DEF Init, DefaultRoute, Settled, Powered
<1>3. TypeOK
    BY <1>2, ModesAssumption, TtyAssumption
    DEF Init, TypeOK, Settled, AllClosed, AudioPaths
<1>4. GoodPcms(pcm, VxRate(wb_amr))
    BY AllClosedGood DEF Init
<1>5. QED
    BY <1>2, <1>3, <1>4 DEF Init, IInv, ModeMatchesCall, VoiceRoutesCurrent,
       ActiveInputRuns, RecordingIsRouted

-----------------------------------------------------------------------------
(* The two ways a handler touches the call: it selects an output in a call *)
(* or it selects and starts the call.                                      *)

LEMMA SelectOutputKeeps ==
    ASSUME IInv, NEW out \in SUBSET OutBits, NEW tty \in TtyModes,
           mode' = mode, in_call' = in_call, wb_amr' = wb_amr, tty_mode' = tty,
           SelectOutputDevice(out, pcm, mode, tty)
    PROVE  /\ Settled(route)' /\ route'.out = out /\ route'.in = route.in
           /\ GoodPcms(pcm, VxRate(wb_amr))' /\ (~in_call => pcm = AllClosed)'
           /\ VoiceRoutesCurrent'
           /\ voice_routes' \subseteq VoiceRouteNames /\ audio_path' \in AudioPaths
<1>1. Settled(route)' /\ route'.out = out /\ route'.in = route.in
    BY RerouteSettles, SettledWords DEF IInv, SelectOutputDevice
<1>2. CASE in_call
    <2>1. mode = "IN_CALL" /\ VxRate(wb_amr) \in Rates
        BY <1>2, VxRateType DEF IInv, ModeMatchesCall, TypeOK
    <2>2. GoodPcms(pcm', VxRate(wb_amr))
        BY <2>1, ReselectGood DEF IInv, SelectOutputDevice
    <2>3. /\ voice_routes' = VoiceRoutes(out, tty)
          /\ audio_path' = AudioPath(out, bluetooth_nrec)
          /\ bluetooth_nrec \in BOOLEAN
        BY <2>1 DEF SelectOutputDevice, IInv, TypeOK
    <2>4. QED
        BY <1>1, <1>2, <2>2, <2>3, VoiceRoutesType DEF VoiceRoutesCurrent
<1>3. CASE ~in_call
    <2>1. mode # "IN_CALL"
        BY <1>3 DEF IInv, ModeMatchesCall
    <2>2. pcm' = pcm /\ UNCHANGED <<voice_routes, audio_path>>
        BY <2>1 DEF SelectOutputDevice
    <2>3. QED
        BY <1>1, <1>3, <2>2 DEF IInv, TypeOK, VoiceRoutesCurrent
<1>4. QED BY <1>2, <1>3 DEF IInv, TypeOK

LEMMA SelectAndStartKeeps ==
    ASSUME IInv, NEW out \in SUBSET OutBits, NEW in \in SUBSET (0 .. 31),
           NEW p, GoodPcms(p, VxRate(wb_amr')), wb_amr' \in BOOLEAN,
           in_call' = TRUE, tty_mode' = tty_mode, bluetooth_nrec' = bluetooth_nrec,
           SelectAndStartCall(out, in, p, VxRate(wb_amr'))
    PROVE  /\ Settled(route)' /\ route'.out = out /\ route'.in = in
           /\ GoodPcms(pcm, VxRate(wb_amr))'
           /\ VoiceRoutesCurrent'
           /\ voice_routes' \subseteq VoiceRouteNames /\ audio_path' \in AudioPaths
<1>1. Settled(route)' /\ route'.out = out /\ route'.in = in
    BY RerouteSettles DEF IInv, SelectAndStartCall
<1>2. VxRate(wb_amr') \in Rates
    BY VxRateType
<1>3. GoodPcms(pcm', VxRate(wb_amr'))
    BY <1>2, ReselectGood, StartCallGood DEF SelectAndStartCall
<1>4. QED
    BY <1>1, <1>3, VoiceRoutesType
    DEF SelectAndStartCall, VoiceRoutesCurrent, IInv, TypeOK

\* Standby outside a call drops the input route and keeps the output; in a
\* call it keeps both.
LEMMA StandbyRouteSettles ==
    ASSUME IInv, NEW m
    PROVE  /\ Settled(StandbyRoute(m)) /\ StandbyRoute(m).out = route.out
           /\ m = "IN_CALL" => StandbyRoute(m) = route
           /\ SelectDevices(StandbyRoute(m)) = StandbyRoute(m)
<1>1. {} \in SUBSET (0 .. 31)
    OBVIOUS
<1>2. QED
    BY <1>1, RerouteSettles, SettledWords, SelectSettled DEF IInv, StandbyRoute

-----------------------------------------------------------------------------
LEMMA NextIInv == IInv /\ [Next]_vars => IInv'
<1> SUFFICES ASSUME IInv, [Next]_vars PROVE IInv'
    OBVIOUS
<1> USE DEF call_vars, voice_vars, input_vars
<1>t. TypeOK /\ Settled(route)
    BY DEF IInv
<1>w. route.out \in SUBSET OutBits /\ route.in \in SUBSET (0 .. 31)
    BY <1>t, SettledWords
<1>i. InWords \subseteq SUBSET (0 .. 31)
    BY WordsAssumption, InputWordType
<1>1. CASE EnterCall
    <2>1. /\ EnterCallOut \in SUBSET OutBits /\ EnterCallIn \in SUBSET (0 .. 31)
        BY <1>w, InputWordType DEF EnterCallOut, EnterCallIn, OutBits, InDevices
    <2>2. /\ Settled(route)' /\ GoodPcms(pcm, VxRate(wb_amr))' /\ VoiceRoutesCurrent'
          /\ voice_routes' \subseteq VoiceRouteNames /\ audio_path' \in AudioPaths
        BY <1>1, <1>t, <2>1, SelectAndStartKeeps DEF EnterCall, IInv, TypeOK
    <2>3. input' \in [standby : BOOLEAN, device : InWords] /\ active_input' \in BOOLEAN
          /\ ActiveInputRuns'
        BY <1>1, <1>t DEF EnterCall, ForceAllStandby, DoInputStandby, ActiveInputRuns, IInv, TypeOK
    <2>4. TypeOK'
        BY <1>1, <1>t, <2>2, <2>3, ModesAssumption
        DEF EnterCall, TypeOK, Settled, GoodPcms, PcmType
    <2>5. QED
        BY <1>1, <2>2, <2>3, <2>4 DEF EnterCall, IInv, ModeMatchesCall, RecordingIsRouted
<1>2. ASSUME NEW m \in Modes, LeaveCall(m) PROVE IInv'
    <2>1. Settled(route)'
        BY <1>2, <1>t, StandbyRouteSettles, SelectSettled DEF LeaveCall, ForceStandbyRoute
    <2>2. GoodPcms(pcm, VxRate(wb_amr))' /\ pcm' = AllClosed
        BY <1>2, AllClosedGood DEF LeaveCall, EndCall
    <2>3. /\ input' \in [standby : BOOLEAN, device : InWords]
          /\ active_input' = FALSE /\ input'.standby = TRUE
        BY <1>2, <1>t DEF LeaveCall, ForceAllStandby, DoInputStandby, IInv, ActiveInputRuns, TypeOK
    <2>4. TypeOK'
        BY <1>2, <1>t, <2>1, <2>2, <2>3
        DEF LeaveCall, TypeOK, Settled, GoodPcms, PcmType, EndCallLeaks
    <2>5. QED
        BY <1>2, <2>1, <2>2, <2>3, <2>4
        DEF LeaveCall, IInv, ModeMatchesCall, VoiceRoutesCurrent, ActiveInputRuns, RecordingIsRouted
<1>3. ASSUME NEW m \in Modes, ChangeMode(m) PROVE IInv'
    BY <1>3 DEF ChangeMode, IInv, TypeOK, ModeMatchesCall, VoiceRoutesCurrent,
       ActiveInputRuns, RecordingIsRouted
<1>4. ASSUME NEW word \in OutWords, OutSetRouting(word) PROVE IInv'
    <2>1. word \in SUBSET OutBits
        BY WordsAssumption
    <2>2. /\ Settled(route)' /\ route'.in = route.in
          /\ GoodPcms(pcm, VxRate(wb_amr))' /\ (~in_call => pcm = AllClosed)'
          /\ VoiceRoutesCurrent'
          /\ voice_routes' \subseteq VoiceRouteNames /\ audio_path' \in AudioPaths
        BY <1>4, <1>t, <2>1, SelectOutputKeeps DEF OutSetRouting, TypeOK
    <2>3. TypeOK'
        BY <1>4, <1>t, <2>2 DEF OutSetRouting, TypeOK, Settled, GoodPcms, PcmType
    <2>4. QED
        BY <1>4, <2>2, <2>3
        DEF OutSetRouting, IInv, ModeMatchesCall, ActiveInputRuns, RecordingIsRouted
<1>5. ASSUME NEW enable \in BOOLEAN, WbAmrCallback(enable) PROVE IInv'
    <2>1. CASE in_call
        <3>1. /\ Settled(route)' /\ route'.in = route.in
              /\ GoodPcms(pcm, VxRate(wb_amr))' /\ VoiceRoutesCurrent'
              /\ voice_routes' \subseteq VoiceRouteNames /\ audio_path' \in AudioPaths
            BY <1>5, <1>w, <2>1, AllClosedGood, SelectAndStartKeeps
            DEF WbAmrCallback, EndCall
        <3>2. TypeOK'
            BY <1>5, <1>t, <2>1, <3>1
            DEF WbAmrCallback, TypeOK, Settled, GoodPcms, PcmType, EndCallLeaks
        <3>3. QED
            BY <1>5, <2>1, <3>1, <3>2
            DEF WbAmrCallback, IInv, ModeMatchesCall, ActiveInputRuns, RecordingIsRouted
    <2>2. CASE ~in_call
        <3>1. GoodPcms(pcm, VxRate(wb_amr))'
            BY <1>5, <2>2, AllClosedGood DEF WbAmrCallback, IInv
        <3>2. QED
            BY <1>5, <2>2, <3>1 DEF WbAmrCallback, IInv, TypeOK, ModeMatchesCall,
               VoiceRoutesCurrent, ActiveInputRuns, RecordingIsRouted
    <2>3. QED BY <1>t, <2>1, <2>2 DEF TypeOK
<1>6. ASSUME NEW tty \in TtyModes, SetTtyMode(tty) PROVE IInv'
    <2>1. CASE mode = "IN_CALL"
        <3>1. /\ Settled(route)' /\ route'.in = route.in
              /\ GoodPcms(pcm, VxRate(wb_amr))' /\ (~in_call => pcm = AllClosed)'
              /\ VoiceRoutesCurrent'
              /\ voice_routes' \subseteq VoiceRouteNames /\ audio_path' \in AudioPaths
            BY <1>6, <1>w, <2>1, SelectOutputKeeps DEF SetTtyMode
        <3>2. TypeOK'
            BY <1>6, <1>t, <3>1 DEF SetTtyMode, TypeOK, Settled, GoodPcms, PcmType
        <3>3. QED
            BY <1>6, <3>1, <3>2
            DEF SetTtyMode, IInv, ModeMatchesCall, ActiveInputRuns, RecordingIsRouted
    <2>2. CASE mode # "IN_CALL"
        BY <1>6, <2>2 DEF SetTtyMode, IInv, TypeOK, ModeMatchesCall,
           VoiceRoutesCurrent, ActiveInputRuns, RecordingIsRouted
    <2>3. QED BY <2>1, <2>2
<1>7. ASSUME NEW on \in BOOLEAN, SetBtNrec(on) PROVE IInv'
    BY <1>7 DEF SetBtNrec, IInv, TypeOK, ModeMatchesCall, VoiceRoutesCurrent,
       ActiveInputRuns, RecordingIsRouted
<1>8. CASE StartInput
    <2>1. input.device \in SUBSET (0 .. 31)
        BY <1>t, <1>i DEF TypeOK
    <2>2. /\ Settled(route)' /\ route'.out = route.out
          /\ ~in_call => route'.in = input.device
        BY <1>8, <1>t, <1>w, <2>1, RerouteSettles DEF StartInput, IInv, ModeMatchesCall
    <2>3. /\ input' \in [standby : BOOLEAN, device : InWords] /\ active_input' \in BOOLEAN
          /\ ActiveInputRuns' /\ input'.device = input.device
        <3>1. PICK opened \in BOOLEAN : /\ input' = [input EXCEPT !.standby = ~opened]
                                        /\ active_input' = opened
            BY <1>8 DEF StartInput
        <3>2. /\ input' \in [standby : BOOLEAN, device : InWords]
              /\ input'.standby = ~opened /\ input'.device = input.device
            BY <1>t, <3>1 DEF TypeOK
        <3>3. QED
            BY <3>1, <3>2, Zenon DEF ActiveInputRuns
    <2>4. TypeOK'
        BY <1>8, <1>t, <2>2, <2>3 DEF StartInput, TypeOK, Settled
    <2>5. QED
        BY <1>8, <2>2, <2>3, <2>4
        DEF StartInput, IInv, ModeMatchesCall, VoiceRoutesCurrent, RecordingIsRouted
<1>9. CASE InStandby
    <2>1. Settled(route)' /\ route'.out = route.out
        BY <1>9, StandbyRouteSettles DEF InStandby
    <2>2. /\ input' \in [standby : BOOLEAN, device : InWords]
          /\ active_input' = FALSE /\ input'.standby = TRUE
        BY <1>9, <1>t DEF InStandby, DoInputStandby, IInv, ActiveInputRuns, TypeOK
    <2>3. QED
        BY <1>9, <1>t, <2>1, <2>2 DEF InStandby, IInv, TypeOK, Settled, ModeMatchesCall,
           VoiceRoutesCurrent, ActiveInputRuns, RecordingIsRouted
<1>10. ASSUME NEW word \in InWords, InSetRouting(word) PROVE IInv'
    <2>1. Settled(route)' /\ route'.out = route.out
        BY <1>10, StandbyRouteSettles DEF InSetRouting
    <2>2. /\ input' \in [standby : BOOLEAN, device : InWords]
          /\ active_input' = FALSE /\ input'.standby = TRUE
        BY <1>10, <1>t DEF InSetRouting, IInv, ActiveInputRuns, TypeOK
    <2>3. QED
        BY <1>10, <1>t, <2>1, <2>2 DEF InSetRouting, IInv, TypeOK, Settled, ModeMatchesCall,
           VoiceRoutesCurrent, ActiveInputRuns, RecordingIsRouted
<1>11. CASE UNCHANGED vars
    BY <1>11 DEF vars, IInv, TypeOK, ModeMatchesCall, VoiceRoutesCurrent,
       ActiveInputRuns, RecordingIsRouted
<1>12. QED
    BY <1>1, <1>2, <1>3, <1>4, <1>5, <1>6, <1>7, <1>8, <1>9, <1>10, <1>11 DEF Next

LEMMA SpecIInv == Spec => []IInv
BY InitIInv, NextIInv, PTL DEF Spec

-----------------------------------------------------------------------------
(* The theorems.                                                           *)

\* Every variable keeps its type, for every XML file and every word sent.
THEOREM TypeCorrect == Spec => []TypeOK
<1>1. IInv => TypeOK
    BY DEF IInv
<1>2. QED BY <1>1, SpecIInv, PTL

\* No call PCM is referred to outside a call, and in one they all run at the
\* rate the modem last asked for.
THEOREM PcmsSafe == Spec => []PcmsFollowCall
<1>1. IInv => PcmsFollowCall
    BY DEF IInv, ModeMatchesCall, PcmsFollowCall, GoodPcms, AtRate, AllClosed
<1>2. QED BY <1>1, SpecIInv, PTL

\* Whatever pcm_open fails, no half of a call is left running.
THEOREM NoHalfCall == Spec => []NoHalfOpenCall
<1>1. IInv => NoHalfOpenCall
    BY DEF IInv, NoHalfOpenCall, GoodPcms, Paired
<1>2. QED BY <1>1, SpecIInv, PTL

\* What is wanted is selected, and nothing else is left powered.
THEOREM RoutesSettled == Spec => []NoStaleRoute
<1>1. IInv => NoStaleRoute
    BY DEF IInv, Settled, ActiveIsWanted, NoStaleRoute
<1>2. QED BY <1>1, SpecIInv, PTL

\* In a call the mixer and the modem follow the route and the TTY mode.
THEOREM VoiceRoutesFollow == Spec => []VoiceRoutesCurrent
<1>1. IInv => VoiceRoutesCurrent
    BY DEF IInv
<1>2. QED BY <1>1, SpecIInv, PTL

\* The capture stream is known while it runs and recorded from its device.
THEOREM RecordingSafe == Spec => []RecordingIsRouted
<1>1. IInv => RecordingIsRouted
    BY DEF IInv
<1>2. QED BY <1>1, SpecIInv, PTL

\* Capture never moves the microphone of a call.
THEOREM CallMicIsStable == Spec => CallMicStable
<1>1. IInv /\ [Next]_vars => [in_call /\ in_call' => route'.in = route.in]_vars
    <2> SUFFICES ASSUME IInv, Next, in_call, in_call' PROVE route'.in = route.in
        OBVIOUS
    <2> USE DEF call_vars, voice_vars, input_vars
    <2>1. mode = "IN_CALL" /\ Settled(route)
        BY DEF IInv, ModeMatchesCall
    <2>2. route.out \in SUBSET OutBits /\ route.in \in SUBSET (0 .. 31)
        BY <2>1, SettledWords
    <2>3. \A out \in SUBSET OutBits : Reroute(out, route.in).in = route.in
        BY <2>1, <2>2, RerouteSettles
    <2>4. ASSUME NEW word \in OutWords, OutSetRouting(word) PROVE route'.in = route.in
        BY <2>3, <2>4, WordsAssumption DEF OutSetRouting, SelectOutputDevice
    <2>5. ASSUME NEW enable \in BOOLEAN, WbAmrCallback(enable) PROVE route'.in = route.in
        BY <2>2, <2>3, <2>5 DEF WbAmrCallback, SelectAndStartCall
    <2>6. ASSUME NEW tty \in TtyModes, SetTtyMode(tty) PROVE route'.in = route.in
        BY <2>2, <2>3, <2>6 DEF SetTtyMode, SelectOutputDevice
    <2>7. CASE StartInput \/ InStandby \/ \E word \in InWords : InSetRouting(word)
        BY <2>1, <2>7 DEF StartInput, InStandby, InSetRouting, StandbyRoute
    <2>8. CASE EnterCall \/ \E m \in Modes : LeaveCall(m) \/ ChangeMode(m)
        BY <2>8 DEF EnterCall, LeaveCall, ChangeMode
    <2>9. CASE \E on \in BOOLEAN : SetBtNrec(on)
        BY <2>9 DEF SetBtNrec
    <2>10. QED BY <2>4, <2>5, <2>6, <2>7, <2>8, <2>9 DEF Next
<1>2. QED BY <1>1, SpecIInv, PTL DEF Spec, CallMicStable
=============================================================================
