----------------------------- MODULE AudioDevice -----------------------------
(***************************************************************************)
(* adev_open and adev_close of audio/audio_hw.c around their two parts: the *)
(* mixer routes are read first (RouteConfig), the modem client is opened   *)
(* last (ModemClient), and calls reach the modem only in between open and  *)
(* close.                                                                  *)
(*                                                                         *)
(* The result of ril_open is not looked at: a device without its client    *)
(* library opens.  Its first request to the modem would be a call of a     *)
(* NULL function, so it gets no calls here.                                *)
(***************************************************************************)
EXTENDS RouteConfig

CONSTANTS
    CallDocuments,      \* bound: the files with which calls are made
    Paths, Volumes, VolumeSteps, HasGetWbAmr, MaxMessages

ASSUME ClientAssumption ==
    /\ Volumes \subseteq 0 .. 100 /\ 100 \in Volumes /\ VolumeSteps \in Nat \ {0}
    /\ "UNSET" \notin Paths
    /\ HasGetWbAmr \in BOOLEAN /\ MaxMessages \in Nat \ {0}

VARIABLES
    ril,                \* "none", "open", "missing", "closed"
    in_call, wb_amr, voice_volume, mic_mute, audio_path, mute_told,
    connected, messages, modem, amr, dropped_requests

modem_vars == <<in_call, wb_amr, voice_volume, mic_mute, audio_path, mute_told,
                connected, messages, modem, amr, dropped_requests>>

M == INSTANCE ModemClient WITH path <- audio_path, dropped <- dropped_requests

DeviceInit == Init /\ M!Init /\ ril = "none"

\* adev_config_parse and select_devices.
ReadRoutes == Next /\ UNCHANGED <<ril, modem_vars>>

\* ril_open: the library, its functions, the client; any may be missing.
RilOpen ==
    /\ pc = "opened" /\ ril = "none"
    /\ ril' \in {"open", "missing"}
    /\ UNCHANGED <<vars, modem_vars>>

\* Calls are made where all of the file could be read.
Call ==
    /\ ril = "open" /\ doc \in CallDocuments /\ e = Len(doc) /\ ~dropped
    /\ M!Next
    /\ UNCHANGED <<vars, ril>>

\* adev_close: ril_close disconnects, and gives up if it cannot.
AdevClose ==
    /\ ril \in {"open", "missing"}
    /\ ril' = "closed"
    /\ connected' \in {FALSE, connected}
    /\ messages' = IF connected' THEN messages ELSE <<>>
    /\ UNCHANGED <<vars, in_call, wb_amr, voice_volume, mic_mute, audio_path, mute_told,
                   modem, amr, dropped_requests>>

DeviceNext == ReadRoutes \/ RilOpen \/ Call \/ AdevClose

DeviceSpec == DeviceInit /\ [][DeviceNext]_<<vars, ril, modem_vars>>

-----------------------------------------------------------------------------
\* ModemClient's property of the requests, on the whole life of the device.
ModemFollows == M!ModemFollows

\* ModemClient's property of the bandwidth, likewise.
RateKnown == M!RateKnown
=============================================================================
