----------------------------- MODULE MCVoiceCall -----------------------------
(* VoiceCall with the words of the espresso tablets that tell its cases     *)
(* apart: the speaker alone and with a headset, a headset, a SCO headset.   *)
EXTENDS VoiceCall

MCDevCfgs  == {"speaker", "headphone", "earpiece", "sco-out", "builtin-mic",
               "headset-in", "sco-in"}
MCOutWords == {{SPEAKER}, {SPEAKER, WIRED_HEADPHONE}, {WIRED_HEADSET}, {SCO_HEADSET}}
MCInWords  == {IN_BUILTIN_MIC, IN_WIRED_HEADSET}
MCModes    == {"NORMAL", "RINGTONE", "IN_CALL"}
MCTtyModes == {"OFF", "VCO", "FULL"}
=============================================================================
