------------------------------ MODULE MCCapture ------------------------------
(* CapturePipeline with a period of two frames, requests smaller and larger *)
(* than it, and two effects that may report auxiliary channels, or not.      *)
EXTENDS CapturePipeline

CONSTANTS agc, aec

MCEffects   == {agc, aec}
MCConfigsOf == [e \in MCEffects |-> InAuxConfigs]
MCAec       == {aec}
MCFailing   == {aec}
MCDevices   == {"BUILTIN_MIC", "WIRED_HEADSET"}
MCMics      == {"BUILTIN_MIC"}
=============================================================================
