---------------------------- MODULE MCSensorsHal ----------------------------
(* SensorsHal with the orientation sensor, which switches the two it needs, *)
(* and the proximity sensor, the one that reports samples.                  *)
EXTENDS SensorsHal
=============================================================================
