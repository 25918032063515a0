------------------------- MODULE MCOrientationDaemon -------------------------
(* OrientationDaemon with its two sensors.                                  *)
EXTENDS OrientationDaemon

CONSTANTS bma250, yas530

MCSensors == {bma250, yas530}
=============================================================================
