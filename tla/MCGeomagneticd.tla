--------------------------- MODULE MCGeomagneticd ---------------------------
(* Geomagneticd with two of the three axes: one with samples on both sides  *)
(* of zero whose centre is far from it, and zero itself; one that may stay  *)
(* without samples.  A computation at every second sample.                  *)
EXTENDS Geomagneticd
MCAxes == {"x", "y"}
MCField == [i \in MCAxes |-> IF i = "x" THEN {-12000, 0, 30000} ELSE {30000}]
=============================================================================
