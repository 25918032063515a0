----------------------------- MODULE MCEventRing -----------------------------
(* EventRing with two kinds of event: every wrap position of a ring of N.   *)
EXTENDS EventRing
=============================================================================
