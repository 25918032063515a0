----------------------------- MODULE StreamLife -----------------------------
(***************************************************************************)
(* What the framework is promised of one audio stream, whoever puts it     *)
(* into standby: its PCM is transferred on only while the stream runs, and *)
(* it is neither put into standby nor closed during a transfer.            *)
(***************************************************************************)
VARIABLES state,     \* "closed", "standby" or "running"
          busy       \* a transfer on the stream's PCM is under way

Init == state = "closed" /\ busy = FALSE

Open     == state = "closed" /\ state' = "standby" /\ UNCHANGED busy
Transfer == ~busy /\ state \in {"standby", "running"} /\ state' = "running" /\ busy' = TRUE
Finish   == busy /\ busy' = FALSE /\ UNCHANGED state
Standby  == ~busy /\ state = "running" /\ state' = "standby" /\ UNCHANGED busy
Close    == ~busy /\ state = "standby" /\ state' = "closed" /\ UNCHANGED busy

Next == Open \/ Transfer \/ Finish \/ Standby \/ Close

Spec == Init /\ [][Next]_<<state, busy>>
=============================================================================
