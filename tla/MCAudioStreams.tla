--------------------------- MODULE MCAudioStreams ---------------------------
(* AudioStreams with two framework threads next to the streams' own: one    *)
(* may add an effect or close a stream while the other sets the mode.       *)
EXTENDS AudioStreams
=============================================================================
