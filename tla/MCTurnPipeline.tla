--------------------------- MODULE MCTurnPipeline ---------------------------
(* The dialogue path with users of different temper. *)
EXTENDS TurnPipeline

\* Waits for the assistant to finish.
WhenListening == {"Listening"}
\* Also speaks while the assistant does.
WhenSpeakingToo == {"Listening", "Speaking"}
=============================================================================
