----------------------------- MODULE MCCliStreams -----------------------------
(* The links two by two where a client uses both, else one at a time.      *)
(* Five chunks overflow a queue of three; two 408s and two hub restarts      *)
(* break the links.  Each run of the hub and of the CLI comes to an end.   *)
EXTENDS ModeTrackers
\* A suspension may come with an input.
UsedTogether == {{"output"}, {"input", "pause"}, {"mode"}}
\* One state of each class that the input gate tells apart.
TriedStates == {"awaiting-input", "running", "done"}
=============================================================================
