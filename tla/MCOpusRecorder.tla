--------------------------- MODULE MCOpusRecorder ---------------------------
(* OpusRecorder for TLC: the cfg file gives the bounds. *)
EXTENDS OpusRecorder
=============================================================================
