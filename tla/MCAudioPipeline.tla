--------------------------- MODULE MCAudioPipeline ---------------------------
(* Instances of AudioPipeline for TLC. *)
EXTENDS AudioPipeline
=============================================================================
