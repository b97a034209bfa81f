--------------------------- MODULE MCJitterBuffer ---------------------------
(* Instances of JitterBuffer for TLC. *)
EXTENDS JitterBuffer
=============================================================================
