---------------------------- MODULE MCEncodedQueue ----------------------------
(* Instances of EncodedQueue for TLC. *)
EXTENDS EncodedQueue
=============================================================================
