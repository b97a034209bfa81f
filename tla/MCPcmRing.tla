------------------------------ MODULE MCPcmRing ------------------------------
(* Instances of PcmRing for TLC. *)
EXTENDS PcmRing
=============================================================================
