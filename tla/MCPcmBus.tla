------------------------------ MODULE MCPcmBus ------------------------------
(* PcmBus for TLC: the cfg file gives workers, clients and bounds. *)
EXTENDS PcmBus
=============================================================================
