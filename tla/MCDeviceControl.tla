--------------------------- MODULE MCDeviceControl ---------------------------
(* DeviceControl for TLC: the cfg file gives the timeouts in seconds. *)
EXTENDS DeviceControl
=============================================================================
