-------------------------- MODULE MCControlSessions --------------------------
(* ControlSessions for TLC: the cfg files give the connections and the calls. *)
EXTENDS ControlSessions
=============================================================================
