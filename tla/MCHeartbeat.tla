---------------------------- MODULE MCHeartbeat ----------------------------
(* Instances of Heartbeat for TLC: one tick is a quarter of a second. *)
EXTENDS Heartbeat
=============================================================================
