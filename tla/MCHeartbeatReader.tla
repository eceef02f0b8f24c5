-------------------------- MODULE MCHeartbeatReader --------------------------
(***************************************************************************)
(* HeartbeatReader for TLC: two-byte fields of four byte values, so that   *)
(* byte order and the field boundary both matter, and three packets.       *)
(***************************************************************************)
EXTENDS HeartbeatReader
=============================================================================
