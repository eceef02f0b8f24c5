------------------------------- MODULE MCLink -------------------------------
(***************************************************************************)
(* Link for TLC: an interval of two ticks, and a receive timeout and a     *)
(* reconnect delay at the edge of what IdleBounded and OldSessionGone      *)
(* need.                                                                   *)
(***************************************************************************)
EXTENDS Link
=============================================================================
