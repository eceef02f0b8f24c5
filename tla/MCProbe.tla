------------------------------- MODULE MCProbe -------------------------------
(***************************************************************************)
(* Probe for TLC: more connections than slots, and a timeout of zero.      *)
(***************************************************************************)
EXTENDS Probe
=============================================================================
