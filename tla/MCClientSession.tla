--------------------------- MODULE MCClientSession ---------------------------
(***************************************************************************)
(* ClientSession for TLC.  The program is not bounded; the environment is: *)
(* see the constants in the configurations.                                *)
(***************************************************************************)
EXTENDS ClientSession
=============================================================================
