------------------------------ MODULE MCConfig ------------------------------
(***************************************************************************)
(* Config for TLC.  The ports are those of the shipped example, in seconds *)
(* the real limits.                                                        *)
(***************************************************************************)
EXTENDS Config

MCPorts == {9700, 9701, 9702}
=============================================================================
