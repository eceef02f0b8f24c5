-------------------------- MODULE MCServerSessions --------------------------
(***************************************************************************)
(* ServerSessions for TLC.  Connections are interchangeable, and so are    *)
(* names.                                                                  *)
(***************************************************************************)
EXTENDS ServerSessions, TLC

ConnSymmetry == Permutations(Conns) \cup Permutations(Names)
=============================================================================
