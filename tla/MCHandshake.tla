----------------------------- MODULE MCHandshake -----------------------------
(***************************************************************************)
(* Handshake for TLC: characters of one and of two bytes, safe and not,    *)
(* and, as in the code, room in bytes for the characters kept at their     *)
(* widest.                                                                 *)
(***************************************************************************)
EXTENDS Handshake

MCWidth == [c \in {"a", "!", "ae"} |-> IF c = "ae" THEN 2 ELSE 1]
MCSafe == {"a", "ae"}
=============================================================================
