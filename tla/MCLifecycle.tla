----------------------------- MODULE MCLifecycle -----------------------------
(***************************************************************************)
(* Lifecycle for TLC: two configs, so that a reload can change something.  *)
(***************************************************************************)
EXTENDS Lifecycle
=============================================================================
