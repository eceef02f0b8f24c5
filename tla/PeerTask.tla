------------------------------ MODULE PeerTask ------------------------------
(***************************************************************************)
(* What the rest of the program relies on in one outbound peer task (the   *)
(* future run_peer_loop): it has at most one session at a time, its        *)
(* session gauge is 1 exactly while that session is live, and a task that  *)
(* has been cancelled ends, leaving the gauge at 0.                        *)
(***************************************************************************)
EXTENDS Integers

VARIABLES
    phase,          \* "idle" (connecting or backing off), "session", "done"
    session_active, \* the tcp_monitor_client_session_active gauge
    cancelled       \* the task's CancellationToken has fired

vars == <<phase, session_active, cancelled>>

Init ==
    /\ phase = "idle"
    /\ session_active = 0
    /\ cancelled = FALSE

StartSession ==
    /\ phase = "idle"
    /\ phase' = "session"
    /\ session_active' = 1
    /\ UNCHANGED cancelled

EndSession ==
    /\ phase = "session"
    /\ phase' = "idle"
    /\ session_active' = 0
    /\ UNCHANGED cancelled

RequestCancel ==
    /\ ~cancelled
    /\ cancelled' = TRUE
    /\ UNCHANGED <<phase, session_active>>

Finish ==
    /\ cancelled
    /\ phase # "done"
    /\ phase' = "done"
    /\ session_active' = 0
    /\ UNCHANGED cancelled

Next == StartSession \/ EndSession \/ RequestCancel \/ Finish

Spec == Init /\ [][Next]_vars /\ WF_vars(Finish)
=============================================================================
