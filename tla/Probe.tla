-------------------------------- MODULE Probe --------------------------------
(***************************************************************************)
(* server.rs, probe_accept_loop: the port the Blackbox Exporter connects   *)
(* to.  Every accepted connection is a task that sends the banner and then *)
(* reads until the client closes or the timeout of the whole drain is up.  *)
(* Time is in ticks and does not pass a task that could run.               *)
(***************************************************************************)
EXTENDS Naturals, FiniteSets

CONSTANTS
    Conns,                 \* connections clients may open
    Timeouts,              \* values of probe_idle_timeout; validate lets it be 0
    MAX_PROBE_CONNECTIONS

ASSUME ConnsAssumption == IsFiniteSet(Conns)
ASSUME TimeoutsAssumption == Timeouts \subseteq Nat
ASSUME SlotsAssumption == MAX_PROBE_CONNECTIONS \in Nat

VARIABLES
    cancelled,           \* the server's CancellationToken has fired
    accepting,           \* the accept loop: "accept", "sleep" (after an error), "stopped"
    permits,             \* free permits of the semaphore
    probe_idle_timeout,  \* the atomic that watch_config stores to
    conn                 \* the task of each connection

vars == <<cancelled, accepting, permits, probe_idle_timeout, conn>>

(***************************************************************************)
(* at: where the task is.  gone: its client has closed, reset or lost the  *)
(* connection.  idle_secs: its copy of the timeout.  timer: ticks left of  *)
(* the drain's timeout.  History: age, ticks since the banner.             *)
(***************************************************************************)
Task(at) == [at |-> at, gone |-> FALSE, idle_secs |-> 0, timer |-> 0, age |-> 0]

Holders == {c \in Conns : conn[c].at \in {"banner", "draining"}}
Draining == {c \in Conns : conn[c].at = "draining"}

Init ==
    /\ cancelled = FALSE
    /\ accepting = "accept"
    /\ permits = MAX_PROBE_CONNECTIONS
    /\ probe_idle_timeout \in Timeouts
    /\ conn = [c \in Conns |-> Task("unused")]

-----------------------------------------------------------------------------
(***************************************************************************)
(* Clients (external), the reload and the shutdown.                        *)
(***************************************************************************)
ClientConnects(c) ==
    /\ conn[c].at = "unused"
    /\ conn' = [conn EXCEPT ![c].at = "backlog"]
    /\ UNCHANGED <<cancelled, accepting, permits, probe_idle_timeout>>

ClientLeaves(c) ==
    /\ c \in Holders
    /\ conn' = [conn EXCEPT ![c].gone = TRUE]
    /\ UNCHANGED <<cancelled, accepting, permits, probe_idle_timeout>>

Reload ==
    /\ probe_idle_timeout' \in Timeouts \ {probe_idle_timeout}
    /\ UNCHANGED <<cancelled, accepting, permits, conn>>

Cancel ==
    /\ ~cancelled
    /\ cancelled' = TRUE
    /\ UNCHANGED <<accepting, permits, probe_idle_timeout, conn>>

-----------------------------------------------------------------------------
(***************************************************************************)
(* The accept loop.                                                        *)
(***************************************************************************)
\* try_acquire_owned: without a free permit the stream is dropped.
AlwaysFree == TRUE

PermitFree == permits > 0

Accept(c) ==
    /\ accepting = "accept"
    /\ conn[c].at = "backlog"
    /\ IF PermitFree
       THEN /\ conn' = [conn EXCEPT ![c].at = "banner", ![c].idle_secs = probe_idle_timeout]
            /\ permits' = permits - 1
       ELSE /\ conn' = [conn EXCEPT ![c].at = "closed"]
            /\ UNCHANGED permits
    /\ UNCHANGED <<cancelled, accepting, probe_idle_timeout>>

\* An accept error, the sleep after it, which does not look at the token, and
\* the token.
LoopStep(from, to) ==
    /\ accepting = from
    /\ accepting' = to
    /\ UNCHANGED <<cancelled, permits, probe_idle_timeout, conn>>

AcceptError == LoopStep("accept", "sleep")
AcceptRetry == LoopStep("sleep", "accept")
StopAccepting == cancelled /\ LoopStep("accept", "stopped")

-----------------------------------------------------------------------------
(***************************************************************************)
(* The task of a connection.                                               *)
(***************************************************************************)

\* write_all(PROBE_BANNER): a new socket has room for it.
BannerSent(c) ==
    /\ conn[c].at = "banner"
    /\ conn' = [conn EXCEPT ![c].at = "draining", ![c].timer = conn[c].idle_secs]
    /\ UNCHANGED <<cancelled, accepting, permits, probe_idle_timeout>>

\* The task returns: stream and permit are dropped.
PermitLeaks == UNCHANGED permits

ReleasePermit == permits' = permits + 1

Close(c) ==
    /\ conn' = [conn EXCEPT ![c] = Task("closed")]
    /\ ReleasePermit
    /\ UNCHANGED <<cancelled, accepting, probe_idle_timeout>>

\* The banner could not be written, or read returned 0 or an error.
ClientGone(c) == c \in Holders /\ conn[c].gone /\ Close(c)

\* read returned data: the drain goes on, under the same timeout.
TimerRestarted(c) == conn[c].idle_secs

TimerAfterRead(c) == conn[c].timer

Drain(c) ==
    /\ c \in Draining
    /\ ~conn[c].gone
    /\ conn' = [conn EXCEPT ![c].timer = TimerAfterRead(c)]
    /\ UNCHANGED <<cancelled, accepting, permits, probe_idle_timeout>>

NeverTimesOut(c) == FALSE

TimesOut(c) == c \in Draining /\ conn[c].timer = 0 /\ Close(c)

Tick ==
    /\ Draining # {} /\ Holders = Draining
    /\ \A c \in Draining : conn[c].timer > 0 /\ ~conn[c].gone
    /\ conn' = [c \in Conns |->
                  IF c \in Draining
                  THEN [conn[c] EXCEPT !.timer = @ - 1, !.age = @ + 1]
                  ELSE conn[c]]
    /\ UNCHANGED <<cancelled, accepting, permits, probe_idle_timeout>>

\* The loop has stopped and every task has ended.
Finished == accepting = "stopped" /\ Holders = {} /\ UNCHANGED vars

-----------------------------------------------------------------------------
TaskStep(c) == BannerSent(c) \/ ClientGone(c) \/ TimesOut(c)

Next ==
    \/ \E c \in Conns :
          ClientConnects(c) \/ ClientLeaves(c) \/ Accept(c) \/ TaskStep(c) \/ Drain(c)
    \/ AcceptError \/ AcceptRetry \/ StopAccepting
    \/ Reload \/ Cancel
    \/ Tick
    \/ Finished

(***************************************************************************)
(* Fairness: tasks that are ready run, time passes, and of the accept      *)
(* loop's branches that are ready again and again each is chosen.  Nothing *)
(* is assumed of clients: one may send for ever.                           *)
(***************************************************************************)
Fairness ==
    /\ \A c \in Conns : WF_vars(TaskStep(c))
    /\ WF_vars(Tick)
    /\ WF_vars(AcceptRetry)
    /\ SF_vars(StopAccepting)

Spec == Init /\ [][Next]_vars /\ Fairness

-----------------------------------------------------------------------------
(***************************************************************************)
(* Properties.                                                             *)
(***************************************************************************)

\* Types.
TypeOK ==
    /\ cancelled \in BOOLEAN
    /\ accepting \in {"accept", "sleep", "stopped"}
    /\ permits \in 0 .. MAX_PROBE_CONNECTIONS
    /\ probe_idle_timeout \in Timeouts
    /\ conn \in [Conns -> [at : {"unused", "backlog", "banner", "draining", "closed"},
                           gone : BOOLEAN, idle_secs : Nat, timer : Nat, age : Nat]]

\* Every permit is free or held by a connection whose task has not ended.
SlotsConserved == permits + Cardinality(Holders) = MAX_PROBE_CONNECTIONS

\* The time a connection has been open and the time it has left add up to the
\* timeout in force when it was accepted: neither a reload nor data from the
\* client moves the moment it is dropped.
DeadlineFixed == \A c \in Draining : conn[c].age + conn[c].timer = conn[c].idle_secs

Pool == INSTANCE SlotPool WITH Slots <- MAX_PROBE_CONNECTIONS, held <- Holders

\* The probe port is a SlotPool: it serves at most MAX_PROBE_CONNECTIONS at
\* once, and every slot comes back, also from a client that neither closes
\* nor stops sending.
ImplementsSlotPool == Pool!Spec
=============================================================================
