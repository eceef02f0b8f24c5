---------------------------- MODULE ClientManager ----------------------------
(***************************************************************************)
(* client.rs, run_manager: one peer task per configured peer, reconciled   *)
(* with every config that arrives on the watch channel.                    *)
(*                                                                         *)
(* The peer tasks are as PeerTask describes them; ClientSession implements *)
(* it.  They are kept in the order in which they were spawned.             *)
(***************************************************************************)
EXTENDS Integers, Sequences, FiniteSets

CONSTANTS
    Names,    \* peer names
    Configs,  \* configs that pass validate: see ConfigAssumption
    MaxReloads \* bound: configs sent after the first

\* Of a config the manager reads node.name, the [client] section ("absent", or
\* its settings, which only have to be compared) and, per peer name, the
\* address ("absent" if the name is not configured).
ASSUME ConfigAssumption ==
    \A cfg \in Configs : /\ DOMAIN cfg = {"node", "client", "peers"}
                         /\ DOMAIN cfg.peers = Names
ASSUME ReloadsAssumption == MaxReloads \in Nat

VARIABLES
    value,    \* the config in the watch channel
    changed,  \* the receiver has not seen it yet
    sender,   \* the sending half exists
    reloads,  \* configs sent (bound only)
    cancel    \* the manager's CancellationToken has fired

VARIABLES
    pc,       \* "reconcile", "remove" (and spawn), "stopping", "select", "shutdown", "done"
    config,   \* the clone taken by borrow_and_update
    tasks,    \* tasks[name]: index of the peer task, 0 if there is none
    removing, \* names still to be removed (to_remove, or all at shutdown)
    awaited,  \* the task whose handle stop() awaits, 0 if none
    quitting  \* the loop has been left

VARIABLES
    spawned,  \* the peer tasks: [name, host, client, node, phase, cancelled]
    session_active \* gauge per label <<node, name>>

channelVars == <<value, changed, sender, reloads>>
managerVars == <<pc, config, tasks, removing, awaited, quitting>>
vars == <<channelVars, cancel, managerVars, spawned, session_active>>

Nodes == {cfg.node : cfg \in Configs}
Labels == Nodes \X Names
Label(t) == <<t.node, t.name>>
TaskIds == DOMAIN spawned
Running(t) == t.phase # "done"

Init ==
    /\ value \in Configs
    /\ changed = FALSE
    /\ sender = TRUE
    /\ reloads = 0
    /\ cancel = FALSE
    /\ pc = "reconcile"
    /\ config = value
    /\ tasks = [n \in Names |-> 0]
    /\ removing = {}
    /\ awaited = 0
    /\ quitting = FALSE
    /\ spawned = <<>>
    /\ session_active = [l \in Labels |-> 0]

-----------------------------------------------------------------------------
(***************************************************************************)
(* main and watch_sighup: send a reloaded config, cancel, drop the sender. *)
(***************************************************************************)
SendConfig ==
    /\ sender
    /\ reloads < MaxReloads
    /\ reloads' = reloads + 1
    /\ value' \in Configs
    /\ changed' = TRUE
    /\ UNCHANGED <<sender, cancel, managerVars, spawned, session_active>>

DropSender ==
    /\ sender
    /\ sender' = FALSE
    /\ UNCHANGED <<value, changed, reloads, cancel, managerVars, spawned, session_active>>

Cancel ==
    /\ ~cancel
    /\ cancel' = TRUE
    /\ UNCHANGED <<channelVars, managerVars, spawned, session_active>>

-----------------------------------------------------------------------------
(***************************************************************************)
(* run_manager.                                                            *)
(***************************************************************************)

UnwantedIgnoresAddress(cfg) ==
    {n \in Names : /\ tasks[n] # 0
                   /\ cfg.client = "absent" \/ cfg.peers[n] = "absent"}

UnwantedOnClientChange(cfg) ==
    {n \in Names : /\ tasks[n] # 0
                   /\ cfg.client # spawned[tasks[n]].client \/ cfg.peers[n] # spawned[tasks[n]].host}

\* Names whose task the config at hand does not want as it is: every one
\* without a [client] section, else those removed or changed.
Unwanted(cfg) ==
    {n \in Names : /\ tasks[n] # 0
                   /\ cfg.client = "absent" \/ cfg.peers[n] # spawned[tasks[n]].host}

\* borrow_and_update, and the list of tasks to stop.
Reconcile ==
    /\ pc = "reconcile"
    /\ config' = value
    /\ changed' = FALSE
    /\ removing' = Unwanted(value)
    /\ pc' = "remove"
    /\ UNCHANGED <<value, sender, reloads, cancel, tasks, awaited, quitting, spawned,
                   session_active>>

\* tasks.remove(&name) and the cancel() of PeerTask::stop.  (Where the code
\* drains the whole map first, a task leaves it here when its turn comes.)
StopTask(n) ==
    /\ pc \in {"remove", "shutdown"}
    /\ n \in removing
    /\ removing' = removing \ {n}
    /\ spawned' = [spawned EXCEPT ![tasks[n]].cancelled = TRUE]
    /\ awaited' = tasks[n]
    /\ tasks' = [tasks EXCEPT ![n] = 0]
    /\ pc' = "stopping"
    /\ UNCHANGED <<channelVars, cancel, config, quitting, session_active>>

\* The await of the task's handle in PeerTask::stop.
HandleNotAwaited == TRUE

HandleDone == ~Running(spawned[awaited])

Stopped ==
    /\ pc = "stopping"
    /\ HandleDone
    /\ awaited' = 0
    /\ pc' = IF quitting THEN "shutdown" ELSE "remove"
    /\ UNCHANGED <<channelVars, cancel, config, tasks, removing, quitting, spawned,
                   session_active>>

NewTask(n) ==
    [name |-> n, host |-> config.peers[n], client |-> config.client, node |-> config.node,
     phase |-> "idle", cancelled |-> FALSE]

\* Configured peers that have no task, none without a [client] section.
Missing ==
    {n \in Names : config.client # "absent" /\ config.peers[n] # "absent" /\ tasks[n] = 0}

SpawnTask(n) ==
    /\ pc = "remove"
    /\ removing = {}
    /\ n \in Missing
    /\ spawned' = Append(spawned, NewTask(n))
    /\ tasks' = [tasks EXCEPT ![n] = Len(spawned) + 1]
    /\ UNCHANGED <<channelVars, cancel, pc, config, removing, awaited, quitting, session_active>>

\* Everything is reconciled: on to the select.
Reconciled ==
    /\ pc = "remove"
    /\ removing = {}
    /\ Missing = {}
    /\ pc' = "select"
    /\ UNCHANGED <<channelVars, cancel, config, tasks, removing, awaited, quitting, spawned,
                   session_active>>

ReloadIgnored == FALSE

\* config_rx.changed() returned Ok.
ConfigChanged ==
    /\ pc = "select"
    /\ changed
    /\ pc' = "reconcile"
    /\ UNCHANGED <<channelVars, cancel, config, tasks, removing, awaited, quitting, spawned,
                   session_active>>

\* Either branch of the select that leaves the loop: changed() fails once the
\* sender is gone and its last config has been seen.
LeaveOnCancelOnly == cancel

LeaveLoop == cancel \/ (~sender /\ ~changed)

\* tasks.into_values() at shutdown.
Remaining == {n \in Names : tasks[n] # 0}

Quit ==
    /\ pc = "select"
    /\ LeaveLoop
    /\ quitting' = TRUE
    /\ removing' = Remaining
    /\ pc' = "shutdown"
    /\ UNCHANGED <<channelVars, cancel, config, tasks, awaited, spawned, session_active>>

Return ==
    /\ pc = "shutdown"
    /\ removing = {}
    /\ pc' = "done"
    /\ UNCHANGED <<channelVars, cancel, config, tasks, removing, awaited, quitting, spawned,
                   session_active>>

-----------------------------------------------------------------------------
(***************************************************************************)
(* The peer tasks: the actions of PeerTask for the task with index i.      *)
(***************************************************************************)
SetPhase(i, phase, active) ==
    /\ spawned' = [spawned EXCEPT ![i].phase = phase]
    /\ session_active' = [session_active EXCEPT ![Label(spawned[i])] = active]
    /\ UNCHANGED <<channelVars, cancel, managerVars>>

StartSession(i) == spawned[i].phase = "idle" /\ SetPhase(i, "session", 1)

EndSession(i) == spawned[i].phase = "session" /\ SetPhase(i, "idle", 0)

\* A task cancelled outside a session does not touch the gauge.
GaugeLeft(t) == session_active[Label(t)]

GaugeAtFinish(t) == IF t.phase = "session" THEN 0 ELSE session_active[Label(t)]

Finish(i) ==
    /\ spawned[i].cancelled
    /\ Running(spawned[i])
    /\ SetPhase(i, "done", GaugeAtFinish(spawned[i]))

Finished ==
    /\ pc = "done"
    /\ UNCHANGED vars

-----------------------------------------------------------------------------
ManagerStep ==
    \/ Reconcile
    \/ \E n \in Names : StopTask(n) \/ SpawnTask(n)
    \/ Stopped
    \/ Reconciled
    \/ ConfigChanged
    \/ Return

Next ==
    \/ SendConfig \/ DropSender \/ Cancel
    \/ ManagerStep \/ Quit
    \/ \E i \in TaskIds : StartSession(i) \/ EndSession(i) \/ Finish(i)
    \/ Finished

(***************************************************************************)
(* Fairness: the manager and the tasks are polled when they are ready, a   *)
(* cancelled task ends (PeerTask), and select! picks among ready branches  *)
(* at random, so a branch that is ready again and again is taken.          *)
(***************************************************************************)
Fairness ==
    /\ WF_vars(ManagerStep)
    /\ SF_vars(Quit)
    /\ \A i \in 1 .. (Cardinality(Names) * (MaxReloads + 1)) :
          WF_vars(i \in TaskIds /\ Finish(i))

Spec == Init /\ [][Next]_vars /\ Fairness

-----------------------------------------------------------------------------
(***************************************************************************)
(* Properties.                                                             *)
(***************************************************************************)

\* Types: the map of tasks points into the list of spawned ones.
TypeOK ==
    /\ value \in Configs /\ config \in Configs
    /\ changed \in BOOLEAN /\ sender \in BOOLEAN /\ cancel \in BOOLEAN /\ quitting \in BOOLEAN
    /\ reloads \in 0 .. MaxReloads
    /\ pc \in {"reconcile", "remove", "stopping", "select", "shutdown", "done"}
    /\ tasks \in [Names -> 0 .. Len(spawned)]
    /\ removing \subseteq {n \in Names : tasks[n] # 0}
    /\ awaited \in 0 .. Len(spawned)
    /\ (awaited # 0) <=> (pc = "stopping")
    /\ \A i \in TaskIds : /\ spawned[i].name \in Names
                          /\ spawned[i].phase \in {"idle", "session", "done"}
                          /\ spawned[i].cancelled \in BOOLEAN
    /\ session_active \in [Labels -> {0, 1}]

\* Two tasks for one peer never run at the same time, however configs follow
\* each other: a changed peer's old task is awaited before its new one is
\* spawned.
OneTaskPerPeer ==
    \A i, j \in TaskIds :
        Running(spawned[i]) /\ Running(spawned[j]) /\ spawned[i].name = spawned[j].name => i = j

\* Although old and new tasks share labels, the gauge of a label is 1 exactly
\* while some task with this label has a session.
GaugeExact ==
    \A l \in Labels :
        session_active[l] = 1 <=>
            \E i \in TaskIds : Label(spawned[i]) = l /\ spawned[i].phase = "session"

\* When the manager is back at its select, the running tasks are those of the
\* config it has last seen.
Reconciliation ==
    pc = "select" =>
        \A n \in Names :
            LET wanted == config.client # "absent" /\ config.peers[n] # "absent"
            IN  /\ wanted <=> \E i \in TaskIds : Running(spawned[i]) /\ spawned[i].name = n
                /\ wanted => spawned[tasks[n]].host = config.peers[n]

\* Sessions of peers a reload leaves as they are go on (README, hot reload):
\* a task is cancelled only to shut down or when its own entry, or [client],
\* is gone from the config at hand.
UnchangedPeersUndisturbed ==
    [][\A i \in TaskIds :
          spawned'[i].cancelled # spawned[i].cancelled =>
              \/ quitting
              \/ config.client = "absent"
              \/ config.peers[spawned[i].name] # spawned[i].host]_vars

\* A config that has arrived is applied, unless the manager is told to stop:
\* none is lost while the manager waits for a task.
ReloadApplied == changed ~> (config = value /\ ~changed) \/ cancel

\* The manager returns once it is cancelled or its config sender is dropped
\* (the doc comment of run_manager), and then no peer task is left running.
ManagerReturns ==
    (cancel \/ ~sender) ~> (pc = "done" /\ \A i \in TaskIds : ~Running(spawned[i]))

=============================================================================
