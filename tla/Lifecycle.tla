------------------------------ MODULE Lifecycle ------------------------------
(***************************************************************************)
(* main.rs with server.rs, run and watch_config: how the process starts,   *)
(* takes a SIGHUP, notices a task that stopped, shuts down and is started  *)
(* again by systemd (tcp-monitor.service).                                 *)
(*                                                                         *)
(* Tasks are spawned on a multi-threaded runtime: one may run before main  *)
(* has spawned the next, and main's steps of a shutdown interleave with    *)
(* what they cause.  The client manager and the accept loops are here only *)
(* what main and server::run see of them; ClientManager, ServerSessions    *)
(* and Probe model them.                                                   *)
(***************************************************************************)
EXTENDS Naturals, Sequences, FiniteSets

CONSTANTS
    Configs,     \* configs that load accepts
    Bad,         \* content of a file that load rejects
    MaxEvents    \* bound: SIGHUPs, edits of the config file, and failures of
                 \* tasks, binds and signal handlers, taken together

ASSUME ConfigsAssumption == Configs # {} /\ Bad \notin Configs
ASSUME MaxEventsAssumption == MaxEvents \in Nat

VARIABLES    \* main
    main,      \* the statement it is at
    exit,      \* the ExitCode so far
    early_task,
    taken      \* join handles whose result has been taken

VARIABLES    \* the tasks
    task,      \* "none", "running", "ended", "failed" (panicked, or gave up by itself)
    sighup,    \* where watch_sighup is
    blamed     \* the part server::run reported as stopped

VARIABLES    \* shared by the tasks
    cancelled, \* the CancellationToken has fired
    value,     \* the watch channel: its config,
    version,   \*   how often that was replaced,
    senders,   \*   who holds a sender
    seen,      \*   and the version each receiver has seen
    new_cfg,   \* the config watch_sighup has loaded and not yet sent
    in_force   \* the config each setting in use was taken from

VARIABLES    \* signals: handlers installed, and what they have caught
    handlers, signalled, hup

VARIABLES    \* the machine
    command,   \* what the command line of the service asks for
    file,      \* the config file
    wanted,    \* the service should run
    left       \* events the bound leaves

mainVars == <<main, exit, early_task, taken>>
taskVars == <<task, sighup, blamed>>
chanVars == <<value, version, senders, seen, new_cfg>>
sharedVars == <<cancelled, chanVars, in_force>>
sigVars == <<handlers, signalled, hup>>
machineVars == <<command, file, wanted>>
vars == <<mainVars, taskVars, sharedVars, sigVars, machineVars, left>>

None == "none"

\* The tasks main spawns, in this order, and those of server::run.
Spawned == <<"sighup", "metrics server", "server", "client manager">>
Handles == {"server", "client manager", "metrics server"}
Children == <<"heartbeat accept loop", "probe accept loop", "config watcher">>
ChildSet == {Children[i] : i \in DOMAIN Children}
Tasks == {"sighup"} \cup Handles \cup ChildSet
Receivers == {"config watcher", "client manager"}
Settings == {"heartbeat_recv_timeout", "probe_idle_timeout", "peers"}

Over == main \in {"exited", "killed", "panicked"}
Done(t) == task[t] \in {"ended", "failed"}

ArgLists == UNION {[1 .. n -> {"--config", "--help", "other"}] : n \in 0 .. 3}

\* Nothing, --config with a path or --help, and nothing after it.
parse_args(args) ==
    CASE Len(args) = 0 -> "Run"
      [] Len(args) = 2 /\ args[1] = "--config" -> "Run"
      [] Len(args) = 1 /\ args[1] = "--help" -> "Help"
      [] OTHER -> "error"

\* Configs are interchangeable: the first file may be any of them.
FirstConfig == CHOOSE c \in Configs : TRUE

Init ==
    /\ main = "args" /\ exit = None /\ early_task = None /\ taken = {}
    /\ task = [t \in Tasks |-> None] /\ sighup = "init" /\ blamed = None
    /\ cancelled = FALSE
    /\ value = Bad /\ version = 0 /\ senders = {} /\ seen = [r \in Receivers |-> 0]
    /\ new_cfg = Bad /\ in_force = [s \in Settings |-> Bad]
    /\ handlers = {} /\ signalled = FALSE /\ hup = FALSE
    /\ command \in {parse_args(args) : args \in ArgLists}
    /\ file \in {FirstConfig, Bad} /\ wanted = TRUE
    /\ left = MaxEvents

Spend(n) == left >= n /\ left' = left - n

-----------------------------------------------------------------------------
(***************************************************************************)
(* main, up to its select.                                                 *)
(***************************************************************************)
Exit(code) == main' = "exited" /\ exit' = code

\* config::load accepts the file as it is now.
Loads == file \in Configs

ParseArgs ==
    /\ main = "args"
    /\ CASE command = "Run" -> main' = "load" /\ UNCHANGED exit
         [] command = "Help" -> Exit("SUCCESS")
         [] command = "error" -> Exit("FAILURE")
    /\ UNCHANGED <<early_task, taken, taskVars, sharedVars, sigVars, machineVars, left>>

\* The watch channel is made with the config loaded, which is also where the
\* server's two timeouts come from.
LoadConfig ==
    /\ main = "load"
    /\ IF Loads
       THEN /\ main' = "bind"
            /\ value' = file
            /\ in_force' = [s \in Settings |-> IF s = "peers" THEN Bad ELSE file]
            /\ UNCHANGED exit
       ELSE Exit("FAILURE") /\ UNCHANGED <<value, in_force>>
    /\ UNCHANGED <<early_task, taken, taskVars, cancelled, version, senders, seen, new_cfg,
                   sigVars, machineVars, left>>

\* Listeners::bind and the metrics listener, before anything is spawned.
Bind ==
    /\ main = "bind"
    /\ \/ main' = "spawn" /\ UNCHANGED <<exit, left>>
       \/ Spend(1) /\ Exit("FAILURE")
    /\ UNCHANGED <<early_task, taken, taskVars, sharedVars, sigVars, machineVars>>

Spawn ==
    /\ main = "spawn"
    /\ \E i \in DOMAIN Spawned :
          /\ task[Spawned[i]] = None
          /\ \A j \in 1 .. (i - 1) : task[Spawned[j]] # None
          /\ task' = [task EXCEPT ![Spawned[i]] = "running"]
          /\ main' = IF i = Len(Spawned) THEN "select" ELSE main
          /\ senders' = IF i = 1 THEN {"main", "sighup"} ELSE senders
    /\ UNCHANGED <<exit, early_task, taken, sighup, blamed, cancelled, value, version, seen,
                   new_cfg, in_force, sigVars, machineVars, left>>

-----------------------------------------------------------------------------
(***************************************************************************)
(* main, its select and the shutdown.                                      *)
(***************************************************************************)
Shutdown == <<"cancel", "drop", "abort", "join server", "join client manager", "exited">>

After(s) == Shutdown[(CHOOSE i \in DOMAIN Shutdown : Shutdown[i] = s) + 1]

\* The first poll of cancel_token_signal.  Without a SIGTERM handler it goes
\* on with Ctrl-C only; an error of ctrl_c() resolves it.
InstallSignals ==
    /\ main = "select"
    /\ \E failing \in SUBSET {"SIGINT", "SIGTERM"} :
          /\ Spend(Cardinality(failing))
          /\ handlers' = handlers \cup ({"SIGINT", "SIGTERM"} \ failing)
          /\ IF "SIGINT" \in failing
             THEN main' = Shutdown[1] /\ exit' = "SUCCESS"
             ELSE main' = "running" /\ UNCHANGED exit
    /\ UNCHANGED <<early_task, taken, taskVars, sharedVars, signalled, hup, machineVars>>

SelectSignal ==
    /\ main = "running"
    /\ signalled
    /\ exit' = "SUCCESS"
    /\ main' = Shutdown[1]
    /\ UNCHANGED <<early_task, taken, taskVars, sharedVars, sigVars, machineVars, left>>

EarlyStopSucceeds == exit' = "SUCCESS"

EarlyStopExit == exit' = "FAILURE"

\* One of the tasks stopped: its result is taken and reported.
SelectEarlyStop(t) ==
    /\ main = "running"
    /\ Done(t)
    /\ early_task' = t
    /\ taken' = taken \cup {t}
    /\ EarlyStopExit
    /\ main' = Shutdown[1]
    /\ UNCHANGED <<taskVars, sharedVars, sigVars, machineVars, left>>

FireNothing == UNCHANGED cancelled

Fire == cancelled' = TRUE

CancelToken ==
    /\ main = "cancel"
    /\ Fire
    /\ main' = After("cancel")
    /\ UNCHANGED <<exit, early_task, taken, taskVars, chanVars, in_force, sigVars, machineVars,
                   left>>

DropConfigTx ==
    /\ main = "drop"
    /\ senders' = senders \ {"main"}
    /\ main' = After("drop")
    /\ UNCHANGED <<exit, early_task, taken, taskVars, cancelled, value, version, seen, new_cfg,
                   in_force, sigVars, machineVars, left>>

AbortMetrics ==
    /\ main = "abort"
    /\ task' = [task EXCEPT !["metrics server"] = IF @ = "running" THEN "ended" ELSE @]
    /\ main' = After("abort")
    /\ UNCHANGED <<exit, early_task, taken, sighup, blamed, sharedVars, sigVars, machineVars, left>>

Skipped(t) == early_task = t

\* Awaiting a handle whose result was taken before panics (external: tokio).
Join(t, at) ==
    /\ main = at
    /\ CASE Skipped(t) -> main' = After(at) /\ UNCHANGED <<taken, exit>>
         [] ~Skipped(t) /\ t \in taken -> main' = "panicked" /\ UNCHANGED <<taken, exit>>
         [] OTHER -> /\ Done(t)
                     /\ taken' = taken \cup {t}
                     /\ exit' = IF task[t] = "failed" THEN "FAILURE" ELSE exit
                     /\ main' = After(at)
    /\ UNCHANGED <<early_task, taskVars, sharedVars, sigVars, machineVars, left>>

MainStep ==
    \/ ParseArgs \/ LoadConfig \/ Bind \/ Spawn \/ InstallSignals
    \/ SelectSignal
    \/ \E t \in Handles : SelectEarlyStop(t)
    \/ CancelToken \/ DropConfigTx \/ AbortMetrics
    \/ Join("server", "join server") \/ Join("client manager", "join client manager")

-----------------------------------------------------------------------------
(***************************************************************************)
(* watch_sighup.                                                           *)
(***************************************************************************)
SighupAt(where) == task["sighup"] = "running" /\ sighup = where
SighupEnds == task' = [task EXCEPT !["sighup"] = "ended"] /\ senders' = senders \ {"sighup"}

InstallSighup ==
    /\ SighupAt("init")
    /\ \/ /\ handlers' = handlers \cup {"SIGHUP"} /\ sighup' = "recv"
          /\ UNCHANGED <<task, senders, left>>
       \/ Spend(1) /\ SighupEnds /\ UNCHANGED <<handlers, sighup>>
    /\ UNCHANGED <<mainVars, blamed, cancelled, value, version, seen, new_cfg, in_force,
                   signalled, hup, machineVars>>

\* Signals that came in since the last recv count as one.
SighupRecv ==
    /\ SighupAt("recv")
    /\ hup
    /\ hup' = FALSE
    /\ sighup' = "load"
    /\ UNCHANGED <<mainVars, task, blamed, sharedVars, handlers, signalled, machineVars, left>>

SighupLoad ==
    /\ SighupAt("load")
    /\ IF Loads
       THEN sighup' = "send" /\ new_cfg' = file
       ELSE sighup' = "recv" /\ UNCHANGED new_cfg
    /\ UNCHANGED <<mainVars, task, blamed, cancelled, value, version, senders, seen, in_force,
                   sigVars, machineVars, left>>

\* send fails if every receiver is gone.
SighupSend ==
    /\ SighupAt("send")
    /\ new_cfg' = Bad
    /\ IF \A r \in Receivers : Done(r)
       THEN SighupEnds /\ UNCHANGED <<sighup, value, version>>
       ELSE /\ sighup' = "recv"
            /\ value' = new_cfg /\ version' = version + 1
            /\ UNCHANGED <<task, senders>>
    /\ UNCHANGED <<mainVars, blamed, cancelled, seen, in_force, sigVars, machineVars, left>>

SighupStep == InstallSighup \/ SighupRecv \/ SighupLoad \/ SighupSend

-----------------------------------------------------------------------------
(***************************************************************************)
(* server::run, watch_config and, from outside, the accept loops and the   *)
(* client manager.                                                         *)
(***************************************************************************)

\* The watcher's receiver is a clone of the one made with the channel, which
\* has seen the initial config and no later one.
SubscribedAtStart == version

SubscribedAt == 0

ServerStarts ==
    /\ task["server"] = "running"
    /\ task[Children[1]] = None
    /\ task' = [t \in Tasks |-> IF t \in ChildSet THEN "running" ELSE task[t]]
    /\ seen' = [seen EXCEPT !["config watcher"] = SubscribedAt]
    /\ UNCHANGED <<mainVars, sighup, blamed, cancelled, value, version, senders, new_cfg,
                   in_force, sigVars, machineVars, left>>

\* The branch of the select: the token, or a child that stopped (of several,
\* any: the code takes the first, which only the log can tell).
Stopped(children) == {Children[i] : i \in {j \in children : Done(Children[j])}}

SelectUnbiased == Stopped(1 .. 3) \cup (IF cancelled THEN {None} ELSE {})
SelectWithoutWatcher == IF cancelled THEN {None} ELSE Stopped(1 .. 2)

SelectBiased == IF cancelled THEN {None} ELSE Stopped(1 .. 3)

ServerReturns ==
    /\ task["server"] = "running"
    /\ task[Children[1]] # None
    /\ blamed' \in SelectBiased
    /\ task' = [task EXCEPT !["server"] = "ended"]
    /\ UNCHANGED <<mainVars, sighup, sharedVars, sigVars, machineVars, left>>

\* borrow_and_update, and the settings of the config replace the old ones.
TakeConfig(r, settings) ==
    /\ task[r] = "running"
    /\ seen' = [seen EXCEPT ![r] = version]
    /\ in_force' = [s \in Settings |-> IF s \in settings THEN value ELSE in_force[s]]
    /\ UNCHANGED <<mainVars, taskVars, cancelled, value, version, senders, new_cfg, sigVars,
                   machineVars, left>>

\* changed() returned.  Different loops read the two timeouts, so that they
\* are two stores makes no difference.
WatchConfig ==
    /\ seen["config watcher"] # version
    /\ TakeConfig("config watcher", {"heartbeat_recv_timeout", "probe_idle_timeout"})

\* The manager also takes a config when it starts.
ManagerReloads ==
    /\ in_force["peers"] = Bad \/ seen["client manager"] # version
    /\ TakeConfig("client manager", {"peers"})

Loops == ChildSet \cup {"client manager"}

\* A loop leaves at the token; a receiver also when no sender is left.
TaskStops(t) ==
    /\ task[t] = "running"
    /\ t = "client manager" => in_force["peers"] # Bad
    /\ \/ cancelled
       \/ t \in Receivers /\ senders = {} /\ seen[t] = version
    /\ task' = [task EXCEPT ![t] = "ended"]
    /\ UNCHANGED <<mainVars, sighup, blamed, sharedVars, sigVars, machineVars, left>>

TaskFails(t) ==
    /\ task[t] = "running"
    /\ Spend(1)
    /\ task' = [task EXCEPT ![t] = "failed"]
    /\ UNCHANGED <<mainVars, sighup, blamed, sharedVars, sigVars, machineVars>>

-----------------------------------------------------------------------------
(***************************************************************************)
(* The operator, the kernel and systemd.                                   *)
(***************************************************************************)

\* systemctl reload.  Without a handler a signal kills the process.
Hangup ==
    /\ Spend(1)
    /\ IF "SIGHUP" \in handlers
       THEN hup' = TRUE /\ UNCHANGED main
       ELSE main' = "killed" /\ UNCHANGED hup
    /\ UNCHANGED <<exit, early_task, taken, taskVars, sharedVars, handlers, signalled, machineVars>>

\* systemctl stop.
Terminate ==
    /\ wanted
    /\ wanted' = FALSE
    /\ IF "SIGTERM" \in handlers
       THEN signalled' = TRUE /\ UNCHANGED main
       ELSE main' = "killed" /\ UNCHANGED signalled
    /\ UNCHANGED <<exit, early_task, taken, taskVars, sharedVars, handlers, hup, command, file, left>>

EditFile ==
    /\ Spend(1)
    /\ file' \in (Configs \cup {Bad}) \ {file}
    /\ UNCHANGED <<mainVars, taskVars, sharedVars, sigVars, command, wanted>>

\* Restart=always: a process that ended, however it did, is started again
\* unless the service was stopped.
Restart ==
    /\ Over
    /\ wanted
    /\ main' = "args" /\ exit' = None /\ early_task' = None /\ taken' = {}
    /\ task' = [t \in Tasks |-> None] /\ sighup' = "init" /\ blamed' = None
    /\ cancelled' = FALSE
    /\ value' = Bad /\ version' = 0 /\ senders' = {} /\ seen' = [r \in Receivers |-> 0]
    /\ new_cfg' = Bad /\ in_force' = [s \in Settings |-> Bad]
    /\ handlers' = {} /\ signalled' = FALSE /\ hup' = FALSE
    /\ UNCHANGED <<machineVars, left>>

ServiceStopped ==
    /\ Over
    /\ ~wanted
    /\ UNCHANGED vars

-----------------------------------------------------------------------------
Next ==
    \/ /\ ~Over
       /\ \/ MainStep
          \/ SighupStep
          \/ ServerStarts \/ ServerReturns \/ WatchConfig \/ ManagerReloads
          \/ \E t \in Loops : TaskStops(t)
          \/ \E t \in Loops \cup {"metrics server"} : TaskFails(t)
          \/ Hangup \/ Terminate
    \/ EditFile
    \/ Restart
    \/ ServiceStopped

(***************************************************************************)
(* Fairness: every task that can run is polled, and systemd restarts the   *)
(* service.  No signal, edit or fault is assumed to happen.                *)
(***************************************************************************)
Fairness ==
    /\ WF_vars(~Over /\ MainStep)
    /\ WF_vars(~Over /\ SighupStep)
    /\ WF_vars(~Over /\ (ServerStarts \/ ServerReturns))
    /\ WF_vars(~Over /\ WatchConfig)
    /\ WF_vars(~Over /\ ManagerReloads)
    /\ \A t \in Loops : WF_vars(~Over /\ TaskStops(t))
    /\ WF_vars(Restart)

Spec == Init /\ [][Next]_vars /\ Fairness

-----------------------------------------------------------------------------
(***************************************************************************)
(* Invariants.                                                             *)
(***************************************************************************)

\* Types.  There is nothing to receive a config before there is one.
TypeOK ==
    /\ main \in {"args", "load", "bind", "spawn", "select", "running", "cancel", "drop", "abort",
                 "join server", "join client manager", "exited", "killed", "panicked"}
    /\ exit \in {None, "SUCCESS", "FAILURE"}
    /\ early_task \in Handles \cup {None}
    /\ taken \subseteq Handles
    /\ task \in [Tasks -> {None, "running", "ended", "failed"}]
    /\ sighup \in {"init", "recv", "load", "send"}
    /\ blamed \in ChildSet \cup {None}
    /\ cancelled \in BOOLEAN
    /\ value \in Configs \cup {Bad}
    /\ version \in Nat
    /\ senders \subseteq {"main", "sighup"}
    /\ seen \in [Receivers -> Nat]
    /\ new_cfg \in Configs \cup {Bad}
    /\ in_force \in [Settings -> Configs \cup {Bad}]
    /\ handlers \subseteq {"SIGINT", "SIGTERM", "SIGHUP"}
    /\ signalled \in BOOLEAN /\ hup \in BOOLEAN
    /\ command \in {"Run", "Help", "error"}
    /\ file \in Configs \cup {Bad}
    /\ wanted \in BOOLEAN
    /\ left \in 0 .. MaxEvents
    /\ (\E r \in Receivers : task[r] # None) => value # Bad

\* What server::run and main report as stopped has failed: nothing that ends
\* because of the shutdown itself is taken for a failure, in whatever order
\* the token, the sender and the ends of the tasks are seen.
NoFalseAlarm ==
    /\ blamed # None => task[blamed] = "failed"
    /\ early_task = "server" => blamed # None
    /\ early_task \in {"client manager", "metrics server"} => task[early_task] = "failed"

\* The exit code tells what happened: SUCCESS for --help and for a shutdown
\* that was asked for (or that a failed ctrl_c() started), FAILURE for a
\* start that did not work and for a task that failed.  And there is one:
\* main never panics in the middle of the shutdown by awaiting a handle whose
\* result its select has taken.
ExitCodeTells ==
    /\ main # "panicked"
    /\ main = "exited" =>
        /\ exit = "SUCCESS" => command = "Help" \/ signalled \/ "SIGINT" \notin handlers
        /\ exit = "FAILURE" =>
              \/ command = "error"
              \/ \A t \in Tasks : task[t] = None
              \/ \E t \in Tasks : task[t] = "failed"

-----------------------------------------------------------------------------
(***************************************************************************)
(* Liveness.                                                               *)
(***************************************************************************)

Disturbed == Over \/ cancelled \/ \E t \in Tasks : task[t] = "failed"

\* A SIGHUP that was caught applies the file as it is: its peers and both
\* timeouts come into force, also when it comes before the manager or the
\* watcher has started and when several come at once, unless the file is
\* changed again first or the process is on its way out.
ReloadTakesEffect ==
    \A c \in Configs :
        (hup /\ file = c) ~>
            (file # c \/ Disturbed \/ \A s \in Settings : in_force[s] = c)

\* SIGTERM ends the process, whatever it is at and whatever has failed.
StopsWhenTold == ~wanted ~> Over

Complete == main = "running" /\ \A t \in Handles \cup ChildSet : task[t] = "running"

\* Whichever supervised task fails, and however often, a service that should
\* run is complete again in the end, if its config file is valid: no failure
\* leaves a process that goes on without one of its parts.
Recovers == command = "Run" => <>[](Complete \/ ~wanted \/ file = Bad)

=============================================================================
