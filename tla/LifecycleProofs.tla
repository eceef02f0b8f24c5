--------------------------- MODULE LifecycleProofs ---------------------------
(***************************************************************************)
(* main.rs and server::run for any configs and any number of signals,      *)
(* edits, failures and restarts: what is reported as failed has failed,    *)
(* main never awaits a handle twice, and the exit code tells what          *)
(* happened.                                                               *)
(***************************************************************************)
EXTENDS Lifecycle, FiniteSetTheorems, TLAPS

USE ConfigsAssumption, MaxEventsAssumption
USE DEF mainVars, taskVars, chanVars, sharedVars, sigVars, machineVars, None

-----------------------------------------------------------------------------
(***************************************************************************)
(* The model's tables.                                                     *)
(***************************************************************************)

\* The tasks, by name.
LEMMA TaskNames ==
    /\ Children[1] = "heartbeat accept loop" /\ Children[2] = "probe accept loop"
    /\ Children[3] = "config watcher"
    /\ ChildSet = {"heartbeat accept loop", "probe accept loop", "config watcher"}
    /\ Loops = {"heartbeat accept loop", "probe accept loop", "config watcher", "client manager"}
    /\ Tasks = {"sighup", "server", "client manager", "metrics server", "heartbeat accept loop",
                "probe accept loop", "config watcher"}
<1>1. DOMAIN Children = {1, 2, 3}
  BY DEF Children
<1>2. /\ Children[1] = "heartbeat accept loop" /\ Children[2] = "probe accept loop"
      /\ Children[3] = "config watcher"
  BY DEF Children
<1>3. ChildSet = {"heartbeat accept loop", "probe accept loop", "config watcher"}
  BY <1>1, <1>2 DEF ChildSet
<1>4. QED
  BY <1>2, <1>3 DEF Loops, Tasks, Handles

\* Which of them are which.
LEMMA TaskKinds ==
    /\ ChildSet \subseteq Loops /\ Loops \subseteq Tasks
    /\ "server" \in Tasks \ (Loops \cup {"metrics server", "sighup"})
    /\ "sighup" \in Tasks \ (Loops \cup {"metrics server"})
    /\ "metrics server" \in Tasks \ Loops
    /\ None \notin Tasks
BY TaskNames

\* The order in which main spawns them.
LEMMA SpawnOrder ==
    /\ DOMAIN Spawned = 1 .. 4 /\ Len(Spawned) = 4
    /\ Spawned[1] = "sighup" /\ Spawned[2] = "metrics server" /\ Spawned[3] = "server"
    /\ Spawned[4] = "client manager"
BY DEF Spawned

\* The order of the shutdown.
LEMMA ShutdownOrder ==
    /\ Shutdown[1] = "cancel" /\ After("cancel") = "drop" /\ After("drop") = "abort"
    /\ After("abort") = "join server" /\ After("join server") = "join client manager"
    /\ After("join client manager") = "exited"
<1>1. DOMAIN Shutdown = 1 .. 6
  BY DEF Shutdown
<1>2. /\ Shutdown[1] = "cancel" /\ Shutdown[2] = "drop" /\ Shutdown[3] = "abort"
      /\ Shutdown[4] = "join server" /\ Shutdown[5] = "join client manager" /\ Shutdown[6] = "exited"
  BY DEF Shutdown
<1>3. \A i \in DOMAIN Shutdown : i = 1 \/ i = 2 \/ i = 3 \/ i = 4 \/ i = 5 \/ i = 6
  BY <1>1
<1>4. ASSUME NEW k \in DOMAIN Shutdown, k + 1 \in DOMAIN Shutdown
      PROVE  After(Shutdown[k]) = Shutdown[k + 1]
  <2>1. \A i \in DOMAIN Shutdown : Shutdown[i] = Shutdown[k] => i = k
    BY <1>2, <1>3
  <2>2. (CHOOSE i \in DOMAIN Shutdown : Shutdown[i] = Shutdown[k]) = k
    BY <2>1
  <2>3. QED
    BY <2>2 DEF After
<1>5. /\ After(Shutdown[1]) = Shutdown[2] /\ After(Shutdown[2]) = Shutdown[3]
      /\ After(Shutdown[3]) = Shutdown[4] /\ After(Shutdown[4]) = Shutdown[5]
      /\ After(Shutdown[5]) = Shutdown[6]
  <2>1. After(Shutdown[1]) = Shutdown[1 + 1] /\ After(Shutdown[2]) = Shutdown[2 + 1]
    BY <1>1, <1>4
  <2>2. After(Shutdown[3]) = Shutdown[3 + 1] /\ After(Shutdown[4]) = Shutdown[4 + 1]
    BY <1>1, <1>4
  <2>3. After(Shutdown[5]) = Shutdown[5 + 1]
    BY <1>1, <1>4
  <2>4. QED
    BY <2>1, <2>2, <2>3
<1>6. QED
  BY <1>2, <1>5

\* The command line is one of three.
LEMMA Commands == \A args : parse_args(args) \in {"Run", "Help", "error"}
BY DEF parse_args

\* What server::run can blame.
LEMMA Blamable ==
    /\ cancelled => SelectBiased = {None}
    /\ ~cancelled => SelectBiased = {t \in ChildSet : Done(t)}
<1>1. Stopped(1 .. 3) = {t \in ChildSet : Done(t)}
  <2>1. \A i \in 1 .. 3 : i = 1 \/ i = 2 \/ i = 3
    OBVIOUS
  <2>2. DOMAIN Children = 1 .. 3
    BY DEF Children
  <2>3. QED
    BY <2>2 DEF Stopped, ChildSet
<1>2. QED
  BY <1>1 DEF SelectBiased

\* The branches of main's awaits.
LEMMA JoinCases ==
    ASSUME NEW t, NEW at, Join(t, at)
    PROVE  \/ early_task = t /\ main' = After(at) /\ UNCHANGED <<taken, exit>>
           \/ early_task # t /\ t \in taken /\ main' = "panicked" /\ UNCHANGED <<taken, exit>>
           \/ /\ early_task # t /\ Done(t) /\ taken' = taken \cup {t}
              /\ exit' = IF task[t] = "failed" THEN "FAILURE" ELSE exit
              /\ main' = After(at)
BY Zenon DEF Join, Skipped

\* The branches of parse_args.
LEMMA ParseCases ==
    ASSUME ParseArgs, command \in {"Run", "Help", "error"}
    PROVE  \/ command = "Run" /\ main' = "load" /\ exit' = exit
           \/ command = "Help" /\ main' = "exited" /\ exit' = "SUCCESS"
           \/ command = "error" /\ main' = "exited" /\ exit' = "FAILURE"
BY DEF ParseArgs, Exit

-----------------------------------------------------------------------------
(***************************************************************************)
(* The inductive invariant.                                                *)
(***************************************************************************)
Early == {"args", "load", "bind", "spawn", "select", "running"}
Late == {"drop", "abort", "join server", "join client manager"}

\* watch_sighup has loaded a config that it has yet to send.
Sending == sighup = "send" /\ task["sighup"] # "ended"

\* What has happened by the time main is at a statement.
Placed ==
    /\ main \in Early => exit = None /\ early_task = None /\ taken = {} /\ ~cancelled
    /\ main \in Early \ {"running"} => "SIGINT" \notin handlers
    /\ main \in {"args", "load", "bind"} => \A t \in Tasks : task[t] = None
    /\ main \in Late => cancelled
    /\ main \in {"cancel", "drop", "abort", "join server"} => taken \subseteq {early_task}
    /\ main = "join client manager" => taken \subseteq {early_task, "server"}
    /\ ~Over /\ main \notin {"args", "load"} => value \in Configs
    /\ Sending => new_cfg \in Configs

\* Nothing ends by itself before the token has fired: until then main holds a
\* sender, so that no receiver sees the channel close.
EndsMeanCancel ==
    /\ (\E t \in Tasks : task[t] # None) => task["sighup"] # None
    /\ \A t, u \in ChildSet : task[t] = None => task[u] = None
    /\ task["server"] # "failed"
    /\ ~cancelled =>
          /\ task["sighup"] # None => "main" \in senders
          /\ \A t \in Loops \cup {"metrics server"} : task[t] # "ended"
          /\ task["server"] = "ended" => blamed # None

\* What main has reported as stopped stays stopped.
ReportedIsOver == early_task # None => Done(early_task)

\* ExitCodeTells while main is on its way.
ExitTells ==
    /\ main # "panicked"
    /\ exit = "SUCCESS" => command = "Help" \/ signalled \/ "SIGINT" \notin handlers
    /\ exit = "FAILURE" => \/ command = "error"
                           \/ main = "exited" /\ \A t \in Tasks : task[t] = None
                           \/ \E t \in Tasks : task[t] = "failed"

IInv == TypeOK /\ Placed /\ EndsMeanCancel /\ ReportedIsOver /\ NoFalseAlarm /\ ExitTells

-----------------------------------------------------------------------------
(***************************************************************************)
(* How tasks come and go.                                                  *)
(***************************************************************************)

\* Within one life of the process a task starts once and ends once.
Forward(t) ==
    \/ task'[t] = task[t]
    \/ task[t] = None /\ task'[t] = "running"
    \/ task[t] = "running" /\ task'[t] \in {"ended", "failed"}

Working ==
    \/ MainStep \/ SighupStep
    \/ ServerStarts \/ ServerReturns \/ WatchConfig \/ ManagerReloads
    \/ \E t \in Loops : TaskStops(t)
    \/ \E t \in Loops \cup {"metrics server"} : TaskFails(t)
    \/ Hangup \/ Terminate

\* No step but Restart takes a task back.
LEMMA TasksMoveForward ==
    ASSUME TypeOK, EndsMeanCancel, Working
    PROVE  task' \in [Tasks -> {None, "running", "ended", "failed"}] /\ \A t \in Tasks : Forward(t)
<1>1. task \in [Tasks -> {None, "running", "ended", "failed"}]
  BY DEF TypeOK
<1>2. CASE UNCHANGED task
  BY <1>1, <1>2 DEF Forward
<1>3. ASSUME NEW t \in Tasks, NEW v \in {None, "running", "ended", "failed"},
             task' = [task EXCEPT ![t] = v],
             \/ v = task[t]
             \/ task[t] = None /\ v = "running"
             \/ task[t] = "running" /\ v \in {"ended", "failed"}
      PROVE  task' \in [Tasks -> {None, "running", "ended", "failed"}] /\ \A u \in Tasks : Forward(u)
  BY <1>1, <1>3 DEF Forward
<1>4. CASE Spawn
  <2>1. PICK k \in DOMAIN Spawned :
              task[Spawned[k]] = None /\ task' = [task EXCEPT ![Spawned[k]] = "running"]
    BY <1>4 DEF Spawn
  <2>2. Spawned[k] \in Tasks
    <3>1. k \in 1 .. 4
      BY <2>1, SpawnOrder, Zenon
    <3>2. k = 1 \/ k = 2 \/ k = 3 \/ k = 4
      BY <3>1
    <3>3. QED
      BY <3>2, SpawnOrder, TaskNames
  <2>3. QED
    BY <1>3, <2>1, <2>2
<1>5. CASE AbortMetrics
  <2>1. task' = [task EXCEPT !["metrics server"] =
                    IF task["metrics server"] = "running" THEN "ended" ELSE task["metrics server"]]
    BY <1>5 DEF AbortMetrics
  <2>2. "metrics server" \in Tasks
    BY TaskNames
  <2>3. CASE task["metrics server"] = "running"
    BY <1>3, <2>1, <2>2, <2>3
  <2>4. CASE task["metrics server"] # "running"
    BY <1>1, <1>2, <2>1, <2>2, <2>4
  <2>5. QED
    BY <2>3, <2>4
<1>6. CASE InstallSighup \/ SighupSend
  BY <1>1, <1>6, TaskNames DEF InstallSighup, SighupSend, SighupAt, SighupEnds, Forward
<1>7. CASE ServerStarts
  <2>1. \A t \in ChildSet : task[t] = None
    BY <1>7, TaskNames DEF ServerStarts, EndsMeanCancel
  <2>2. QED
    BY <1>1, <1>7, <2>1 DEF ServerStarts, Forward
<1>8. CASE ServerReturns
  BY <1>1, <1>8, TaskNames DEF ServerReturns, Forward
<1>9. ASSUME NEW t \in Tasks, TaskStops(t) \/ TaskFails(t)
      PROVE  task' \in [Tasks -> {None, "running", "ended", "failed"}] /\ \A u \in Tasks : Forward(u)
  BY <1>3, <1>9 DEF TaskStops, TaskFails
<1>10. CASE ParseArgs \/ LoadConfig \/ Bind \/ InstallSignals \/ SelectSignal
            \/ (\E t \in Handles : SelectEarlyStop(t)) \/ CancelToken \/ DropConfigTx
            \/ Join("server", "join server") \/ Join("client manager", "join client manager")
  BY <1>2, <1>10
  DEF ParseArgs, LoadConfig, Bind, InstallSignals, SelectSignal, SelectEarlyStop, CancelToken,
      DropConfigTx, Join
<1>11. CASE SighupRecv \/ SighupLoad \/ WatchConfig \/ ManagerReloads \/ Hangup \/ Terminate
  BY <1>2, <1>11 DEF SighupRecv, SighupLoad, WatchConfig, ManagerReloads, TakeConfig, Hangup, Terminate
<1>12. Loops \cup {"metrics server"} \subseteq Tasks
  BY TaskNames
<1>13. QED
  BY <1>4, <1>5, <1>6, <1>7, <1>8, <1>9, <1>10, <1>11, <1>12 DEF Working, MainStep, SighupStep

-----------------------------------------------------------------------------
(***************************************************************************)
(* main's place.                                                           *)
(***************************************************************************)

\* The steps of main that have one outcome, and where they lead.
LEMMA PlacedStep ==
    ASSUME IInv, ~Over, Working
    PROVE  Placed'
<1> USE DEF Placed, Sending, Early, Late, Over, SighupAt
<1>1. TypeOK /\ Placed /\ EndsMeanCancel /\ ExitTells /\ "sighup" \in Tasks
  BY TaskNames DEF IInv
<1>2. \A t \in Tasks : Forward(t)
  BY <1>1, TasksMoveForward
<1>3. \A t \in Tasks : task[t] # None => task'[t] # None
  BY <1>2 DEF Forward
<1>4. CASE ParseArgs
  <2>1. UNCHANGED <<early_task, taken, taskVars, sharedVars, sigVars, machineVars, left>> /\ main = "args"
    BY <1>4 DEF ParseArgs
  <2>2. (main' = "load" /\ exit' = exit) \/ main' = "exited"
    BY <1>1, <1>4, ParseCases DEF TypeOK
  <2>3. QED
    BY <1>1, <2>1, <2>2
<1>5. CASE LoadConfig
  BY <1>1, <1>5 DEF LoadConfig, Loads, Exit
<1>6. CASE Bind
  BY <1>1, <1>6 DEF Bind, Exit
<1>7. CASE Spawn
  <2>1. main = "spawn" /\ main' \in {"spawn", "select"}
    BY <1>7 DEF Spawn
  <2>2. /\ UNCHANGED <<exit, early_task, taken, sighup, blamed, cancelled, value, version, seen,
                       new_cfg, in_force, sigVars, machineVars, left>>
    BY <1>7 DEF Spawn
  <2>3. Sending' => new_cfg \in Configs
    BY <1>1, <1>2, <2>2 DEF Forward
  <2>4. QED
    BY <1>1, <2>1, <2>2, <2>3
<1>8. CASE InstallSignals
  BY <1>1, <1>8, ShutdownOrder DEF InstallSignals
<1>9. CASE SelectSignal
  BY <1>1, <1>9, ShutdownOrder DEF SelectSignal
<1>10. ASSUME NEW t \in Handles, SelectEarlyStop(t)
       PROVE  Placed'
  BY <1>1, <1>10, ShutdownOrder DEF SelectEarlyStop
<1>11. CASE CancelToken
  BY <1>1, <1>11, ShutdownOrder DEF CancelToken, Fire
<1>12. CASE DropConfigTx
  BY <1>1, <1>12, ShutdownOrder DEF DropConfigTx
<1>13. CASE AbortMetrics
  <2>1. task'["sighup"] = task["sighup"]
    BY <1>1, <1>13, TaskNames DEF AbortMetrics, TypeOK
  <2>2. QED
    BY <1>1, <1>13, <2>1, ShutdownOrder DEF AbortMetrics
<1>14. CASE Join("server", "join server")
  <2>1. /\ UNCHANGED <<early_task, taskVars, sharedVars, sigVars, machineVars, left>>
        /\ main = "join server"
    BY <1>14 DEF Join
  <2>2. \/ main' = "join client manager" /\ taken' \subseteq taken \cup {"server"}
        \/ main' = "panicked"
    BY <1>14, JoinCases, ShutdownOrder
  <2>3. QED
    BY <1>1, <2>1, <2>2
<1>15. CASE Join("client manager", "join client manager")
  <2>1. UNCHANGED <<early_task, taskVars, sharedVars, sigVars, machineVars, left>>
    BY <1>15 DEF Join
  <2>2. main' = "exited" \/ main' = "panicked"
    BY <1>15, JoinCases, ShutdownOrder
  <2>3. QED
    BY <1>1, <2>1, <2>2
<1>16. ASSUME UNCHANGED <<mainVars, cancelled>>, handlers' \subseteq handlers \cup {"SIGHUP"},
              \E t \in Tasks : task[t] = "running",
              value \in Configs => value' \in Configs,
              Sending' => new_cfg' \in Configs
       PROVE  Placed'
  <2>1. main \notin {"args", "load", "bind"}
    BY <1>1, <1>16
  <2>2. QED
    BY <1>1, <1>16, <2>1
<1>17. CASE InstallSighup
  BY <1>1, <1>16, <1>17 DEF InstallSighup, SighupEnds
<1>18. CASE SighupRecv \/ SighupLoad
  <2>1. Sending' => new_cfg' \in Configs
    BY <1>18 DEF SighupRecv, SighupLoad, Loads
  <2>2. QED
    BY <1>1, <1>16, <1>18, <2>1 DEF SighupRecv, SighupLoad
<1>19. CASE SighupSend
  <2>1. new_cfg \in Configs /\ sighup' \in {"send", "recv"} /\ value' \in {value, new_cfg}
    BY <1>1, <1>19 DEF SighupSend
  <2>2. ~Sending'
    <3>1. sighup' = "recv" \/ task' = [task EXCEPT !["sighup"] = "ended"]
      BY <1>19 DEF SighupSend, SighupEnds
    <3>2. QED
      BY <1>1, <3>1 DEF TypeOK
  <2>3. QED
    BY <1>1, <1>16, <1>19, <2>1, <2>2 DEF SighupSend
<1>20. ASSUME UNCHANGED <<mainVars, cancelled, handlers, value, new_cfg, sighup>>,
              \E t \in Tasks : task[t] = "running", task'["sighup"] = task["sighup"]
       PROVE  Placed'
  BY <1>1, <1>16, <1>20
<1>21. CASE ServerStarts \/ ServerReturns
  <2>1. "server" \in Tasks /\ "sighup" \notin ChildSet
    BY TaskNames
  <2>2. task'["sighup"] = task["sighup"]
    BY <1>1, <1>21, <2>1 DEF ServerStarts, ServerReturns, TypeOK
  <2>3. QED
    BY <1>20, <1>21, <2>1, <2>2 DEF ServerStarts, ServerReturns
<1>22. CASE WatchConfig \/ ManagerReloads
  <2>1. "config watcher" \in Tasks /\ "client manager" \in Tasks
    BY TaskNames
  <2>2. QED
    BY <1>20, <1>22, <2>1 DEF WatchConfig, ManagerReloads, TakeConfig
<1>23. ASSUME NEW t \in Loops \cup {"metrics server"}, TaskStops(t) \/ TaskFails(t)
       PROVE  Placed'
  <2>1. t \in Tasks /\ t # "sighup"
    BY TaskNames
  <2>2. task'["sighup"] = task["sighup"]
    BY <1>1, <1>23, <2>1 DEF TaskStops, TaskFails, TypeOK
  <2>3. QED
    BY <1>20, <1>23, <2>1, <2>2 DEF TaskStops, TaskFails
<1>24. CASE Hangup \/ Terminate
  <2>1. main' \in {main, "killed"}
    BY <1>24 DEF Hangup, Terminate
  <2>2. UNCHANGED <<exit, early_task, taken, taskVars, sharedVars, handlers>>
    BY <1>24 DEF Hangup, Terminate
  <2>3. QED
    BY <1>1, <2>1, <2>2
<1>25. QED
  BY <1>4, <1>5, <1>6, <1>7, <1>8, <1>9, <1>10, <1>11, <1>12, <1>13, <1>14, <1>15, <1>17, <1>18,
     <1>19, <1>21, <1>22, <1>23, <1>24
  DEF Working, MainStep, SighupStep

-----------------------------------------------------------------------------
(***************************************************************************)
(* Who ends, and why.                                                      *)
(***************************************************************************)

\* main drops its sender after it has fired the token, so a loop that ends
\* while the token has not fired has failed.
LEMMA EndsStep ==
    ASSUME IInv, ~Over, Working
    PROVE  EndsMeanCancel'
<1> USE DEF EndsMeanCancel
<1>1. TypeOK /\ Placed /\ EndsMeanCancel
  BY DEF IInv
<1>2. task \in [Tasks -> {None, "running", "ended", "failed"}]
  BY DEF IInv, TypeOK
<1>3. ASSUME \A t \in Tasks : task'[t] = None <=> task[t] = None,
             task'["server"] # "failed",
             \/ cancelled'
             \/ /\ ~cancelled
                /\ "main" \in senders => "main" \in senders'
                /\ \A t \in Loops \cup {"metrics server"} : task'[t] = "ended" => task[t] = "ended"
                /\ \/ blamed' # None
                   \/ (task'["server"] = "ended" => task["server"] = "ended") /\ blamed' = blamed
      PROVE  EndsMeanCancel'
  <2>1. (\E t \in Tasks : task'[t] # None) => task'["sighup"] # None
    BY <1>1, <1>3, TaskKinds
  <2>2. \A t, u \in ChildSet : task'[t] = None => task'[u] = None
    BY <1>1, <1>3, TaskKinds
  <2>3. ~cancelled' => \A t \in Loops \cup {"metrics server"} : task'[t] # "ended"
    BY <1>1, <1>3
  <2>4. ~cancelled' => /\ task'["sighup"] # None => "main" \in senders'
                       /\ task'["server"] = "ended" => blamed' # None
    BY <1>1, <1>3, TaskKinds
  <2>5. QED
    BY <1>3, <2>1, <2>2, <2>3, <2>4
<1>3a. ASSUME UNCHANGED <<task, blamed, cancelled>>, "main" \in senders => "main" \in senders'
       PROVE  EndsMeanCancel'
  BY <1>1, <1>3a
<1>4. CASE ParseArgs \/ LoadConfig \/ Bind \/ InstallSignals \/ SelectSignal
           \/ \E t \in Handles : SelectEarlyStop(t)
  BY <1>3a, <1>4 DEF ParseArgs, LoadConfig, Bind, InstallSignals, SelectSignal, SelectEarlyStop
<1>5. CASE Join("server", "join server") \/ Join("client manager", "join client manager")
  BY <1>3a, <1>5 DEF Join
<1>6. CASE SighupRecv \/ SighupLoad \/ WatchConfig \/ ManagerReloads \/ Hangup \/ Terminate
  BY <1>3a, <1>6 DEF SighupRecv, SighupLoad, WatchConfig, ManagerReloads, TakeConfig, Hangup, Terminate
<1>7. CASE Spawn
  <2>1. PICK k \in DOMAIN Spawned :
              /\ task[Spawned[k]] = None
              /\ \A j \in 1 .. (k - 1) : task[Spawned[j]] # None
              /\ task' = [task EXCEPT ![Spawned[k]] = "running"]
              /\ senders' = IF k = 1 THEN {"main", "sighup"} ELSE senders
    BY <1>7 DEF Spawn
  <2>2. k \in 1 .. 4
    BY <2>1, SpawnOrder, Zenon
  <2>3. k = 1 \/ k = 2 \/ k = 3 \/ k = 4
    BY <2>2
  <2>4. k # 1 => task["sighup"] # None
    <3>1. k # 1 => 1 \in 1 .. (k - 1)
      BY <2>3
    <3>2. QED
      BY <2>1, <3>1, SpawnOrder
  <2>5. PICK t \in {"sighup", "metrics server", "server", "client manager"} :
              t = Spawned[k] /\ (k = 1 <=> t = "sighup")
    BY <2>3, SpawnOrder
  <2>6. UNCHANGED <<cancelled, blamed>>
    BY <1>7 DEF Spawn
  <2>7. t \in Tasks /\ t \notin ChildSet
    BY TaskNames
  <2>8. task'[t] = "running" /\ \A u \in Tasks : u # t => task'[u] = task[u]
    BY <1>2, <2>1, <2>5, <2>7
  <2>9. task'["sighup"] # None
    BY <2>4, <2>5, <2>8, TaskNames
  <2>10. \A u \in ChildSet : task'[u] = task[u]
    BY <2>7, <2>8, TaskNames
  <2>11. "main" \in senders' \/ (task["sighup"] # None /\ senders' = senders)
    BY <2>1, <2>4
  <2>12. \A u \in Loops \cup {"metrics server"} : task'[u] = "ended" => task[u] = "ended"
    BY <2>8, TaskKinds
  <2>13. task'["server"] \in {"running", task["server"]}
    BY <2>8, TaskKinds
  <2>14. \A u, v \in ChildSet : task'[u] = None => task'[v] = None
    BY <1>1, <2>10
  <2>15. ~cancelled => /\ "main" \in senders'
                       /\ \A u \in Loops \cup {"metrics server"} : task'[u] # "ended"
                       /\ task'["server"] = "ended" => blamed # None
    BY <1>1, <2>11, <2>12, <2>13
  <2>16. QED
    BY <1>1, <2>6, <2>9, <2>13, <2>14, <2>15
<1>8. CASE CancelToken
  BY <1>1, <1>8 DEF CancelToken, Fire
<1>9. CASE DropConfigTx
  BY <1>1, <1>9 DEF DropConfigTx, Placed, Late
<1>10. ASSUME NEW t \in Tasks, NEW v \in {"ended", "failed"}, task[t] = "running",
              task' = [task EXCEPT ![t] = v], UNCHANGED cancelled
       PROVE  /\ task'[t] = v /\ \A u \in Tasks : u # t => task'[u] = task[u]
              /\ \A u \in Tasks : task'[u] = None <=> task[u] = None
  BY <1>2, <1>10
<1>11. CASE AbortMetrics
  <2>1. CASE task["metrics server"] = "running"
    <3>1. cancelled /\ cancelled'
      BY <1>1, <1>11 DEF AbortMetrics, Placed, Late
    <3>2. task' = [task EXCEPT !["metrics server"] = "ended"] /\ UNCHANGED cancelled
      BY <1>11, <2>1 DEF AbortMetrics
    <3>3. QED
      BY <1>1, <1>3, <1>10, <2>1, <3>1, <3>2, TaskKinds
  <2>2. CASE task["metrics server"] # "running"
    <3>1. task' = task
      BY <1>2, <1>11, <2>2 DEF AbortMetrics
    <3>2. QED
      BY <1>1, <1>11, <3>1 DEF AbortMetrics
  <2>3. QED
    BY <2>1, <2>2
<1>12. CASE InstallSighup \/ SighupSend
  <2>1. UNCHANGED <<blamed, cancelled>> /\ task["sighup"] = "running"
    BY <1>12 DEF InstallSighup, SighupSend, SighupAt
  <2>2. CASE task' = task /\ senders' = senders
    BY <1>1, <2>1, <2>2
  <2>3. CASE task' = [task EXCEPT !["sighup"] = "ended"] /\ senders' = senders \ {"sighup"}
    <3>1. /\ task'["server"] = task["server"]
          /\ \A t \in Loops \cup {"metrics server"} : task'[t] = task[t]
          /\ \A t \in Tasks : task'[t] = None <=> task[t] = None
      BY <1>10, <2>1, <2>3, TaskKinds
    <3>2. QED
      BY <1>1, <1>3, <2>1, <2>3, <3>1
  <2>4. QED
    BY <1>12, <2>2, <2>3 DEF InstallSighup, SighupSend, SighupEnds
<1>13. CASE ServerStarts
  <2>1. task["server"] = "running" /\ UNCHANGED <<blamed, cancelled, senders>>
    BY <1>13 DEF ServerStarts
  <2>2. \A t \in Tasks : task'[t] = IF t \in ChildSet THEN "running" ELSE task[t]
    BY <1>13 DEF ServerStarts
  <2>3. task["sighup"] # None
    BY <1>1, <2>1, TaskKinds
  <2>4. task'["sighup"] # None /\ task'["server"] = "running"
    BY <2>1, <2>2, <2>3, TaskKinds
  <2>5. \A t \in Loops \cup {"metrics server"} : task'[t] = "ended" => task[t] = "ended"
    BY <2>2, TaskKinds
  <2>6. \A t \in ChildSet : task'[t] # None
    BY <2>2, TaskKinds
  <2>7. QED
    BY <1>1, <2>1, <2>3, <2>4, <2>5, <2>6
<1>14. CASE ServerReturns
  <2>1. UNCHANGED <<cancelled, senders>> /\ task["server"] = "running"
    BY <1>14 DEF ServerReturns
  <2>2. /\ task'["server"] = "ended" /\ \A t \in Tasks : t # "server" => task'[t] = task[t]
        /\ \A t \in Tasks : task'[t] = None <=> task[t] = None
    BY <1>2, <1>14, TaskKinds DEF ServerReturns
  <2>3. ~cancelled => blamed' # None
    BY <1>14, Blamable, TaskNames DEF ServerReturns
  <2>4. \A t \in Loops \cup {"metrics server"} : task'[t] = task[t]
    BY <2>2, TaskKinds
  <2>5. QED
    BY <1>3, <2>1, <2>2, <2>3, <2>4
<1>15. ASSUME NEW t \in Loops, TaskStops(t)
       PROVE  EndsMeanCancel'
  <2>1. t \in Tasks /\ t # "server" /\ UNCHANGED <<blamed, cancelled, senders>>
    BY <1>15, TaskKinds DEF TaskStops
  <2>2. task[t] = "running" /\ task' = [task EXCEPT ![t] = "ended"]
    BY <1>15 DEF TaskStops
  <2>3. cancelled
    <3>1. task["sighup"] # None
      BY <1>1, <2>1, <2>2
    <3>2. QED
      BY <1>1, <1>15, <3>1 DEF TaskStops
  <2>4. \A u \in Tasks : task'[u] = None <=> task[u] = None
    BY <1>10, <2>1, <2>2
  <2>5. task'["server"] # "failed"
    BY <1>1, <1>10, <2>1, <2>2, TaskKinds
  <2>6. QED
    BY <1>3, <2>1, <2>3, <2>4, <2>5
<1>16. ASSUME NEW t \in Loops \cup {"metrics server"}, TaskFails(t)
       PROVE  EndsMeanCancel'
  <2>1. t \in Tasks /\ t # "server" /\ UNCHANGED <<blamed, cancelled, senders>>
    BY <1>16, TaskKinds DEF TaskFails
  <2>2. task[t] = "running" /\ task' = [task EXCEPT ![t] = "failed"]
    BY <1>16 DEF TaskFails
  <2>3. \A u \in Tasks : /\ task'[u] = None <=> task[u] = None
                         /\ task'[u] = "ended" => task[u] = "ended"
    BY <1>10, <2>1, <2>2
  <2>4. task'["server"] = task["server"]
    BY <1>10, <2>1, <2>2, TaskKinds
  <2>5. \A u \in Loops \cup {"metrics server"} : task'[u] = "ended" => task[u] = "ended"
    BY <2>3, TaskKinds
  <2>6. QED
    BY <1>1, <1>3, <2>1, <2>3, <2>4, <2>5
<1>17. QED
  BY <1>4, <1>5, <1>6, <1>7, <1>8, <1>9, <1>11, <1>12, <1>13, <1>14, <1>15, <1>16
  DEF Working, MainStep, SighupStep

-----------------------------------------------------------------------------
(***************************************************************************)
(* Reports and exit code.                                                  *)
(***************************************************************************)

\* What has failed or ended stays so.
LEMMA OverIsOver ==
    ASSUME TypeOK, EndsMeanCancel, Working
    PROVE  \A t \in Tasks : /\ task[t] = "failed" => task'[t] = "failed"
                            /\ Done(t) => task'[t] \in {"ended", "failed"}
BY TasksMoveForward DEF Forward, Done

\* server::run looks at the token before its children, and main's select is
\* over before main fires it: what either reports has failed.
LEMMA AlarmStep ==
    ASSUME IInv, ~Over, Working
    PROVE  ReportedIsOver' /\ NoFalseAlarm'
<1>1. TypeOK /\ Placed /\ EndsMeanCancel /\ ReportedIsOver /\ NoFalseAlarm
  BY DEF IInv
<1>2. \A t \in Tasks : /\ task[t] = "failed" => task'[t] = "failed"
                       /\ Done(t) => task'[t] \in {"ended", "failed"}
  BY <1>1, OverIsOver
<1>3. /\ blamed \in ChildSet \cup {None} /\ early_task \in Handles \cup {None}
      /\ ChildSet \subseteq Tasks /\ Handles \subseteq Tasks
  BY <1>1, TaskKinds DEF TypeOK, Tasks
<1>4. ASSUME UNCHANGED <<blamed, early_task>>
      PROVE  ReportedIsOver' /\ NoFalseAlarm'
  BY <1>1, <1>2, <1>3, <1>4 DEF ReportedIsOver, NoFalseAlarm, Done, Handles
<1>5. CASE ServerReturns
  <2>1. UNCHANGED early_task /\ blamed' \in SelectBiased /\ task["server"] = "running"
    BY <1>5 DEF ServerReturns
  <2>2. early_task # "server"
    BY <1>1, <2>1 DEF ReportedIsOver, Done
  <2>3. blamed' # None => blamed' \in Tasks /\ task[blamed'] = "failed"
    <3>1. CASE cancelled
      BY <2>1, <3>1, Blamable
    <3>2. CASE ~cancelled
      <4>1. blamed' \in ChildSet /\ Done(blamed')
        BY <2>1, <3>2, Blamable
      <4>2. QED
        BY <1>1, <3>2, <4>1, TaskKinds DEF EndsMeanCancel, Done
    <3>3. QED
      BY <3>1, <3>2
  <2>4. blamed' # None => task'[blamed'] = "failed"
    BY <1>2, <2>3
  <2>5. QED
    BY <1>1, <1>2, <1>3, <2>1, <2>2, <2>4 DEF ReportedIsOver, NoFalseAlarm, Done, Handles
<1>6. ASSUME NEW t \in Handles, SelectEarlyStop(t)
      PROVE  ReportedIsOver' /\ NoFalseAlarm'
  <2>1. early_task' = t /\ Done(t) /\ UNCHANGED <<task, blamed>> /\ ~cancelled
    BY <1>1, <1>6 DEF SelectEarlyStop, Placed, Early
  <2>2. t = "server" => blamed # None
    BY <1>1, <2>1 DEF EndsMeanCancel, Done
  <2>3. t \in {"client manager", "metrics server"} => task[t] = "failed"
    BY <1>1, <2>1, TaskNames DEF EndsMeanCancel, Done
  <2>4. QED
    BY <1>1, <2>1, <2>2, <2>3 DEF ReportedIsOver, NoFalseAlarm, Done
<1>7. CASE ParseArgs \/ LoadConfig \/ Bind \/ Spawn \/ InstallSignals \/ SelectSignal \/ CancelToken
           \/ DropConfigTx \/ AbortMetrics
           \/ Join("server", "join server") \/ Join("client manager", "join client manager")
  BY <1>4, <1>7
  DEF ParseArgs, LoadConfig, Bind, Spawn, InstallSignals, SelectSignal, CancelToken, DropConfigTx,
      AbortMetrics, Join
<1>8. CASE SighupStep
  BY <1>4, <1>8 DEF SighupStep, InstallSighup, SighupRecv, SighupLoad, SighupSend
<1>9. CASE ServerStarts \/ WatchConfig \/ ManagerReloads \/ Hangup \/ Terminate
  BY <1>4, <1>9 DEF ServerStarts, WatchConfig, ManagerReloads, TakeConfig, Hangup, Terminate
<1>10. ASSUME NEW t \in Loops \cup {"metrics server"}, TaskStops(t) \/ TaskFails(t)
       PROVE  ReportedIsOver' /\ NoFalseAlarm'
  BY <1>4, <1>10 DEF TaskStops, TaskFails
<1>11. QED
  BY <1>5, <1>6, <1>7, <1>8, <1>9, <1>10 DEF Working, MainStep

\* main sets a code only where it is true, awaits no handle whose result it
\* has, and what makes a code true stays.
LEMMA ExitStep ==
    ASSUME IInv, ~Over, Working
    PROVE  ExitTells'
<1>1. TypeOK /\ Placed /\ EndsMeanCancel /\ ExitTells /\ ReportedIsOver /\ NoFalseAlarm
  BY DEF IInv
<1>2. \A t \in Tasks : task[t] = "failed" => task'[t] = "failed"
  BY <1>1, OverIsOver
<1>3. main \notin {"exited", "killed", "panicked"}
  BY DEF Over
<1>4. ASSUME exit' = exit, command' = command, main' # "panicked", signalled => signalled',
             "SIGINT" \in handlers' => "SIGINT" \in handlers
      PROVE  ExitTells'
  BY <1>1, <1>2, <1>3, <1>4 DEF ExitTells
<1>5. CASE ParseArgs
  <2>1. main = "args" /\ UNCHANGED <<taskVars, sigVars, machineVars>>
    BY <1>5 DEF ParseArgs
  <2>2. exit = None
    BY <1>1, <2>1 DEF Placed, Early
  <2>3. QED
    BY <1>1, <1>5, <2>1, <2>2, ParseCases DEF ExitTells, TypeOK
<1>6. CASE LoadConfig \/ Bind
  <2>1. exit = None /\ (\A t \in Tasks : task[t] = None) /\ UNCHANGED <<taskVars, sigVars, machineVars>>
    BY <1>1, <1>6 DEF LoadConfig, Bind, Placed, Early
  <2>2. (main' \in {"bind", "spawn"} /\ exit' = exit) \/ (main' = "exited" /\ exit' = "FAILURE")
    BY <1>6 DEF LoadConfig, Bind, Exit
  <2>3. QED
    BY <2>1, <2>2 DEF ExitTells
<1>7. CASE Spawn
  BY <1>1, <1>4, <1>7 DEF Spawn
<1>8. CASE InstallSignals
  <2>1. exit = None /\ "SIGINT" \notin handlers /\ UNCHANGED <<taskVars, signalled, machineVars>>
    BY <1>1, <1>8 DEF InstallSignals, Placed, Early
  <2>2. \/ main' = "running" /\ exit' = exit
        \/ main' = "cancel" /\ exit' = "SUCCESS" /\ "SIGINT" \notin handlers'
    BY <1>8, <2>1, ShutdownOrder DEF InstallSignals
  <2>3. QED
    BY <2>1, <2>2 DEF ExitTells
<1>9. CASE SelectSignal
  BY <1>9, ShutdownOrder DEF SelectSignal, ExitTells
<1>10. ASSUME NEW t \in Handles, SelectEarlyStop(t)
       PROVE  ExitTells'
  <2>1. ReportedIsOver' /\ NoFalseAlarm'
    BY AlarmStep
  <2>2. exit' = "FAILURE" /\ main' = "cancel" /\ early_task' = t
        /\ UNCHANGED <<taskVars, sigVars, machineVars>>
    BY <1>10, ShutdownOrder DEF SelectEarlyStop, EarlyStopExit
  <2>3. CASE t = "server"
    <3>1. blamed # None /\ task[blamed] = "failed"
      BY <2>1, <2>2, <2>3 DEF NoFalseAlarm
    <3>2. blamed \in Tasks
      BY <1>1, <3>1, TaskKinds DEF TypeOK
    <3>3. QED
      BY <2>2, <3>1, <3>2 DEF ExitTells
  <2>4. CASE t # "server"
    <3>1. task[t] = "failed" /\ t \in Tasks
      BY <2>1, <2>2, <2>4 DEF NoFalseAlarm, Handles, Tasks
    <3>2. QED
      BY <2>2, <3>1 DEF ExitTells
  <2>5. QED
    BY <2>3, <2>4
<1>11. CASE CancelToken \/ DropConfigTx \/ AbortMetrics
  BY <1>4, <1>11, ShutdownOrder DEF CancelToken, DropConfigTx, AbortMetrics
<1>12. ASSUME NEW t \in Handles, NEW at, Join(t, at), After(at) # "panicked",
              early_task # t => t \notin taken
       PROVE  ExitTells'
  <2>1. t \in Tasks /\ UNCHANGED <<taskVars, sigVars, machineVars>>
    BY <1>12 DEF Join, Tasks
  <2>2. CASE exit' = exit /\ main' # "panicked"
    BY <1>4, <2>1, <2>2
  <2>3. CASE exit' = "FAILURE" /\ task[t] = "failed" /\ main' # "panicked"
    BY <2>1, <2>3 DEF ExitTells
  <2>4. QED
    BY <1>12, <2>2, <2>3, JoinCases
<1>13. CASE Join("server", "join server")
  <2>1. taken \subseteq {early_task}
    BY <1>1, <1>13 DEF Join, Placed
  <2>2. QED
    BY <1>12, <1>13, <2>1, ShutdownOrder DEF Handles
<1>14. CASE Join("client manager", "join client manager")
  <2>1. taken \subseteq {early_task, "server"}
    BY <1>1, <1>14 DEF Join, Placed
  <2>2. QED
    BY <1>12, <1>14, <2>1, ShutdownOrder DEF Handles
<1>15. CASE SighupStep
  BY <1>3, <1>4, <1>15 DEF SighupStep, InstallSighup, SighupRecv, SighupLoad, SighupSend
<1>16. CASE ServerStarts \/ ServerReturns \/ WatchConfig \/ ManagerReloads
  BY <1>3, <1>4, <1>16 DEF ServerStarts, ServerReturns, WatchConfig, ManagerReloads, TakeConfig
<1>17. ASSUME NEW t \in Loops \cup {"metrics server"}, TaskStops(t) \/ TaskFails(t)
       PROVE  ExitTells'
  BY <1>3, <1>4, <1>17 DEF TaskStops, TaskFails
<1>18. CASE Hangup \/ Terminate
  BY <1>3, <1>4, <1>18 DEF Hangup, Terminate
<1>19. QED
  BY <1>5, <1>6, <1>7, <1>8, <1>9, <1>10, <1>11, <1>13, <1>14, <1>15, <1>16, <1>17, <1>18
  DEF Working, MainStep

-----------------------------------------------------------------------------
(***************************************************************************)
(* Types.                                                                  *)
(***************************************************************************)

\* main's variables.
LEMMA MainTypes ==
    ASSUME TypeOK, Working
    PROVE  /\ main' \in {"args", "load", "bind", "spawn", "select", "running", "cancel", "drop",
                         "abort", "join server", "join client manager", "exited", "killed",
                         "panicked"}
           /\ exit' \in {None, "SUCCESS", "FAILURE"}
           /\ early_task' \in Handles \cup {None}
           /\ taken' \subseteq Handles
<1> USE DEF TypeOK
<1>1. CASE UNCHANGED mainVars
  BY <1>1
<1>2. CASE ParseArgs
  BY <1>2, ParseCases DEF ParseArgs
<1>3. CASE LoadConfig \/ Bind \/ Spawn
  BY <1>3 DEF LoadConfig, Bind, Spawn, Exit
<1>4. CASE InstallSignals \/ SelectSignal \/ CancelToken \/ DropConfigTx \/ AbortMetrics
  BY <1>4, ShutdownOrder DEF InstallSignals, SelectSignal, CancelToken, DropConfigTx, AbortMetrics
<1>5. ASSUME NEW t \in Handles, SelectEarlyStop(t)
      PROVE  /\ main' = "cancel" /\ exit' = "FAILURE" /\ early_task' \in Handles
             /\ taken' \subseteq Handles
  BY <1>5, ShutdownOrder DEF SelectEarlyStop, EarlyStopExit
<1>6. ASSUME NEW t \in Handles, NEW at, Join(t, at)
      PROVE  /\ main' \in {After(at), "panicked"} /\ exit' \in {exit, "FAILURE"}
             /\ early_task' = early_task /\ taken' \subseteq Handles
  <2>1. early_task' = early_task
    BY <1>6 DEF Join
  <2>2. taken' \subseteq taken \cup {t}
    BY <1>6, JoinCases, Zenon
  <2>3. main' \in {After(at), "panicked"}
    BY <1>6, JoinCases, Zenon
  <2>4. exit' = exit \/ exit' = "FAILURE"
    BY <1>6, JoinCases, Zenon
  <2>5. QED
    BY <2>1, <2>2, <2>3, <2>4
<1>7. CASE Join("server", "join server") \/ Join("client manager", "join client manager")
  BY <1>6, <1>7, ShutdownOrder DEF Handles
<1>8. CASE SighupStep
  BY <1>1, <1>8 DEF SighupStep, InstallSighup, SighupRecv, SighupLoad, SighupSend
<1>9. CASE ServerStarts \/ ServerReturns \/ WatchConfig \/ ManagerReloads
  BY <1>1, <1>9 DEF ServerStarts, ServerReturns, WatchConfig, ManagerReloads, TakeConfig
<1>10. ASSUME NEW t, TaskStops(t) \/ TaskFails(t)
       PROVE  UNCHANGED mainVars
  BY <1>10 DEF TaskStops, TaskFails
<1>11. CASE Hangup \/ Terminate
  BY <1>11 DEF Hangup, Terminate
<1>12. QED
  BY <1>1, <1>2, <1>3, <1>4, <1>5, <1>7, <1>8, <1>9, <1>10, <1>11 DEF Working, MainStep

\* The tasks' and the channel's variables.
LEMMA SharedTypes ==
    ASSUME TypeOK, EndsMeanCancel, Working
    PROVE  /\ sighup' \in {"init", "recv", "load", "send"}
           /\ blamed' \in ChildSet \cup {None}
           /\ cancelled' \in BOOLEAN
           /\ value' \in Configs \cup {Bad}
           /\ version' \in Nat
           /\ senders' \subseteq {"main", "sighup"}
           /\ seen' \in [Receivers -> Nat]
           /\ new_cfg' \in Configs \cup {Bad}
           /\ in_force' \in [Settings -> Configs \cup {Bad}]
<1> USE DEF TypeOK
<1>1. CASE UNCHANGED <<sighup, blamed, sharedVars>>
  BY <1>1
<1>2. CASE ParseArgs \/ Bind \/ InstallSignals \/ SelectSignal
           \/ (\E t \in Handles : SelectEarlyStop(t)) \/ AbortMetrics
           \/ Join("server", "join server") \/ Join("client manager", "join client manager")
  BY <1>1, <1>2
  DEF ParseArgs, Bind, InstallSignals, SelectSignal, SelectEarlyStop, AbortMetrics, Join
<1>3. CASE LoadConfig
  BY <1>3 DEF LoadConfig, Exit
<1>4. CASE Spawn
  <2>1. senders' \subseteq {"main", "sighup"}
    BY <1>4 DEF Spawn
  <2>2. QED
    BY <1>4, <2>1 DEF Spawn
<1>5. CASE CancelToken \/ DropConfigTx
  BY <1>5 DEF CancelToken, Fire, DropConfigTx
<1>6. CASE SighupStep
  <2>1. CASE InstallSighup
    BY <2>1 DEF InstallSighup, SighupEnds
  <2>2. CASE SighupRecv \/ SighupLoad
    BY <2>2 DEF SighupRecv, SighupLoad
  <2>3. CASE SighupSend
    <3>1. \/ UNCHANGED <<sighup, value, version>> /\ senders' = senders \ {"sighup"}
          \/ sighup' = "recv" /\ value' = new_cfg /\ version' = version + 1 /\ senders' = senders
      BY <2>3 DEF SighupSend, SighupEnds
    <3>2. new_cfg' = Bad /\ UNCHANGED <<blamed, cancelled, seen, in_force>>
      BY <2>3 DEF SighupSend
    <3>3. value' \in Configs \cup {Bad} /\ version' \in Nat /\ senders' \subseteq {"main", "sighup"}
      <4>1. version \in Nat /\ senders \subseteq {"main", "sighup"}
        OBVIOUS
      <4>2. version' \in Nat
        <5> HIDE DEF TypeOK
        <5>1. version' = version \/ version' = version + 1
          BY <3>1, Zenon
        <5>2. QED
          BY <4>1, <5>1
      <4>3. senders' \subseteq {"main", "sighup"}
        BY <3>1, <4>1
      <4>4. value' \in Configs \cup {Bad}
        BY <3>1
      <4>5. QED
        BY <4>2, <4>3, <4>4
    <3>4. sighup' \in {"init", "recv", "load", "send"}
      BY <3>1
    <3>5. QED
      BY <3>2, <3>3, <3>4
  <2>4. QED
    BY <1>6, <2>1, <2>2, <2>3 DEF SighupStep
<1>7. CASE ServerStarts
  BY <1>7 DEF ServerStarts, SubscribedAt
<1>8. CASE ServerReturns
  <2>1. blamed' \in ChildSet \cup {None}
    BY <1>8, Blamable DEF ServerReturns
  <2>2. QED
    BY <1>8, <2>1 DEF ServerReturns
<1>9. ASSUME NEW r \in Receivers, NEW settings, TakeConfig(r, settings)
      PROVE  /\ seen' \in [Receivers -> Nat] /\ in_force' \in [Settings -> Configs \cup {Bad}]
             /\ UNCHANGED <<sighup, blamed, cancelled, value, version, senders, new_cfg>>
  BY <1>9 DEF TakeConfig
<1>9a. CASE WatchConfig \/ ManagerReloads
  BY <1>9, <1>9a DEF WatchConfig, ManagerReloads, Receivers
<1>10. CASE (\E t \in Loops : TaskStops(t)) \/ \E t \in Loops \cup {"metrics server"} : TaskFails(t)
  BY <1>1, <1>10 DEF TaskStops, TaskFails
<1>11. CASE Hangup \/ Terminate
  BY <1>1, <1>11 DEF Hangup, Terminate
<1>12. QED
  BY <1>2, <1>3, <1>4, <1>5, <1>6, <1>7, <1>8, <1>9a, <1>10, <1>11 DEF Working, MainStep

\* The events left: a step spends at most what there is.
LEMMA Spent ==
    ASSUME left \in 0 .. MaxEvents, NEW n \in Nat, Spend(n)
    PROVE  left' \in 0 .. MaxEvents
BY DEF Spend

\* The variables of the signals and of the machine.
LEMMA OutsideTypes ==
    ASSUME TypeOK, Working
    PROVE  /\ handlers' \subseteq {"SIGINT", "SIGTERM", "SIGHUP"}
           /\ signalled' \in BOOLEAN /\ hup' \in BOOLEAN
           /\ command' \in {"Run", "Help", "error"}
           /\ file' \in Configs \cup {Bad}
           /\ wanted' \in BOOLEAN
           /\ left' \in 0 .. MaxEvents
<1>0. /\ handlers \subseteq {"SIGINT", "SIGTERM", "SIGHUP"}
      /\ signalled \in BOOLEAN /\ hup \in BOOLEAN
      /\ command \in {"Run", "Help", "error"}
      /\ file \in Configs \cup {Bad}
      /\ wanted \in BOOLEAN
      /\ left \in 0 .. MaxEvents
  BY DEF TypeOK
<1>1. ASSUME UNCHANGED <<sigVars, machineVars>>, left' = left \/ Spend(1)
      PROVE  /\ handlers' \subseteq {"SIGINT", "SIGTERM", "SIGHUP"}
             /\ signalled' \in BOOLEAN /\ hup' \in BOOLEAN
             /\ command' \in {"Run", "Help", "error"}
             /\ file' \in Configs \cup {Bad}
             /\ wanted' \in BOOLEAN
             /\ left' \in 0 .. MaxEvents
  <2>1. left' \in 0 .. MaxEvents
    BY <1>0, <1>1, Spent
  <2>2. QED
    BY <1>0, <1>1, <2>1
<1>2. CASE ParseArgs \/ LoadConfig \/ Bind \/ Spawn \/ SelectSignal
           \/ (\E t \in Handles : SelectEarlyStop(t)) \/ CancelToken \/ DropConfigTx \/ AbortMetrics
           \/ Join("server", "join server") \/ Join("client manager", "join client manager")
  BY <1>1, <1>2
  DEF ParseArgs, LoadConfig, Bind, Spawn, SelectSignal, SelectEarlyStop, CancelToken, DropConfigTx,
      AbortMetrics, Join
<1>3. CASE InstallSignals
  <2>1. PICK failing \in SUBSET {"SIGINT", "SIGTERM"} :
              /\ Spend(Cardinality(failing))
              /\ handlers' = handlers \cup ({"SIGINT", "SIGTERM"} \ failing)
    BY <1>3 DEF InstallSignals
  <2>2. IsFiniteSet({"SIGINT", "SIGTERM"})
    <3>1. IsFiniteSet({"SIGINT"})
      BY FS_Singleton
    <3>2. IsFiniteSet({"SIGINT"} \cup {"SIGTERM"})
      BY <3>1, FS_AddElement
    <3>3. QED
      BY <3>2, Zenon
  <2>3. Cardinality(failing) \in Nat
    <3>1. IsFiniteSet(failing)
      BY <2>1, <2>2, FS_Subset
    <3>2. QED
      BY <3>1, FS_CardinalityType
  <2>4. left' \in 0 .. MaxEvents
    BY <1>0, <2>1, <2>3, Spent
  <2>5. QED
    BY <1>0, <1>3, <2>1, <2>4 DEF InstallSignals
<1>4. CASE InstallSighup
  <2>1. left' \in 0 .. MaxEvents
    BY <1>0, <1>4, Spent DEF InstallSighup
  <2>2. QED
    BY <1>0, <1>4, <2>1 DEF InstallSighup
<1>5. CASE SighupRecv \/ SighupLoad \/ SighupSend
  BY <1>0, <1>5 DEF SighupRecv, SighupLoad, SighupSend
<1>6. CASE ServerStarts \/ ServerReturns \/ WatchConfig \/ ManagerReloads
  BY <1>1, <1>6 DEF ServerStarts, ServerReturns, WatchConfig, ManagerReloads, TakeConfig
<1>7. CASE (\E t \in Loops : TaskStops(t)) \/ \E t \in Loops \cup {"metrics server"} : TaskFails(t)
  BY <1>1, <1>7 DEF TaskStops, TaskFails
<1>8. CASE Hangup
  <2>1. left' \in 0 .. MaxEvents
    BY <1>0, <1>8, Spent DEF Hangup
  <2>2. hup' \in BOOLEAN
    BY <1>0, <1>8, Zenon DEF Hangup
  <2>3. UNCHANGED <<handlers, signalled, machineVars>>
    BY <1>8 DEF Hangup
  <2>4. QED
    BY <1>0, <2>1, <2>2, <2>3
<1>9. CASE Terminate
  <2>1. signalled' \in BOOLEAN /\ wanted' \in BOOLEAN
    BY <1>0, <1>9, Zenon DEF Terminate
  <2>2. UNCHANGED <<handlers, hup, command, file, left>>
    BY <1>9 DEF Terminate
  <2>3. QED
    BY <1>0, <2>1, <2>2
<1>10. QED
  BY <1>2, <1>3, <1>4, <1>5, <1>6, <1>7, <1>8, <1>9 DEF Working, MainStep, SighupStep

\* Once there is a config the channel always holds one, and no task is spawned
\* before.
LEMMA ReceiversHaveConfig ==
    ASSUME IInv, ~Over, Working
    PROVE  (\E r \in Receivers : task'[r] # None) => value' # Bad
<1>1. TypeOK /\ Placed /\ Receivers \subseteq Tasks
  BY TaskNames DEF IInv, Receivers
<1>2. CASE main \in {"args", "load"}
  <2>1. \A t \in Tasks : task[t] = None
    BY <1>1, <1>2 DEF Placed
  <2>2. UNCHANGED task
    <3>1. \A t \in Tasks : task[t] # "running"
      BY <2>1
    <3>2. Loops \cup {"metrics server"} \subseteq Tasks /\ "sighup" \in Tasks /\ "server" \in Tasks
      BY TaskKinds
    <3>3. CASE MainStep
      <4>1. ParseArgs \/ LoadConfig
        BY <1>2, <3>3
        DEF MainStep, Bind, Spawn, InstallSignals, SelectSignal, SelectEarlyStop, CancelToken,
            DropConfigTx, AbortMetrics, Join
      <4>2. QED
        BY <4>1 DEF ParseArgs, LoadConfig
    <3>4. ~SighupStep
      BY <3>1, <3>2
      DEF SighupStep, InstallSighup, SighupRecv, SighupLoad, SighupSend, SighupAt
    <3>5. ~ServerStarts /\ ~ServerReturns
      BY <3>1, <3>2 DEF ServerStarts, ServerReturns
    <3>6. CASE WatchConfig \/ ManagerReloads \/ Hangup \/ Terminate
      BY <3>6 DEF WatchConfig, ManagerReloads, TakeConfig, Hangup, Terminate
    <3>7. /\ ~ \E t \in Loops : TaskStops(t)
          /\ ~ \E t \in Loops \cup {"metrics server"} : TaskFails(t)
      BY <3>1, <3>2 DEF TaskStops, TaskFails
    <3>8. QED
      BY <3>3, <3>4, <3>5, <3>6, <3>7 DEF Working
  <2>3. QED
    BY <1>1, <2>1, <2>2
<1>3. CASE main \notin {"args", "load"}
  <2>1. value \in Configs
    BY <1>1, <1>3 DEF Placed
  <2>2. CASE SighupSend
    <3>1. new_cfg \in Configs
      BY <1>1, <2>2 DEF SighupSend, SighupAt, Placed, Sending
    <3>2. QED
      BY <2>1, <2>2, <3>1 DEF SighupSend
  <2>3. CASE MainStep
    BY <1>3, <2>1, <2>3
    DEF MainStep, ParseArgs, LoadConfig, Bind, Spawn, InstallSignals, SelectSignal,
        SelectEarlyStop, CancelToken, DropConfigTx, AbortMetrics, Join
  <2>4. CASE InstallSighup \/ SighupRecv \/ SighupLoad
    BY <2>1, <2>4 DEF InstallSighup, SighupRecv, SighupLoad
  <2>5. CASE ServerStarts \/ ServerReturns \/ WatchConfig \/ ManagerReloads \/ Hangup \/ Terminate
    BY <2>1, <2>5
    DEF ServerStarts, ServerReturns, WatchConfig, ManagerReloads, TakeConfig, Hangup, Terminate
  <2>6. CASE (\E t \in Loops : TaskStops(t))
             \/ \E t \in Loops \cup {"metrics server"} : TaskFails(t)
    BY <2>1, <2>6 DEF TaskStops, TaskFails
  <2>7. QED
    BY <2>2, <2>3, <2>4, <2>5, <2>6 DEF Working, SighupStep
<1>4. QED
  BY <1>2, <1>3

\* All of them.
LEMMA TypeStep ==
    ASSUME IInv, ~Over, Working
    PROVE  TypeOK'
<1>1. TypeOK /\ EndsMeanCancel
  BY DEF IInv
<1>2. task' \in [Tasks -> {None, "running", "ended", "failed"}]
  BY <1>1, TasksMoveForward
<1>3. QED
  BY <1>1, <1>2, MainTypes, SharedTypes, OutsideTypes, ReceiversHaveConfig, Zenon DEF TypeOK

-----------------------------------------------------------------------------
(***************************************************************************)
(* The invariant.                                                          *)
(***************************************************************************)

\* A process that starts, the first one or after a restart.
Fresh ==
    /\ main = "args" /\ exit = None /\ early_task = None /\ taken = {}
    /\ task = [t \in Tasks |-> None] /\ sighup = "init" /\ blamed = None
    /\ cancelled = FALSE
    /\ value = Bad /\ version = 0 /\ senders = {} /\ seen = [r \in Receivers |-> 0]
    /\ new_cfg = Bad /\ in_force = [s \in Settings |-> Bad]
    /\ handlers = {} /\ signalled = FALSE /\ hup = FALSE
    /\ command \in {"Run", "Help", "error"} /\ file \in Configs \cup {Bad}
    /\ wanted \in BOOLEAN /\ left \in 0 .. MaxEvents

\* It satisfies the invariant.
LEMMA InvFresh == Fresh => IInv
<1> SUFFICES ASSUME Fresh PROVE IInv
  OBVIOUS
<1> USE DEF Fresh
<1>1. \A t \in Tasks : task[t] = None
  OBVIOUS
<1>2. Receivers \subseteq Tasks
  BY TaskNames DEF Receivers
<1>3. TypeOK
  <2>1. task \in [Tasks -> {None, "running", "ended", "failed"}]
    OBVIOUS
  <2>2. seen \in [Receivers -> Nat] /\ in_force \in [Settings -> Configs \cup {Bad}]
    OBVIOUS
  <2>3. QED
    BY <1>1, <1>2, <2>1, <2>2 DEF TypeOK
<1>4. Placed
  BY <1>1 DEF Placed, Early, Late, Sending
<1>5. EndsMeanCancel
  BY <1>1, TaskKinds DEF EndsMeanCancel
<1>6. ReportedIsOver /\ NoFalseAlarm /\ ExitTells
  BY DEF ReportedIsOver, NoFalseAlarm, ExitTells
<1>7. QED
  BY <1>3, <1>4, <1>5, <1>6 DEF IInv

\* Init is one.
LEMMA InvInit == Init => IInv
<1>1. FirstConfig \in Configs
  BY DEF FirstConfig
<1>2. SUFFICES ASSUME Init PROVE IInv
  OBVIOUS
<1>3. command \in {"Run", "Help", "error"}
  BY <1>2, Commands DEF Init
<1>4. file \in Configs \cup {Bad} /\ wanted \in BOOLEAN /\ left \in 0 .. MaxEvents
  BY <1>1, <1>2 DEF Init
<1>5. QED
  BY <1>2, <1>3, <1>4, InvFresh DEF Init, Fresh

\* A step of the process, of the operator or of systemd keeps it.
LEMMA InvStep == IInv /\ [Next]_vars => IInv'
<1> SUFFICES ASSUME IInv, [Next]_vars PROVE IInv'
  OBVIOUS
<1>1. ASSUME ~Over, Working
      PROVE  IInv'
  BY <1>1, PlacedStep, EndsStep, AlarmStep, ExitStep, TypeStep, Zenon DEF IInv
<1>2. ASSUME UNCHANGED <<mainVars, taskVars, sharedVars, sigVars, command, wanted>>,
             file' \in Configs \cup {Bad}, left' \in 0 .. MaxEvents
      PROVE  IInv'
  <2>1. TypeOK'
    <3>1. /\ main' = main /\ exit' = exit /\ early_task' = early_task /\ taken' = taken
          /\ task' = task /\ sighup' = sighup /\ blamed' = blamed
          /\ value' = value /\ version' = version /\ senders' = senders /\ seen' = seen
          /\ new_cfg' = new_cfg /\ in_force' = in_force /\ handlers' = handlers
      BY <1>2
    <3>2. /\ cancelled' = cancelled /\ signalled' = signalled /\ hup' = hup
          /\ command' = command /\ wanted' = wanted
      BY <1>2
    <3>3. TypeOK
      BY DEF IInv
    <3>4. /\ cancelled' \in BOOLEAN /\ signalled' \in BOOLEAN /\ hup' \in BOOLEAN
          /\ wanted' \in BOOLEAN
      BY <3>2, <3>3, Zenon DEF TypeOK
    <3>5. (\E r \in Receivers : task'[r] # None) => value' # Bad
      BY <3>1, <3>3, Zenon DEF TypeOK
    <3>6. QED
      BY <1>2, <3>1, <3>2, <3>3, <3>4, <3>5 DEF TypeOK
  <2>2. Placed' /\ EndsMeanCancel'
    BY <1>2 DEF IInv, Placed, EndsMeanCancel, Over, Sending
  <2>3. ReportedIsOver' /\ NoFalseAlarm' /\ ExitTells'
    BY <1>2 DEF IInv, ReportedIsOver, NoFalseAlarm, ExitTells, Done
  <2>4. QED
    BY <2>1, <2>2, <2>3 DEF IInv
<1>2a. file \in Configs \cup {Bad} /\ left \in 0 .. MaxEvents
  BY DEF IInv, TypeOK
<1>2b. CASE EditFile
  <2>1. left' \in 0 .. MaxEvents
    BY <1>2a, <1>2b, Spent DEF EditFile
  <2>2. QED
    BY <1>2, <1>2b, <2>1 DEF EditFile
<1>3. CASE Restart
  <2>1. /\ command' \in {"Run", "Help", "error"} /\ file' \in Configs \cup {Bad}
        /\ wanted' \in BOOLEAN /\ left' \in 0 .. MaxEvents
    BY <1>3 DEF Restart, IInv, TypeOK
  <2>2. Fresh'
    BY <1>3, <2>1 DEF Restart, Fresh
  <2>3. QED
    BY <2>2, InvFresh, PTL
<1>4. CASE UNCHANGED vars
  BY <1>2, <1>2a, <1>4 DEF vars
<1>5. QED
  BY <1>1, <1>2b, <1>3, <1>4 DEF Next, Working, ServiceStopped

\* So every reachable state satisfies it.
THEOREM Invariant == Spec => []IInv
BY InvInit, InvStep, PTL DEF Spec

-----------------------------------------------------------------------------
(***************************************************************************)
(* The results.                                                            *)
(***************************************************************************)

\* Types, and that no receiver runs before there is a config.
THEOREM TypeCorrect == Spec => []TypeOK
<1>1. IInv => TypeOK
  BY DEF IInv
<1>2. QED
  BY <1>1, Invariant, PTL

\* However the ends of the tasks, the token and the drop of main's sender
\* interleave, server::run and main report as stopped only what failed.
THEOREM NoFalseAlarms == Spec => []NoFalseAlarm
<1>1. IInv => NoFalseAlarm
  BY DEF IInv
<1>2. QED
  BY <1>1, Invariant, PTL

\* main ends with an exit code that tells what happened, and never panics on
\* a handle that its select has taken.
THEOREM ExitCode == Spec => []ExitCodeTells
<1>1. IInv => ExitCodeTells
  BY DEF IInv, ExitTells, ExitCodeTells
<1>2. QED
  BY <1>1, Invariant, PTL
=============================================================================
