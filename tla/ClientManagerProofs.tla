------------------------ MODULE ClientManagerProofs ------------------------
(***************************************************************************)
(* run_manager for any peers, any configs and any sequence of reloads:     *)
(* old and new task of a peer never run together, the gauge is exact, the  *)
(* tasks are those of the config, and unchanged peers are left alone.      *)
(***************************************************************************)
EXTENDS ClientManager, SequenceTheorems, TLAPS

USE ConfigAssumption, ReloadsAssumption
USE DEF channelVars, managerVars

-----------------------------------------------------------------------------
(***************************************************************************)
(* The inductive invariant.                                                *)
(***************************************************************************)
Hosts == {cfg.peers[n] : cfg \in Configs, n \in Names}
Clients == {cfg.client : cfg \in Configs}

TaskRec == [name : Names, host : Hosts, client : Clients, node : Nodes,
            phase : {"idle", "session", "done"}, cancelled : BOOLEAN]

Types == TypeOK /\ spawned \in Seq(TaskRec)

\* The map holds tasks of its names, of an address, that nobody has cancelled;
\* a running task is in the map or is the one being awaited, whose name has
\* left the map; only cancelled tasks end.
Owned ==
    /\ \A n \in Names : tasks[n] # 0 => /\ spawned[tasks[n]].name = n
                                        /\ ~spawned[tasks[n]].cancelled
    /\ \A i \in TaskIds : /\ Running(spawned[i]) => i = awaited \/ tasks[spawned[i].name] = i
                          /\ ~Running(spawned[i]) => spawned[i].cancelled
                          /\ spawned[i].host # "absent"
    /\ awaited # 0 => tasks[spawned[awaited].name] = 0

\* What the manager has left to do is what removing and Missing say.
Planned ==
    /\ pc \in {"reconcile", "remove", "select"} => ~quitting
    /\ pc \in {"shutdown", "done"} => quitting
    /\ pc \in {"reconcile", "select", "done"} => removing = {}
    /\ pc = "select" => Missing = {}
    /\ quitting => \A n \in Names \ removing : tasks[n] = 0
    /\ ~quitting => \A n \in removing : \/ config.client = "absent"
                                        \/ config.peers[n] # spawned[tasks[n]].host
    /\ ~quitting /\ pc # "reconcile" =>
          \A n \in Names \ removing :
              tasks[n] # 0 => /\ config.client # "absent"
                              /\ config.peers[n] = spawned[tasks[n]].host

IInv == Types /\ Owned /\ Planned /\ GaugeExact

-----------------------------------------------------------------------------
(***************************************************************************)
(* What the steps do to the list of tasks.                                 *)
(***************************************************************************)

\* Only the state of task k may change.
OnlyTask(k) ==
    /\ Len(spawned') = Len(spawned) /\ TaskIds' = TaskIds
    /\ spawned' \in Seq(TaskRec)
    /\ \A j \in TaskIds : j # k => spawned'[j] = spawned[j]
    /\ \A j \in TaskIds : /\ spawned'[j].name = spawned[j].name
                          /\ spawned'[j].host = spawned[j].host
                          /\ spawned'[j].node = spawned[j].node

\* The list is one of tasks, indexed from 1.
LEMMA ListOfTasks ==
    ASSUME Types
    PROVE  /\ Len(spawned) \in Nat /\ TaskIds = 1 .. Len(spawned)
           /\ \A i \in TaskIds : spawned[i] \in TaskRec
BY LenProperties, ElementOfSeq DEF Types, TaskIds

\* An update of one task that keeps its name, address and labels.
LEMMA UpdateOne ==
    ASSUME Types, NEW k \in TaskIds, NEW t \in TaskRec,
           t.name = spawned[k].name, t.host = spawned[k].host, t.node = spawned[k].node,
           spawned' = [spawned EXCEPT ![k] = t]
    PROVE  OnlyTask(k) /\ spawned'[k] = t
<1>1. k \in 1 .. Len(spawned) /\ spawned \in Seq(TaskRec)
  BY ListOfTasks DEF Types
<1>2. spawned' \in Seq(TaskRec) /\ Len(spawned') = Len(spawned)
  BY <1>1, ExceptSeq
<1>3. TaskIds' = TaskIds
  BY <1>1, <1>2, LenProperties DEF TaskIds
<1>4. \A j \in TaskIds : spawned'[j] = IF j = k THEN t ELSE spawned[j]
  BY <1>1, ListOfTasks, ExceptSeq DEF TaskIds
<1>5. QED
  BY <1>2, <1>3, <1>4 DEF OnlyTask

\* PeerTask::stop cancels the task it takes out of the map.
LEMMA StopEffect ==
    ASSUME Types, NEW n \in Names, StopTask(n)
    PROVE  \E k \in TaskIds : /\ k = tasks[n] /\ OnlyTask(k)
                              /\ spawned'[k].cancelled = TRUE
                              /\ spawned'[k].phase = spawned[k].phase
<1>1. PICK k \in TaskIds : k = tasks[n]
  BY ListOfTasks DEF StopTask, Types, TypeOK
<1>2. PICK r \in TaskRec : r = spawned[k]
  BY ListOfTasks
<1>3. PICK t \in TaskRec : t = [r EXCEPT !.cancelled = TRUE]
  BY DEF TaskRec
<1>4. spawned' = [spawned EXCEPT ![k] = t]
  BY <1>1, <1>2, <1>3 DEF StopTask
<1>5. /\ t.name = r.name /\ t.host = r.host /\ t.node = r.node /\ t.phase = r.phase
      /\ t.cancelled = TRUE
  BY <1>3 DEF TaskRec
<1>6. QED
  BY <1>1, <1>2, <1>4, <1>5, UpdateOne

\* A peer task's own step changes its phase and nothing else of it.
LEMMA PhaseEffect ==
    ASSUME Types, NEW k \in TaskIds, NEW p \in {"idle", "session", "done"}, NEW a, SetPhase(k, p, a)
    PROVE  /\ OnlyTask(k)
           /\ spawned'[k].cancelled = spawned[k].cancelled
           /\ spawned'[k].phase = p
<1>1. PICK r \in TaskRec : r = spawned[k]
  BY ListOfTasks
<1>2. PICK t \in TaskRec : t = [r EXCEPT !.phase = p]
  BY DEF TaskRec
<1>3. spawned' = [spawned EXCEPT ![k] = t]
  BY <1>1, <1>2 DEF SetPhase
<1>4. /\ t.name = r.name /\ t.host = r.host /\ t.node = r.node /\ t.cancelled = r.cancelled
      /\ t.phase = p
  BY <1>2 DEF TaskRec
<1>5. QED
  BY <1>1, <1>3, <1>4, UpdateOne

\* A spawned task joins the list and the map under the next index.
LEMMA SpawnEffect ==
    ASSUME Types, NEW n \in Names, SpawnTask(n)
    PROVE  \E k \in Nat :
              /\ k = Len(spawned) + 1 /\ Len(spawned') = k /\ spawned' \in Seq(TaskRec)
              /\ TaskIds' = TaskIds \cup {k} /\ k \notin TaskIds
              /\ \A j \in TaskIds : spawned'[j] = spawned[j]
              /\ spawned'[k] = NewTask(n) /\ NewTask(n) \in TaskRec
              /\ tasks' = [tasks EXCEPT ![n] = k]
<1>1. Len(spawned) \in Nat /\ TaskIds = 1 .. Len(spawned) /\ spawned \in Seq(TaskRec)
  BY ListOfTasks DEF Types
<1>2. PICK k \in Nat : k = Len(spawned) + 1
  BY <1>1
<1>3. NewTask(n) \in TaskRec
  <2>1. config \in Configs
    BY DEF Types, TypeOK
  <2>2. config.peers[n] \in Hosts /\ config.client \in Clients /\ config.node \in Nodes
    BY <2>1 DEF Hosts, Clients, Nodes
  <2>3. QED
    BY <2>2 DEF NewTask, TaskRec
<1>4. spawned' = Append(spawned, NewTask(n)) /\ tasks' = [tasks EXCEPT ![n] = k]
  BY <1>2 DEF SpawnTask
<1>5. /\ spawned' \in Seq(TaskRec) /\ Len(spawned') = Len(spawned) + 1
      /\ \A j \in 1 .. Len(spawned) : spawned'[j] = spawned[j]
      /\ spawned'[Len(spawned) + 1] = NewTask(n)
  BY <1>1, <1>3, <1>4, AppendProperties
<1>6. TaskIds' = 1 .. Len(spawned')
  BY <1>5, LenProperties DEF TaskIds
<1>7. \A m \in Nat : 1 .. (m + 1) = (1 .. m) \cup {m + 1} /\ m + 1 \notin 1 .. m
  OBVIOUS
<1>8. TaskIds' = TaskIds \cup {k} /\ k \notin TaskIds
  BY <1>1, <1>2, <1>5, <1>6, <1>7
<1>9. QED
  BY <1>1, <1>2, <1>3, <1>4, <1>5, <1>8

-----------------------------------------------------------------------------
(***************************************************************************)
(* The steps, sorted by what they change.                                  *)
(***************************************************************************)

\* main and watch_sighup: the channel and the token.
ChannelStep == SendConfig \/ DropSender \/ Cancel

\* Steps of the manager that touch neither the map nor a task.
QuietStep == Reconcile \/ Stopped \/ Reconciled \/ ConfigChanged \/ Return \/ Quit

\* A step of task i into phase p: only a session that begins or ends moves
\* the gauge.
GaugeAfter(i, p) == IF p = "session" THEN 1 ELSE GaugeAtFinish(spawned[i])

PeerStep(i) ==
    \E p \in {"idle", "session", "done"} :
        /\ Running(spawned[i])
        /\ p = "done" => spawned[i].cancelled
        /\ SetPhase(i, p, GaugeAfter(i, p))

\* No step is of another kind.
LEMMA StepCases ==
    ASSUME Types, [Next]_vars
    PROVE  \/ ChannelStep \/ QuietStep
           \/ \E n \in Names : StopTask(n) \/ SpawnTask(n)
           \/ \E i \in TaskIds : PeerStep(i)
           \/ UNCHANGED vars
<1>1. ASSUME NEW i \in TaskIds, StartSession(i)
      PROVE  PeerStep(i)
  BY <1>1 DEF StartSession, PeerStep, GaugeAfter, Running
<1>2. ASSUME NEW i \in TaskIds, EndSession(i)
      PROVE  PeerStep(i)
  BY <1>2 DEF EndSession, PeerStep, GaugeAfter, GaugeAtFinish, Running
<1>3. ASSUME NEW i \in TaskIds, Finish(i)
      PROVE  PeerStep(i)
  BY <1>3 DEF Finish, PeerStep, GaugeAfter
<1>4. QED
  BY <1>1, <1>2, <1>3 DEF Next, ManagerStep, ChannelStep, QuietStep, Finished

-----------------------------------------------------------------------------
(***************************************************************************)
(* Types.                                                                  *)
(***************************************************************************)
\* Every step keeps the types: what the map and removing name exists.
LEMMA TypesStep ==
    ASSUME Types, Planned, [Next]_vars
    PROVE  Types'
<1> USE DEF Types
<1>1. Len(spawned) \in Nat /\ TaskIds = 1 .. Len(spawned) /\ \A i \in TaskIds : spawned[i] \in TaskRec
  BY ListOfTasks
<1>2. CASE ChannelStep
  <2>1. UNCHANGED <<managerVars, spawned, session_active>>
    BY <1>2 DEF ChannelStep, SendConfig, DropSender, Cancel
  <2>2. value' \in Configs /\ changed' \in BOOLEAN /\ sender' \in BOOLEAN /\ cancel' \in BOOLEAN
    BY <1>2 DEF ChannelStep, SendConfig, DropSender, Cancel, TypeOK
  <2>3. reloads' \in 0 .. MaxReloads
    BY <1>2 DEF ChannelStep, SendConfig, DropSender, Cancel, TypeOK
  <2>4. TaskIds' = TaskIds
    BY <2>1 DEF TaskIds
  <2>5. QED
    BY <2>1, <2>2, <2>3, <2>4 DEF TypeOK
<1>3. CASE QuietStep
  <2>1. UNCHANGED <<value, sender, reloads, cancel, tasks, spawned, session_active>>
    BY <1>3 DEF QuietStep, Reconcile, Stopped, Reconciled, ConfigChanged, Return, Quit
  <2>2. config' \in Configs /\ changed' \in BOOLEAN /\ quitting' \in BOOLEAN
    BY <1>3 DEF QuietStep, Reconcile, Stopped, Reconciled, ConfigChanged, Return, Quit, TypeOK
  <2>3. removing' \subseteq {n \in Names : tasks[n] # 0}
    BY <1>3 DEF QuietStep, Reconcile, Unwanted, Stopped, Reconciled, ConfigChanged, Return, Quit,
                Remaining, TypeOK
  <2>4. /\ awaited' \in 0 .. Len(spawned)
        /\ (awaited' # 0) <=> (pc' = "stopping")
        /\ pc' \in {"reconcile", "remove", "stopping", "select", "shutdown", "done"}
    BY <1>1, <1>3 DEF QuietStep, Reconcile, Stopped, Reconciled, ConfigChanged, Return, Quit, TypeOK
  <2>5. TaskIds' = TaskIds
    BY <2>1 DEF TaskIds
  <2>6. QED
    BY <2>1, <2>2, <2>3, <2>4, <2>5 DEF TypeOK
<1>4. ASSUME NEW n \in Names, StopTask(n)
      PROVE  Types'
  <2>1. PICK k \in TaskIds : k = tasks[n] /\ OnlyTask(k)
    BY <1>4, StopEffect
  <2>2. UNCHANGED <<channelVars, cancel, config, quitting, session_active>>
    BY <1>4 DEF StopTask
  <2>3. /\ pc' = "stopping" /\ awaited' = k /\ k # 0
        /\ tasks' = [tasks EXCEPT ![n] = 0] /\ removing' = removing \ {n}
    BY <1>1, <1>4, <2>1 DEF StopTask
  <2>4. tasks' \in [Names -> 0 .. Len(spawned)] /\ removing' \subseteq {m \in Names : tasks'[m] # 0}
    BY <1>1, <2>3 DEF TypeOK
  <2>5. \A i \in TaskIds : spawned'[i] \in TaskRec
    BY <1>1, <2>1, ElementOfSeq DEF OnlyTask
  <2>6. \A i \in TaskIds : /\ spawned'[i].name \in Names
                           /\ spawned'[i].phase \in {"idle", "session", "done"}
                           /\ spawned'[i].cancelled \in BOOLEAN
    BY <2>5 DEF TaskRec
  <2>7. QED
    BY <1>1, <2>1, <2>2, <2>3, <2>4, <2>6 DEF TypeOK, OnlyTask
<1>5. ASSUME NEW n \in Names, SpawnTask(n)
      PROVE  Types'
  <2>1. PICK k \in Nat :
              /\ k = Len(spawned) + 1 /\ Len(spawned') = k /\ spawned' \in Seq(TaskRec)
              /\ TaskIds' = TaskIds \cup {k} /\ k \notin TaskIds
              /\ \A j \in TaskIds : spawned'[j] = spawned[j]
              /\ spawned'[k] = NewTask(n) /\ NewTask(n) \in TaskRec
              /\ tasks' = [tasks EXCEPT ![n] = k]
    BY <1>5, SpawnEffect
  <2>2. UNCHANGED <<channelVars, cancel, pc, config, removing, awaited, quitting, session_active>>
        /\ removing = {} /\ pc = "remove"
    BY <1>5 DEF SpawnTask
  <2>3. 0 .. Len(spawned) \subseteq 0 .. k /\ k \in 0 .. k
    BY <1>1, <2>1
  <2>4. tasks' \in [Names -> 0 .. k] /\ awaited' \in 0 .. k
    BY <2>1, <2>2, <2>3 DEF TypeOK
  <2>5. \A i \in TaskIds' : spawned'[i] \in TaskRec
    BY <1>1, <2>1
  <2>6. \A i \in TaskIds' : /\ spawned'[i].name \in Names
                            /\ spawned'[i].phase \in {"idle", "session", "done"}
                            /\ spawned'[i].cancelled \in BOOLEAN
    BY <2>5 DEF TaskRec
  <2>7. QED
    BY <2>1, <2>2, <2>4, <2>6 DEF TypeOK
<1>6. ASSUME NEW i \in TaskIds, PeerStep(i)
      PROVE  Types'
  <2>1. PICK p \in {"idle", "session", "done"} : SetPhase(i, p, GaugeAfter(i, p))
    BY <1>6 DEF PeerStep
  <2>2. OnlyTask(i) /\ UNCHANGED <<channelVars, cancel, managerVars>>
    BY <2>1, PhaseEffect DEF SetPhase
  <2>3. Label(spawned[i]) \in Labels
    BY <1>1 DEF Label, Labels, TaskRec
  <2>4. GaugeAfter(i, p) \in {0, 1}
    BY <2>3 DEF GaugeAfter, GaugeAtFinish, TypeOK
  <2>5. session_active' \in [Labels -> {0, 1}]
    BY <2>1, <2>4 DEF SetPhase, TypeOK
  <2>6. \A j \in TaskIds : spawned'[j] \in TaskRec
    BY <1>1, <2>2, ElementOfSeq DEF OnlyTask
  <2>7. \A j \in TaskIds : /\ spawned'[j].name \in Names
                           /\ spawned'[j].phase \in {"idle", "session", "done"}
                           /\ spawned'[j].cancelled \in BOOLEAN
    BY <2>6 DEF TaskRec
  <2>8. QED
    BY <2>2, <2>5, <2>7 DEF TypeOK, OnlyTask
<1>7. CASE UNCHANGED vars
  BY <1>7 DEF vars, TypeOK, TaskIds
<1>8. QED
  BY <1>2, <1>3, <1>4, <1>5, <1>6, <1>7, StepCases

-----------------------------------------------------------------------------
(***************************************************************************)
(* Who runs.                                                               *)
(***************************************************************************)
\* A task leaves the map only to be awaited, and a new one for its name comes
\* only when nothing is awaited.
LEMMA OwnedStep ==
    ASSUME Types, Owned, [Next]_vars
    PROVE  Owned'
<1>1. Len(spawned) \in Nat /\ TaskIds = 1 .. Len(spawned)
  BY ListOfTasks
<1>2. tasks \in [Names -> 0 .. Len(spawned)] /\ (awaited # 0 <=> pc = "stopping") /\ awaited \in 0 .. Len(spawned)
  BY DEF Types, TypeOK
<1>3. \A i \in TaskIds : spawned[i].name \in Names
  BY DEF Types, TypeOK
<1>4. CASE UNCHANGED <<tasks, awaited, spawned>>
  BY <1>4 DEF Owned, TaskIds, Running
<1>5. CASE ChannelStep \/ UNCHANGED vars
  BY <1>4, <1>5 DEF ChannelStep, SendConfig, DropSender, Cancel, vars
<1>6. CASE QuietStep
  <2>1. CASE Stopped
    <3>1. awaited # 0 /\ awaited \in TaskIds /\ ~Running(spawned[awaited])
      BY <1>1, <1>2, <2>1 DEF Stopped, HandleDone
    <3>2. awaited' = 0 /\ UNCHANGED <<tasks, spawned>>
      BY <2>1 DEF Stopped
    <3>3. TaskIds' = TaskIds
      BY <3>2 DEF TaskIds
    <3>4. QED
      BY <3>1, <3>2, <3>3 DEF Owned, Running
  <2>2. CASE ~Stopped
    BY <1>4, <1>6, <2>2 DEF QuietStep, Reconcile, Reconciled, ConfigChanged, Return, Quit
  <2>3. QED
    BY <2>1, <2>2
<1>7. ASSUME NEW n \in Names, StopTask(n)
      PROVE  Owned'
  <2>1. PICK k \in TaskIds : /\ k = tasks[n] /\ OnlyTask(k)
                             /\ spawned'[k].cancelled = TRUE
                             /\ spawned'[k].phase = spawned[k].phase
    BY <1>7, StopEffect
  <2>2. awaited' = k /\ tasks' = [tasks EXCEPT ![n] = 0] /\ awaited = 0
    BY <1>2, <1>7, <2>1 DEF StopTask
  <2>3. k # 0 /\ spawned[k].name = n
    BY <1>1, <2>1 DEF Owned
  <2>4. \A m \in Names : tasks[m] \in TaskIds \/ tasks[m] = 0
    BY <1>1, <1>2
  <2>5. \A m \in Names : tasks'[m] # 0 => tasks'[m] = tasks[m] /\ m # n /\ tasks[m] # k
    BY <1>2, <2>1, <2>2, <2>3 DEF Owned
  <2>6. \A m \in Names : tasks'[m] # 0 => /\ spawned'[tasks'[m]].name = m
                                          /\ ~spawned'[tasks'[m]].cancelled
    BY <2>1, <2>4, <2>5 DEF Owned, OnlyTask
  <2>7. \A i \in TaskIds : /\ Running(spawned'[i]) => i = k \/ tasks'[spawned'[i].name] = i
                           /\ ~Running(spawned'[i]) => spawned'[i].cancelled
                           /\ spawned'[i].host # "absent"
    <3> SUFFICES ASSUME NEW i \in TaskIds
                 PROVE  /\ Running(spawned'[i]) => i = k \/ tasks'[spawned'[i].name] = i
                        /\ ~Running(spawned'[i]) => spawned'[i].cancelled
                        /\ spawned'[i].host # "absent"
      OBVIOUS
    <3>1. spawned'[i].host # "absent" /\ spawned'[i].name = spawned[i].name
      BY <2>1 DEF Owned, OnlyTask
    <3>2. CASE i = k
      BY <2>1, <3>1, <3>2
    <3>3. CASE i # k
      <4>1. spawned'[i] = spawned[i]
        BY <2>1, <3>3 DEF OnlyTask
      <4>2. Running(spawned[i]) => tasks[spawned[i].name] = i /\ spawned[i].name # n
        BY <1>1, <2>1, <2>2, <3>3 DEF Owned
      <4>3. QED
        BY <1>2, <1>3, <2>2, <3>1, <4>1, <4>2 DEF Owned
    <3>4. QED
      BY <3>2, <3>3
  <2>8. tasks'[spawned'[k].name] = 0
    BY <1>2, <2>1, <2>2, <2>3 DEF OnlyTask
  <2>9. QED
    BY <2>1, <2>2, <2>6, <2>7, <2>8 DEF Owned, OnlyTask, Running
<1>8. ASSUME NEW n \in Names, SpawnTask(n)
      PROVE  Owned'
  <2>1. PICK k \in Nat :
              /\ k = Len(spawned) + 1 /\ Len(spawned') = k /\ spawned' \in Seq(TaskRec)
              /\ TaskIds' = TaskIds \cup {k} /\ k \notin TaskIds
              /\ \A j \in TaskIds : spawned'[j] = spawned[j]
              /\ spawned'[k] = NewTask(n) /\ NewTask(n) \in TaskRec
              /\ tasks' = [tasks EXCEPT ![n] = k]
    BY <1>8, SpawnEffect
  <2>2. /\ tasks[n] = 0 /\ awaited = 0 /\ awaited' = 0
        /\ config.peers[n] # "absent"
    BY <1>2, <1>8 DEF SpawnTask, Missing
  <2>3. /\ spawned'[k].name = n /\ spawned'[k].host # "absent" /\ ~spawned'[k].cancelled
        /\ Running(spawned'[k])
    BY <2>1, <2>2 DEF NewTask, Running
  <2>4. \A m \in Names : tasks[m] \in TaskIds \/ tasks[m] = 0
    BY <1>1, <1>2
  <2>5. \A m \in Names : tasks'[m] # 0 => /\ spawned'[tasks'[m]].name = m
                                          /\ ~spawned'[tasks'[m]].cancelled
    BY <1>2, <2>1, <2>3, <2>4 DEF Owned
  <2>6. \A i \in TaskIds : /\ Running(spawned'[i]) => tasks'[spawned'[i].name] = i
                           /\ ~Running(spawned'[i]) => spawned'[i].cancelled
                           /\ spawned'[i].host # "absent"
    <3> SUFFICES ASSUME NEW i \in TaskIds
                 PROVE  /\ Running(spawned[i]) => tasks'[spawned[i].name] = i
                        /\ ~Running(spawned[i]) => spawned[i].cancelled
                        /\ spawned[i].host # "absent"
      BY <2>1
    <3>1. i # 0
      BY <1>1
    <3>2. Running(spawned[i]) => tasks[spawned[i].name] = i /\ spawned[i].name # n
      BY <2>2, <3>1 DEF Owned
    <3>3. QED
      BY <1>2, <1>3, <2>1, <3>2 DEF Owned
  <2>7. tasks'[spawned'[k].name] = k
    BY <1>2, <2>1, <2>3
  <2>8. QED
    BY <2>1, <2>2, <2>3, <2>5, <2>6, <2>7 DEF Owned, Running
<1>9. ASSUME NEW k \in TaskIds, PeerStep(k)
      PROVE  Owned'
  <2>1. PICK p \in {"idle", "session", "done"} :
              /\ Running(spawned[k])
              /\ p = "done" => spawned[k].cancelled
              /\ SetPhase(k, p, GaugeAfter(k, p))
    BY <1>9 DEF PeerStep
  <2>2. /\ OnlyTask(k) /\ spawned'[k].cancelled = spawned[k].cancelled
        /\ spawned'[k].phase = p
    BY <2>1, PhaseEffect
  <2>3. UNCHANGED <<tasks, awaited>>
    BY <2>1 DEF SetPhase
  <2>4. \A i \in TaskIds : /\ Running(spawned'[i]) => Running(spawned[i])
                           /\ ~Running(spawned'[i]) => ~Running(spawned[i]) \/ spawned[i].cancelled
                           /\ spawned'[i].cancelled = spawned[i].cancelled
                           /\ spawned'[i].name = spawned[i].name
                           /\ spawned'[i].host = spawned[i].host
    BY <2>1, <2>2 DEF OnlyTask, Running
  <2>5. \A m \in Names : tasks[m] \in TaskIds \/ tasks[m] = 0
    BY <1>1, <1>2
  <2>6. awaited # 0 => awaited \in TaskIds
    BY <1>1, <1>2
  <2>7. QED
    BY <2>2, <2>3, <2>4, <2>5, <2>6 DEF Owned, OnlyTask, Running
<1>10. QED
  BY <1>5, <1>6, <1>7, <1>8, <1>9, StepCases

-----------------------------------------------------------------------------
(***************************************************************************)
(* What the manager is about to do.                                        *)
(***************************************************************************)
\* removing and Missing stay the difference between the tasks and the config.
LEMMA PlannedStep ==
    ASSUME Types, Owned, Planned, [Next]_vars
    PROVE  Planned'
<1>1. Len(spawned) \in Nat /\ TaskIds = 1 .. Len(spawned)
  BY ListOfTasks
<1>2. tasks \in [Names -> 0 .. Len(spawned)] /\ removing \subseteq {n \in Names : tasks[n] # 0}
  BY DEF Types, TypeOK
<1>3. \A m \in Names : tasks[m] \in TaskIds \/ tasks[m] = 0
  BY <1>1, <1>2
<1>4. quitting \in BOOLEAN
  BY DEF Types, TypeOK
<1>5. CASE ChannelStep \/ UNCHANGED vars
  BY <1>5 DEF ChannelStep, SendConfig, DropSender, Cancel, vars, Planned, Missing
<1>6. CASE QuietStep
  <2>1. CASE Reconcile
    BY <2>1 DEF Reconcile, Unwanted, Planned, Missing
  <2>2. CASE Stopped
    BY <1>4, <2>2 DEF Stopped, Planned, Missing
  <2>3. CASE Reconciled
    BY <2>3 DEF Reconciled, Planned, Missing
  <2>4. CASE ConfigChanged
    BY <2>4 DEF ConfigChanged, Planned, Missing
  <2>5. CASE Return
    BY <2>5 DEF Return, Planned, Missing
  <2>6. CASE Quit
    BY <2>6 DEF Quit, Remaining, Planned, Missing
  <2>7. QED
    BY <1>6, <2>1, <2>2, <2>3, <2>4, <2>5, <2>6 DEF QuietStep
<1>7. ASSUME NEW n \in Names, StopTask(n)
      PROVE  Planned'
  <2>1. PICK k \in TaskIds : k = tasks[n] /\ OnlyTask(k)
    BY <1>7, StopEffect
  <2>2. /\ pc \in {"remove", "shutdown"} /\ pc' = "stopping" /\ removing' = removing \ {n}
        /\ tasks' = [tasks EXCEPT ![n] = 0] /\ UNCHANGED <<config, quitting>>
    BY <1>7 DEF StopTask
  <2>3. \A m \in Names : tasks'[m] # 0 => /\ tasks'[m] = tasks[m] /\ m # n
                                          /\ spawned'[tasks'[m]].host = spawned[tasks[m]].host
    BY <1>2, <1>3, <2>1, <2>2 DEF OnlyTask
  <2>4. \A m \in removing' : /\ m \in removing /\ m \in Names
                             /\ spawned'[tasks'[m]].host = spawned[tasks[m]].host
    BY <1>2, <2>2, <2>3
  <2>5. \A m \in Names : m \notin removing' /\ tasks'[m] # 0 => m \notin removing
    BY <2>2, <2>3
  <2>6. QED
    BY <1>2, <1>4, <2>2, <2>3, <2>4, <2>5 DEF Planned
<1>8. ASSUME NEW n \in Names, SpawnTask(n)
      PROVE  Planned'
  <2>1. PICK k \in Nat :
              /\ TaskIds' = TaskIds \cup {k} /\ k \notin TaskIds
              /\ \A j \in TaskIds : spawned'[j] = spawned[j]
              /\ spawned'[k] = NewTask(n)
              /\ tasks' = [tasks EXCEPT ![n] = k]
    BY <1>8, SpawnEffect
  <2>2. /\ pc = "remove" /\ removing = {} /\ UNCHANGED <<pc, config, removing, quitting>>
        /\ config.client # "absent" /\ config.peers[n] # "absent" /\ tasks[n] = 0
    BY <1>8 DEF SpawnTask, Missing
  <2>3. \A m \in Names : m # n => tasks'[m] = tasks[m]
    BY <1>2, <2>1
  <2>4. \A m \in Names : m # n /\ tasks[m] # 0 => spawned'[tasks'[m]].host = spawned[tasks[m]].host
    BY <1>3, <2>1, <2>3
  <2>5. spawned'[tasks'[n]].host = config.peers[n]
    BY <1>2, <2>1 DEF NewTask
  <2>6. QED
    BY <2>2, <2>3, <2>4, <2>5 DEF Planned
<1>9. ASSUME NEW k \in TaskIds, PeerStep(k)
      PROVE  Planned'
  <2>1. OnlyTask(k) /\ UNCHANGED managerVars
    BY <1>9, PhaseEffect DEF PeerStep, SetPhase
  <2>2. \A m \in Names : tasks[m] # 0 => spawned'[tasks[m]].host = spawned[tasks[m]].host
    BY <1>3, <2>1 DEF OnlyTask
  <2>3. QED
    BY <1>2, <2>1, <2>2 DEF Planned, Missing
<1>10. QED
  BY <1>5, <1>6, <1>7, <1>8, <1>9, StepCases

-----------------------------------------------------------------------------
(***************************************************************************)
(* Consequences, and the gauge.                                            *)
(***************************************************************************)
\* Two running tasks of one name would both be in the map, or one of them
\* awaited while the map still has the name.
LEMMA OneTask ==
    ASSUME Types, Owned
    PROVE  OneTaskPerPeer
<1> SUFFICES ASSUME NEW i \in TaskIds, NEW j \in TaskIds, Running(spawned[i]), Running(spawned[j]),
                    spawned[i].name = spawned[j].name
             PROVE  i = j
  BY DEF OneTaskPerPeer
<1>1. i # 0 /\ j # 0
  BY ListOfTasks
<1>2. QED
  BY <1>1 DEF Owned

\* The label of a task stays the same, and of the tasks with one label only
\* one runs: a session that ends leaves no other to show.
LEMMA GaugeStep ==
    ASSUME Types, Owned, GaugeExact, [Next]_vars
    PROVE  GaugeExact'
<1>1. \A i \in TaskIds : spawned[i] \in TaskRec
  BY ListOfTasks
<1>2. session_active \in [Labels -> {0, 1}]
  BY DEF Types, TypeOK
<1>3. CASE UNCHANGED <<spawned, session_active>>
  BY <1>3 DEF GaugeExact, TaskIds, Label
<1>4. CASE ChannelStep \/ QuietStep \/ UNCHANGED vars
  BY <1>3, <1>4
  DEF ChannelStep, SendConfig, DropSender, Cancel, QuietStep, Reconcile, Stopped, Reconciled,
      ConfigChanged, Return, Quit, vars
<1>5. ASSUME NEW n \in Names, StopTask(n)
      PROVE  GaugeExact'
  <2>1. PICK k \in TaskIds : OnlyTask(k) /\ spawned'[k].phase = spawned[k].phase
    BY <1>5, StopEffect
  <2>2. \A j \in TaskIds : /\ Label(spawned'[j]) = Label(spawned[j])
                           /\ spawned'[j].phase = spawned[j].phase
    BY <2>1 DEF OnlyTask, Label
  <2>3. TaskIds' = TaskIds /\ session_active' = session_active
    BY <1>5, <2>1 DEF OnlyTask, StopTask
  <2>4. QED
    BY <2>2, <2>3 DEF GaugeExact, Label
<1>6. ASSUME NEW n \in Names, SpawnTask(n)
      PROVE  GaugeExact'
  <2>1. PICK k \in Nat :
              /\ TaskIds' = TaskIds \cup {k}
              /\ \A j \in TaskIds : spawned'[j] = spawned[j]
              /\ spawned'[k] = NewTask(n)
    BY <1>6, SpawnEffect
  <2>2. session_active' = session_active
    BY <1>6 DEF SpawnTask
  <2>3. spawned'[k].phase = "idle"
    BY <2>1 DEF NewTask
  <2>4. QED
    BY <2>1, <2>2, <2>3 DEF GaugeExact, Label
<1>7. ASSUME NEW k \in TaskIds, PeerStep(k)
      PROVE  GaugeExact'
  <2>1. PICK p \in {"idle", "session", "done"} :
              Running(spawned[k]) /\ SetPhase(k, p, GaugeAfter(k, p))
    BY <1>7 DEF PeerStep
  <2>2. OnlyTask(k) /\ spawned'[k].phase = p
    BY <2>1, PhaseEffect
  <2>3. PICK m \in Labels : m = Label(spawned[k])
    BY <1>1 DEF Label, Labels, TaskRec
  <2>4. session_active' = [session_active EXCEPT ![m] = GaugeAfter(k, p)]
    BY <2>1, <2>3 DEF SetPhase
  <2>5. TaskIds' = TaskIds /\ \A j \in TaskIds : Label(spawned'[j]) = Label(spawned[j])
    BY <2>2 DEF OnlyTask, Label
  <2>6. ASSUME NEW l \in Labels, l # m
        PROVE  session_active'[l] = 1 <=>
                  \E i \in TaskIds' : Label(spawned'[i]) = l /\ spawned'[i].phase = "session"
    <3>1. session_active'[l] = session_active[l]
      BY <1>2, <2>4, <2>6
    <3>2. \A i \in TaskIds : Label(spawned[i]) = l => i # k /\ spawned'[i] = spawned[i]
      BY <2>2, <2>3, <2>6 DEF OnlyTask
    <3>3. QED
      BY <2>5, <3>1, <3>2 DEF GaugeExact
  <2>7. session_active'[m] = 1 <=>
          \E i \in TaskIds' : Label(spawned'[i]) = m /\ spawned'[i].phase = "session"
    <3>1. session_active'[m] = GaugeAfter(k, p)
      BY <1>2, <2>4
    <3>2. ASSUME NEW i \in TaskIds, i # k, Label(spawned[i]) = m
          PROVE  spawned'[i].phase # "session" /\ spawned[i].phase # "session"
      <4>1. spawned[i].name = spawned[k].name /\ spawned'[i] = spawned[i]
        BY <2>2, <2>3, <3>2 DEF Label, OnlyTask
      <4>2. ~Running(spawned[i])
        BY <2>1, <3>2, <4>1, OneTask DEF OneTaskPerPeer
      <4>3. QED
        BY <4>1, <4>2 DEF Running
    <3>3. (\E i \in TaskIds' : Label(spawned'[i]) = m /\ spawned'[i].phase = "session")
             <=> p = "session"
      BY <2>2, <2>3, <2>5, <3>2
    <3>4. CASE p = "session"
      BY <3>1, <3>3, <3>4 DEF GaugeAfter
    <3>5. CASE p # "session" /\ spawned[k].phase = "session"
      BY <3>1, <3>3, <3>5 DEF GaugeAfter, GaugeAtFinish
    <3>6. CASE p # "session" /\ spawned[k].phase # "session"
      <4>1. session_active[m] # 1
        BY <2>3, <3>2, <3>6 DEF GaugeExact
      <4>2. QED
        BY <2>3, <3>1, <3>3, <3>6, <4>1 DEF GaugeAfter, GaugeAtFinish
    <3>7. QED
      BY <3>4, <3>5, <3>6
  <2>8. QED
    BY <2>6, <2>7 DEF GaugeExact, Label
<1>8. QED
  BY <1>4, <1>5, <1>6, <1>7, StepCases

\* A manager that has not begun satisfies the invariant.
LEMMA InvInit == Init => IInv
<1> SUFFICES ASSUME Init
             PROVE  IInv
  OBVIOUS
<1>1. spawned = << >> /\ Len(spawned) = 0 /\ TaskIds = {} /\ spawned \in Seq(TaskRec)
  BY EmptySeq DEF Init, TaskIds
<1>2. TypeOK
  <2>1. tasks \in [Names -> 0 .. 0] /\ session_active \in [Labels -> {0, 1}]
    BY DEF Init
  <2>2. reloads \in 0 .. MaxReloads /\ awaited \in 0 .. 0
    BY DEF Init
  <2>3. (awaited # 0) <=> (pc = "stopping")
    BY DEF Init
  <2>4. removing \subseteq {n \in Names : tasks[n] # 0}
    BY DEF Init
  <2>5. QED
    BY <1>1, <2>1, <2>2, <2>3, <2>4, Zenon DEF Init, TypeOK
<1>3. Owned
  BY <1>1 DEF Init, Owned
<1>4. Planned
  BY DEF Init, Planned
<1>5. GaugeExact
  BY <1>1 DEF Init, GaugeExact
<1>6. QED
  BY <1>1, <1>2, <1>3, <1>4, <1>5 DEF IInv, Types

\* Every step keeps it.
LEMMA InvStep == IInv /\ [Next]_vars => IInv'
BY TypesStep, OwnedStep, PlannedStep, GaugeStep DEF IInv

\* Every reachable state satisfies it.
LEMMA Invariant == Spec => []IInv
BY InvInit, InvStep, PTL DEF Spec

-----------------------------------------------------------------------------
\* Types: the map never points to a task that was not spawned.
THEOREM TypeCorrect == Spec => []TypeOK
<1>1. IInv => TypeOK
  BY DEF IInv, Types
<1>2. QED
  BY <1>1, Invariant, PTL

\* A peer never has two tasks, whatever configs arrive and however long its
\* old task takes to end.
THEOREM OneTaskAtATime == Spec => []OneTaskPerPeer
<1>1. IInv => OneTaskPerPeer
  BY OneTask DEF IInv
<1>2. QED
  BY <1>1, Invariant, PTL

\* tcp_monitor_client_session_active of a label is 1 exactly while a task with
\* this label has a session, although tasks hand labels on to each other.
THEOREM GaugeAlwaysExact == Spec => []GaugeExact
<1>1. IInv => GaugeExact
  BY DEF IInv
<1>2. QED
  BY <1>1, Invariant, PTL

\* Back at its select, the manager runs the peers of the config and no others,
\* each under its configured address.
THEOREM TasksAreOfConfig == Spec => []Reconciliation
<1>1. IInv => Reconciliation
  <2> SUFFICES ASSUME IInv, pc = "select", NEW n \in Names
               PROVE  LET wanted == config.client # "absent" /\ config.peers[n] # "absent"
                      IN  /\ wanted <=> \E i \in TaskIds : Running(spawned[i]) /\ spawned[i].name = n
                          /\ wanted => spawned[tasks[n]].host = config.peers[n]
    BY DEF Reconciliation
  <2>1. Types /\ Owned /\ Planned /\ TaskIds = 1 .. Len(spawned) /\ Len(spawned) \in Nat
    BY ListOfTasks DEF IInv
  <2>2. awaited = 0 /\ tasks[n] \in 0 .. Len(spawned) /\ ~quitting /\ removing = {}
    BY <2>1 DEF Types, TypeOK, Planned
  <2>3. ASSUME tasks[n] # 0
        PROVE  /\ config.client # "absent" /\ config.peers[n] = spawned[tasks[n]].host
               /\ tasks[n] \in TaskIds /\ spawned[tasks[n]].host # "absent"
               /\ Running(spawned[tasks[n]]) /\ spawned[tasks[n]].name = n
    <3>1. tasks[n] \in TaskIds
      BY <2>1, <2>2, <2>3
    <3>2. QED
      BY <2>1, <2>2, <2>3, <3>1 DEF Planned, Owned
  <2>4. ASSUME tasks[n] = 0
        PROVE  /\ config.client = "absent" \/ config.peers[n] = "absent"
               /\ \A i \in TaskIds : ~(Running(spawned[i]) /\ spawned[i].name = n)
    <3>1. Missing = {}
      BY <2>1 DEF Planned
    <3>2. \A i \in TaskIds : i # 0
      BY <2>1
    <3>3. QED
      BY <2>1, <2>2, <2>4, <3>1, <3>2 DEF Missing, Owned
  <2>5. QED
    BY <2>3, <2>4
<1>2. QED
  BY <1>1, Invariant, PTL

\* No reload cancels a task whose peer it leaves as it is.
THEOREM UnchangedPeersKept == Spec => UnchangedPeersUndisturbed
<1> DEFINE Undisturbed == \A i \in TaskIds :
              spawned'[i].cancelled # spawned[i].cancelled =>
                  \/ quitting
                  \/ config.client = "absent"
                  \/ config.peers[spawned[i].name] # spawned[i].host
<1>1. IInv /\ [Next]_vars => [Undisturbed]_vars
  <2> SUFFICES ASSUME IInv, [Next]_vars
               PROVE  Undisturbed \/ UNCHANGED vars
    OBVIOUS
  <2>1. Types /\ Owned /\ Planned
    BY DEF IInv
  <2>2. CASE ChannelStep \/ QuietStep
    BY <2>2
    DEF ChannelStep, SendConfig, DropSender, Cancel, QuietStep, Reconcile, Stopped, Reconciled,
        ConfigChanged, Return, Quit
  <2>3. ASSUME NEW n \in Names, StopTask(n)
        PROVE  Undisturbed
    <3>1. PICK k \in TaskIds : k = tasks[n] /\ OnlyTask(k)
      BY <2>1, <2>3, StopEffect
    <3>2. n \in removing /\ tasks[n] # 0 /\ spawned[k].name = n
      BY <2>1, <2>3, <3>1 DEF StopTask, Types, TypeOK, Owned
    <3>3. quitting \/ config.client = "absent" \/ config.peers[n] # spawned[k].host
      BY <2>1, <3>1, <3>2 DEF Planned
    <3>4. QED
      BY <3>1, <3>2, <3>3 DEF OnlyTask
  <2>4. ASSUME NEW n \in Names, SpawnTask(n)
        PROVE  Undisturbed
    BY <2>1, <2>4, SpawnEffect
  <2>5. ASSUME NEW k \in TaskIds, PeerStep(k)
        PROVE  Undisturbed
    <3>1. OnlyTask(k) /\ spawned'[k].cancelled = spawned[k].cancelled
      BY <2>1, <2>5, PhaseEffect DEF PeerStep
    <3>2. QED
      BY <3>1 DEF OnlyTask
  <2>6. QED
    BY <2>1, <2>2, <2>3, <2>4, <2>5, StepCases
<1>2. QED
  BY <1>1, Invariant, PTL DEF Spec, UnchangedPeersUndisturbed

\* run_manager returns only when no task is left: the safety half of
\* ManagerReturns.
NoneLeftBehind == pc = "done" => \A i \in TaskIds : ~Running(spawned[i])

\* Every task the manager ever spawned has ended when it returns.
THEOREM ReturnsAlone == Spec => []NoneLeftBehind
<1>1. IInv => NoneLeftBehind
  <2> SUFFICES ASSUME IInv, pc = "done", NEW i \in TaskIds
               PROVE  ~Running(spawned[i])
    BY DEF NoneLeftBehind
  <2>1. Types /\ Owned /\ Planned /\ i # 0
    BY ListOfTasks DEF IInv
  <2>2. awaited = 0 /\ spawned[i].name \in Names
    BY <2>1 DEF Types, TypeOK
  <2>3. tasks[spawned[i].name] = 0
    BY <2>1, <2>2 DEF Planned
  <2>4. QED
    BY <2>1, <2>2, <2>3 DEF Owned
<1>2. QED
  BY <1>1, Invariant, PTL
=============================================================================
