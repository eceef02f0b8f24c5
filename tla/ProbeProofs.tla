---------------------------- MODULE ProbeProofs ----------------------------
(***************************************************************************)
(* The probe port for any number of connections and slots and any values   *)
(* of probe_idle_timeout.                                                  *)
(***************************************************************************)
EXTENDS Probe, FiniteSetTheorems, TLAPS

USE ConnsAssumption, TimeoutsAssumption, SlotsAssumption

\* DeadlineFixed speaks of draining tasks only; what makes it true of a task
\* that begins to drain is that the clock of one that does not is at zero.
FreshUntilDrain == \A c \in Conns \ Draining : conn[c].age = 0

IInv == TypeOK /\ SlotsConserved /\ DeadlineFixed /\ FreshUntilDrain

-----------------------------------------------------------------------------
(***************************************************************************)
(* Slots.                                                                  *)
(***************************************************************************)

\* What a step may do to the slots: nothing, take one for c, or return c's.
Keeps == permits' = permits /\ Holders' = Holders
Takes(c) == c \notin Holders /\ permits > 0 /\ permits' = permits - 1 /\ Holders' = Holders \cup {c}
Returns(c) == c \in Holders /\ permits' = permits + 1 /\ Holders' = Holders \ {c}

\* Every step is one of these: the only way past a free permit is Accept, and
\* every way a task ends gives the permit back.
LEMMA SlotSteps ==
    ASSUME TypeOK, [Next]_vars
    PROVE  Keeps \/ \E c \in Conns : Takes(c) \/ Returns(c)
<1>1. CASE UNCHANGED <<permits, conn>>
  BY <1>1 DEF Keeps, Holders
<1>2. CASE AcceptError \/ AcceptRetry \/ StopAccepting \/ Reload \/ Cancel \/ Finished \/ UNCHANGED vars
  BY <1>1, <1>2
  DEF AcceptError, AcceptRetry, StopAccepting, LoopStep, Reload, Cancel, Finished, vars
<1>3. CASE Tick
  <2>1. \A c \in Conns : conn'[c].at = conn[c].at
    BY <1>3 DEF Tick, TypeOK
  <2>2. QED
    BY <1>3, <2>1 DEF Tick, Keeps, Holders
<1>4. ASSUME NEW c \in Conns, ClientConnects(c) \/ ClientLeaves(c) \/ BannerSent(c) \/ Drain(c)
      PROVE  Keeps
  BY <1>4 DEF ClientConnects, ClientLeaves, BannerSent, Drain, Draining, Keeps, Holders, TypeOK
<1>5. ASSUME NEW c \in Conns, Accept(c)
      PROVE  Keeps \/ Takes(c)
  <2>1. CASE PermitFree
    BY <1>5, <2>1 DEF Accept, PermitFree, Takes, Holders, TypeOK
  <2>2. CASE ~PermitFree
    BY <1>5, <2>2 DEF Accept, Keeps, Holders, TypeOK
  <2>3. QED
    BY <2>1, <2>2
<1>6. ASSUME NEW c \in Conns, ClientGone(c) \/ TimesOut(c)
      PROVE  Returns(c)
  BY <1>6
  DEF ClientGone, TimesOut, Close, Task, ReleasePermit, Draining, Returns, Holders, TypeOK
<1>7. QED
  BY <1>2, <1>3, <1>4, <1>5, <1>6 DEF Next, TaskStep

\* The holders can be counted, and one more or less changes the count by one.
LEMMA HoldersCounted ==
    /\ Cardinality(Holders) \in Nat
    /\ \A c \in Conns :
          /\ c \in Holders => Cardinality(Holders) > 0
          /\ c \notin Holders => Cardinality(Holders \cup {c}) = Cardinality(Holders) + 1
          /\ c \in Holders => Cardinality(Holders \ {c}) = Cardinality(Holders) - 1
<1>1. IsFiniteSet(Holders)
  BY FS_Subset DEF Holders
<1>2. Cardinality(Holders) \in Nat
  BY <1>1, FS_CardinalityType
<1>3. \A c \in Conns : c \in Holders => Cardinality(Holders) > 0
  BY <1>1, <1>2, FS_EmptySet
<1>4. QED
  BY <1>1, <1>2, <1>3, FS_AddElement, FS_RemoveElement

\* So slots are conserved, and the semaphore's count stays in its range.
LEMMA SlotsStep ==
    ASSUME TypeOK, SlotsConserved, [Next]_vars
    PROVE  SlotsConserved' /\ permits' \in 0 .. MAX_PROBE_CONNECTIONS
<1>1. permits \in 0 .. MAX_PROBE_CONNECTIONS /\ permits + Cardinality(Holders) = MAX_PROBE_CONNECTIONS
  BY DEF TypeOK, SlotsConserved
<1>2. CASE Keeps
  BY <1>1, <1>2 DEF Keeps, SlotsConserved
<1>3. ASSUME NEW c \in Conns, Takes(c)
      PROVE  SlotsConserved' /\ permits' \in 0 .. MAX_PROBE_CONNECTIONS
  <2>1. Cardinality(Holders') = Cardinality(Holders) + 1 /\ Cardinality(Holders) \in Nat
    BY <1>3, HoldersCounted DEF Takes
  <2>2. QED
    BY <1>1, <1>3, <2>1 DEF Takes, SlotsConserved
<1>4. ASSUME NEW c \in Conns, Returns(c)
      PROVE  SlotsConserved' /\ permits' \in 0 .. MAX_PROBE_CONNECTIONS
  <2>1. /\ Cardinality(Holders') = Cardinality(Holders) - 1
        /\ Cardinality(Holders) \in Nat /\ Cardinality(Holders) > 0
    BY <1>4, HoldersCounted DEF Returns
  <2>2. QED
    BY <1>1, <1>4, <2>1 DEF Returns, SlotsConserved
<1>5. QED
  BY <1>2, <1>3, <1>4, SlotSteps

-----------------------------------------------------------------------------
(***************************************************************************)
(* Types and deadlines.                                                    *)
(***************************************************************************)
TaskType == [at : {"unused", "backlog", "banner", "draining", "closed"},
             gone : BOOLEAN, idle_secs : Nat, timer : Nat, age : Nat]

\* What DeadlineFixed and FreshUntilDrain say of one task.
OnTime(t) == IF t.at = "draining" THEN t.age + t.timer = t.idle_secs ELSE t.age = 0

\* Every step leaves every task well typed and its deadline where it was.
LEMMA TaskStepSound ==
    ASSUME TypeOK, \A c \in Conns : OnTime(conn[c]), [Next]_vars
    PROVE  conn' \in [Conns -> TaskType] /\ \A c \in Conns : OnTime(conn'[c])
<1>1. conn \in [Conns -> TaskType] /\ probe_idle_timeout \in Nat
  BY DEF TypeOK, TaskType
<1>2. CASE UNCHANGED conn
  BY <1>1, <1>2
<1>3. ASSUME NEW c \in Conns, NEW t \in TaskType, OnTime(t), conn' = [conn EXCEPT ![c] = t]
      PROVE  conn' \in [Conns -> TaskType] /\ \A d \in Conns : OnTime(conn'[d])
  BY <1>1, <1>3
<1>4. CASE AcceptError \/ AcceptRetry \/ StopAccepting \/ Reload \/ Cancel \/ Finished \/ UNCHANGED vars
  BY <1>2, <1>4
  DEF AcceptError, AcceptRetry, StopAccepting, LoopStep, Reload, Cancel, Finished, vars
<1>5. CASE Tick
  <2>1. ASSUME NEW c \in Conns
        PROVE  conn'[c] \in TaskType /\ OnTime(conn'[c])
    <3>1. CASE c \in Draining
      <4>1. /\ conn[c] \in TaskType /\ conn[c].at = "draining" /\ conn[c].timer > 0
            /\ conn[c].age + conn[c].timer = conn[c].idle_secs
        BY <1>1, <1>5, <3>1 DEF Tick, Draining, OnTime
      <4>2. PICK r \in TaskType : r = conn[c]
        BY <4>1
      <4>3. PICK a \in Nat, t \in Nat : a = r.age + 1 /\ t = r.timer - 1
        <5>1. r.age \in Nat /\ r.timer \in Nat
          BY DEF TaskType
        <5>2. r.timer > 0
          BY <4>1, <4>2
        <5>3. r.age + 1 \in Nat /\ r.timer - 1 \in Nat
          BY <5>1, <5>2
        <5>4. QED
          BY <5>3
      <4>4. conn'[c] = [r EXCEPT !.timer = t, !.age = a]
        BY <1>5, <3>1, <4>2, <4>3 DEF Tick
      <4>5. /\ conn'[c] \in TaskType
            /\ conn'[c].age = a /\ conn'[c].timer = t
            /\ conn'[c].idle_secs = r.idle_secs /\ conn'[c].at = "draining"
        BY <4>1, <4>2, <4>4 DEF TaskType
      <4>6. a + t = r.idle_secs
        BY <4>1, <4>2, <4>3 DEF TaskType
      <4>7. QED
        BY <4>5, <4>6 DEF OnTime
    <3>2. CASE c \notin Draining
      BY <1>1, <1>5, <3>2 DEF Tick
    <3>3. QED
      BY <3>1, <3>2
  <2>2. QED
    BY <1>5, <2>1 DEF Tick
<1>6. ASSUME NEW c \in Conns, ClientConnects(c) \/ ClientLeaves(c) \/ Accept(c) \/ TaskStep(c) \/ Drain(c)
      PROVE  \E t \in TaskType : OnTime(t) /\ conn' = [conn EXCEPT ![c] = t]
  <2>1. conn[c] \in TaskType /\ OnTime(conn[c])
    BY <1>1
  <2>2. CASE ClientConnects(c)
    <3> DEFINE t == [conn[c] EXCEPT !.at = "backlog"]
    <3>1. t \in TaskType /\ OnTime(t) /\ conn' = [conn EXCEPT ![c] = t]
      BY <2>1, <2>2, <1>1 DEF ClientConnects, TaskType, OnTime
    <3>2. QED
      BY <3>1
  <2>3. CASE ClientLeaves(c)
    <3> DEFINE t == [conn[c] EXCEPT !.gone = TRUE]
    <3>1. t \in TaskType /\ OnTime(t) /\ conn' = [conn EXCEPT ![c] = t]
      BY <2>1, <2>3, <1>1 DEF ClientLeaves, TaskType, OnTime
    <3>2. QED
      BY <3>1
  <2>4. CASE Accept(c)
    <3> DEFINE t == [conn[c] EXCEPT !.at = "banner", !.idle_secs = probe_idle_timeout]
               u == [conn[c] EXCEPT !.at = "closed"]
    <3>1. t \in TaskType /\ OnTime(t) /\ u \in TaskType /\ OnTime(u)
      BY <2>1, <2>4, <1>1 DEF Accept, TaskType, OnTime
    <3>2. conn' = [conn EXCEPT ![c] = t] \/ conn' = [conn EXCEPT ![c] = u]
      BY <2>1, <2>4, <1>1 DEF Accept, TaskType
    <3>3. QED
      BY <3>1, <3>2
  <2>5. CASE BannerSent(c)
    <3> DEFINE t == [conn[c] EXCEPT !.at = "draining", !.timer = conn[c].idle_secs]
    <3>1. t \in TaskType /\ conn' = [conn EXCEPT ![c] = t]
      BY <2>1, <2>5, <1>1 DEF BannerSent, TaskType
    <3>2. conn[c].age = 0 /\ conn[c].idle_secs \in Nat
      BY <2>1, <2>5 DEF BannerSent, TaskType, OnTime
    <3>3. t.age = 0 /\ t.timer = conn[c].idle_secs /\ t.idle_secs = conn[c].idle_secs
      BY <2>1, <3>2 DEF TaskType
    <3>4. OnTime(t)
      BY <3>2, <3>3 DEF OnTime
    <3>5. QED
      BY <3>1, <3>4
  <2>6. CASE ClientGone(c) \/ TimesOut(c)
    <3>1. conn' = [conn EXCEPT ![c] = Task("closed")]
      BY <2>6 DEF ClientGone, TimesOut, Close
    <3>2. Task("closed") \in TaskType /\ OnTime(Task("closed"))
      BY DEF Task, TaskType, OnTime
    <3>3. QED
      BY <3>1, <3>2
  <2>7. CASE Drain(c)
    <3> DEFINE t == [conn[c] EXCEPT !.timer = conn[c].timer]
    <3>1. t \in TaskType /\ OnTime(t) /\ conn' = [conn EXCEPT ![c] = t]
      BY <2>1, <2>7, <1>1 DEF Drain, TimerAfterRead, TaskType, OnTime
    <3>2. QED
      BY <3>1
  <2>8. QED
    BY <1>6, <2>2, <2>3, <2>4, <2>5, <2>6, <2>7 DEF TaskStep
<1>7. QED
  BY <1>3, <1>4, <1>5, <1>6 DEF Next

\* A port that has accepted nothing satisfies the invariant.
LEMMA InvInit == Init => IInv
<1> SUFFICES ASSUME Init
             PROVE  IInv
  OBVIOUS
<1>1. TypeOK
  <2>1. Task("unused") \in TaskType
    BY DEF Task, TaskType
  <2>2. permits \in 0 .. MAX_PROBE_CONNECTIONS
    BY DEF Init
  <2>3. QED
    BY <2>1, <2>2 DEF Init, TypeOK, TaskType
<1>2. Holders = {} /\ Draining = {}
  BY DEF Init, Holders, Draining, Task
<1>3. SlotsConserved
  BY <1>2, FS_EmptySet DEF Init, SlotsConserved
<1>4. FreshUntilDrain
  BY DEF Init, FreshUntilDrain, Task
<1>5. QED
  BY <1>1, <1>2, <1>3, <1>4 DEF IInv, DeadlineFixed

\* Every step keeps it.
LEMMA InvStep == IInv /\ [Next]_vars => IInv'
<1> SUFFICES ASSUME IInv, [Next]_vars
             PROVE  IInv'
  OBVIOUS
<1>1. \A c \in Conns : OnTime(conn[c])
  BY DEF IInv, DeadlineFixed, FreshUntilDrain, Draining, OnTime
<1>2. SlotsConserved' /\ permits' \in 0 .. MAX_PROBE_CONNECTIONS
  BY SlotsStep DEF IInv
<1>3. conn' \in [Conns -> TaskType] /\ \A c \in Conns : OnTime(conn'[c])
  BY <1>1, TaskStepSound DEF IInv
<1>4. cancelled' \in BOOLEAN /\ accepting' \in {"accept", "sleep", "stopped"}
  BY DEF IInv, TypeOK, Next, TaskStep, ClientConnects, ClientLeaves, Accept, BannerSent, ClientGone,
         TimesOut, Close, Drain, AcceptError, AcceptRetry, StopAccepting, LoopStep, Reload, Cancel,
         Tick, Finished, vars
<1>5. probe_idle_timeout' \in Timeouts
  BY DEF IInv, TypeOK, Next, TaskStep, ClientConnects, ClientLeaves, Accept, BannerSent, ClientGone,
         TimesOut, Close, Drain, AcceptError, AcceptRetry, StopAccepting, LoopStep, Reload, Cancel,
         Tick, Finished, vars
<1>6. TypeOK'
  BY <1>2, <1>3, <1>4, <1>5 DEF TypeOK, TaskType
<1>7. DeadlineFixed' /\ FreshUntilDrain'
  BY <1>3 DEF DeadlineFixed, FreshUntilDrain, Draining, OnTime
<1>8. QED
  BY <1>2, <1>6, <1>7 DEF IInv

\* Every reachable state satisfies it.
LEMMA Invariant == Spec => []IInv
BY InvInit, InvStep, PTL DEF Spec

-----------------------------------------------------------------------------
\* Types of the accept loop's and the tasks' state.
THEOREM TypeCorrect == Spec => []TypeOK
<1>1. IInv => TypeOK
  BY DEF IInv
<1>2. QED
  BY <1>1, Invariant, PTL

\* However a probe connection ends, its permit is free again, and no sooner.
THEOREM SlotsNeverLeak == Spec => []SlotsConserved
<1>1. IInv => SlotsConserved
  BY DEF IInv
<1>2. QED
  BY <1>1, Invariant, PTL

\* A connection is dropped idle_secs after its banner, for every timeout it can
\* have been accepted under, whatever the client sends and however often the
\* config is reloaded.
THEOREM DeadlineNeverMoves == Spec => []DeadlineFixed
<1>1. IInv => DeadlineFixed
  BY DEF IInv
<1>2. QED
  BY <1>1, Invariant, PTL

\* The safety half of ImplementsSlotPool: no more than MAX_PROBE_CONNECTIONS
\* are served at once and no task moves the slot of another.
THEOREM BoundedPool == Spec => Pool!Bounded
<1>1. Init => Pool!Init
  BY DEF Init, Pool!Init, Holders, Task
<1>2. IInv /\ [Next]_vars => [Pool!Next]_Holders
  <2> SUFFICES ASSUME IInv, [Next]_vars
               PROVE  Pool!Next \/ Holders' = Holders
    OBVIOUS
  <2>1. TypeOK /\ permits \in Nat /\ permits + Cardinality(Holders) = MAX_PROBE_CONNECTIONS
    BY DEF IInv, TypeOK, SlotsConserved
  <2>2. ASSUME NEW c \in Conns, Takes(c)
        PROVE  Pool!Next
    <3>1. Pool!Cardinality(Holders) = Cardinality(Holders)
      BY DEF Cardinality, Pool!Cardinality
    <3>2. Cardinality(Holders) < MAX_PROBE_CONNECTIONS
      BY <2>1, <2>2, HoldersCounted DEF Takes
    <3>3. QED
      BY <2>2, <3>1, <3>2 DEF Takes, Pool!Next, Pool!Acquire
  <2>3. ASSUME NEW c \in Conns, Returns(c)
        PROVE  Pool!Next
    BY <2>3 DEF Returns, Pool!Next, Pool!Release
  <2>4. QED
    BY <2>1, <2>2, <2>3, SlotSteps DEF Keeps
<1>3. QED
  BY <1>1, <1>2, Invariant, PTL DEF Spec, Pool!Bounded
=============================================================================
