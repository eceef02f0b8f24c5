------------------------ MODULE ServerSessionsProofs ------------------------
(***************************************************************************)
(* The server's sessions for any number of connections, names, slots and   *)
(* label entries: slots and labels are bounded, sessions are accounted     *)
(* for, and the gauge is exact unless sessions of one name overlapped.     *)
(***************************************************************************)
EXTENDS ServerSessions, FiniteSetTheorems, TLAPS

USE ConnsAssumption, LimitsAssumption, HeartbeatsAssumption
USE DEF loopVars, connVars, metricVars

\* The connections that hold a slot, and those whose session is counted as
\* started and not yet as ended.
Held == {c \in Conns : HoldsPermit(c)}
Counting(n) ==
    {c \in Conns : name[c] = n /\ pc[c] \in {"reading", "echoing", "ending", "deactivated"}}

Driven == {"reading", "echoing", "ending"}
Registered == {"registered", "activated", "reading", "echoing", "ending", "deactivated"}

-----------------------------------------------------------------------------
(***************************************************************************)
(* What a step may be.                                                     *)
(***************************************************************************)

\* drive_session returns one of the four reasons.
LEMMA ReturnReasons ==
    ASSUME NEW e
    PROVE  RecvReason(e) \in Reasons /\ EchoReason(e) \in Reasons
BY DEF RecvReason, EchoReason, Reasons

\* Every way out of drive_session.
Returns(c) == pc[c] \in {"reading", "echoing"} /\ \E r \in Reasons : Return(c, r)

\* The four actions that leave drive_session are ways to return.
LEMMA WaysToReturn ==
    ASSUME NEW c \in Conns, RecvTimesOut(c) \/ RecvFails(c) \/ EchoFails(c) \/ LocalError(c)
    PROVE  Returns(c)
<1>1. CASE RecvTimesOut(c)
  BY <1>1 DEF RecvTimesOut, Returns, Reasons
<1>2. CASE RecvFails(c)
  BY <1>2, ReturnReasons DEF RecvFails, Returns
<1>3. CASE EchoFails(c)
  BY <1>3, ReturnReasons DEF EchoFails, Returns
<1>4. CASE LocalError(c)
  BY <1>4, ReturnReasons DEF LocalError, Returns
<1>5. QED
  BY <1>1, <1>2, <1>3, <1>4

\* Steps that concern the accept loop alone.
LoopStep ==
    UNCHANGED <<permits, connVars, seen, metricVars, overlap>>
        /\ cancelled' \in BOOLEAN /\ accepting' \in {"accept", "sleep", "stopped"}

\* The actions of the accept loop, and stuttering, are such steps.
LEMMA LoopSteps ==
    ASSUME cancelled \in BOOLEAN, accepting \in {"accept", "sleep", "stopped"},
           AcceptError \/ AcceptRetry \/ StopAccepting \/ Cancel \/ Finished \/ UNCHANGED vars
    PROVE  LoopStep
BY DEF AcceptError, AcceptRetry, StopAccepting, Cancel, Finished, vars, LoopStep

\* The steps of one connection.
ConnStep(c) ==
    \/ ClientConnects(c) \/ RemoteChanges(c) \/ Accept(c) \/ HandshakeFails(c)
    \/ \E n \in Names : Handshake(c, n)
    \/ Activate(c) \/ CountSession(c) \/ Deactivate(c) \/ CountDisconnect(c)
    \/ RecvHeartbeat(c) \/ EchoSent(c) \/ EchoBuffered(c) \/ Returns(c)

\* A step is one of the accept loop or one of some connection.
LEMMA StepCases ==
    ASSUME TypeOK, [Next]_vars
    PROVE  LoopStep \/ \E c \in Conns : ConnStep(c)
<1>1. CASE AcceptError \/ AcceptRetry \/ StopAccepting \/ Cancel \/ Finished \/ UNCHANGED vars
  BY <1>1, LoopSteps DEF TypeOK
<1>2. ASSUME NEW c \in Conns, TaskStep(c)
      PROVE  ConnStep(c)
  BY <1>2, WaysToReturn DEF TaskStep, ConnStep
<1>3. ASSUME NEW c \in Conns,
             \/ ClientConnects(c) \/ RemoteChanges(c)
             \/ Accept(c)
             \/ HandshakeFails(c)
             \/ \E n \in Names : Handshake(c, n)
             \/ RecvHeartbeat(c) \/ EchoBuffered(c) \/ LocalError(c)
      PROVE  ConnStep(c)
  BY <1>3, WaysToReturn DEF ConnStep
<1>4. QED
  BY <1>1, <1>2, <1>3 DEF Next

-----------------------------------------------------------------------------
(***************************************************************************)
(* Sets of connections, counted.                                           *)
(***************************************************************************)

\* Adding and removing one connection.
LEMMA CountAdd ==
    ASSUME NEW S \in SUBSET Conns, NEW c \in Conns
    PROVE  /\ Cardinality(S) \in Nat
           /\ c \in S => Cardinality(S) > 0
           /\ c \notin S => Cardinality(S \cup {c}) = Cardinality(S) + 1
           /\ c \in S => Cardinality(S \ {c}) = Cardinality(S) - 1
<1>1. IsFiniteSet(S)
  BY FS_Subset
<1>2. Cardinality(S) \in Nat
  BY <1>1, FS_CardinalityType
<1>3. c \in S => Cardinality(S) > 0
  BY <1>1, <1>2, FS_EmptySet
<1>4. QED
  BY <1>1, <1>2, <1>3, FS_AddElement, FS_RemoveElement

\* A step of one connection changes who holds a slot by at most this one.
LEMMA HeldAfter ==
    ASSUME TypeOK, NEW c \in Conns, NEW w, Goto(c, w)
    PROVE  Held' = IF w \in {"unused", "backlog", "closed"} THEN Held \ {c} ELSE Held \cup {c}
BY DEF TypeOK, Goto, Held, HoldsPermit

\* Within drive_session nothing changes about who is live or counted.
LEMMA DrivenAfter ==
    ASSUME TypeOK, NEW c \in Conns, NEW w \in Driven, pc[c] \in Driven, Goto(c, w), UNCHANGED name
    PROVE  \A n \in Names : LiveFor(n)' = LiveFor(n) /\ Counting(n)' = Counting(n)
BY DEF TypeOK, Goto, LiveFor, Live, Counting, Driven

\* A step changes the slots so, and keeps them in range.
LEMMA SlotsStep ==
    ASSUME TypeOK, SlotsConserved, [Next]_vars
    PROVE  SlotsConserved' /\ permits' \in 0 .. MAX_CONNECTIONS
<1>1. Held \in SUBSET Conns /\ permits \in 0 .. MAX_CONNECTIONS
  BY DEF Held, TypeOK
<1>2. permits + Cardinality(Held) = MAX_CONNECTIONS
  BY DEF SlotsConserved, Held
<1>3. SUFFICES permits' + Cardinality(Held') = MAX_CONNECTIONS /\ permits' \in 0 .. MAX_CONNECTIONS
  BY DEF SlotsConserved, Held
<1>4. CASE LoopStep
  <2>1. Held' = Held /\ permits' = permits
    BY <1>4 DEF LoopStep, Held, HoldsPermit
  <2>2. QED
    BY <2>1, <1>1, <1>2
<1>5. ASSUME NEW c \in Conns, ConnStep(c)
      PROVE  permits' + Cardinality(Held') = MAX_CONNECTIONS /\ permits' \in 0 .. MAX_CONNECTIONS
  <2>1. CASE permits' = permits /\ Held' = Held
    BY <2>1, <1>1, <1>2
  <2>2. CASE c \notin Held /\ permits > 0 /\ permits' = permits - 1 /\ Held' = Held \cup {c}
    BY <2>2, <1>1, <1>2, CountAdd
  <2>3. CASE c \in Held /\ permits' = permits + 1 /\ Held' = Held \ {c}
    BY <2>3, <1>1, <1>2, CountAdd
  <2>4. CASE RemoteChanges(c)
    BY <2>4, <2>1 DEF RemoteChanges, Held, HoldsPermit
  <2>5. CASE ClientConnects(c)
    BY <2>5, <2>1, HeldAfter DEF ClientConnects, Held, HoldsPermit
  <2>6. CASE Accept(c)
    BY <2>6, <2>1, <2>2, <1>1, HeldAfter DEF Accept, PermitFree, Held, HoldsPermit
  <2>7. CASE HandshakeFails(c)
    BY <2>7, <2>3, HeldAfter DEF HandshakeFails, Close, ReleasePermit, Held, HoldsPermit
  <2>8. ASSUME NEW n \in Names, Handshake(c, n)
        PROVE  permits' + Cardinality(Held') = MAX_CONNECTIONS /\ permits' \in 0 .. MAX_CONNECTIONS
    BY <2>8, <2>1, <2>3, HeldAfter DEF Handshake, Close, ReleasePermit, Held, HoldsPermit
  <2>9. CASE CountDisconnect(c)
    BY <2>9, <2>3, HeldAfter DEF CountDisconnect, Close, ReleasePermit, Held, HoldsPermit
  <2>10. CASE Activate(c) \/ CountSession(c) \/ Deactivate(c) \/ RecvHeartbeat(c) \/ EchoSent(c)
               \/ EchoBuffered(c) \/ Returns(c)
    BY <2>10, <2>1, HeldAfter
    DEF Activate, CountSession, Deactivate, RecvHeartbeat, EchoSent, EchoBuffered, Returns, Return,
        Held, HoldsPermit
  <2>11. QED
    BY <1>5, <2>4, <2>5, <2>6, <2>7, <2>8, <2>9, <2>10 DEF ConnStep
<1>6. QED
  BY <1>4, <1>5, StepCases

-----------------------------------------------------------------------------
(***************************************************************************)
(* Types, and what a connection has at each place of its task.             *)
(***************************************************************************)

\* A session has a name that try_register admitted, and from its end on a
\* reason; the set of names is finite, so that it can be counted.
Known ==
    /\ IsFiniteSet(seen)
    /\ \A c \in Conns : pc[c] \in Registered => name[c] \in seen
    /\ \A c \in Conns : pc[c] \in {"ending", "deactivated"} => reason[c] \in Reasons

\* Every step keeps the types; permits stay in range because slots do.
LEMMA TypeStep ==
    ASSUME TypeOK, Known, SlotsConserved, [Next]_vars
    PROVE  TypeOK'
<1>1. permits' \in 0 .. MAX_CONNECTIONS
  BY SlotsStep
<1>2. CASE LoopStep
  BY <1>1, <1>2 DEF LoopStep, TypeOK
<1>3. ASSUME NEW c \in Conns, ConnStep(c)
      PROVE  TypeOK'
  <2> DEFINE n == name[c]
  <2>1. pc[c] \in Registered => n \in Names
    BY DEF TypeOK, Known
  <2>2. CASE ClientConnects(c) \/ RemoteChanges(c) \/ EchoSent(c) \/ EchoBuffered(c)
    BY <1>1, <2>2 DEF ClientConnects, RemoteChanges, EchoSent, EchoBuffered, Goto, TypeOK
  <2>3. CASE Accept(c) \/ HandshakeFails(c)
    BY <1>1, <2>3 DEF Accept, HandshakeFails, Close, Goto, TypeOK
  <2>4. ASSUME NEW m \in Names, Handshake(c, m)
        PROVE  TypeOK'
    <3>1. UNCHANGED <<loopVars, reason, remote, read, metricVars, overlap>>
      BY <2>4 DEF Handshake
    <3>2. name' \in [Conns -> Names \cup {NoName}] /\ seen' \subseteq Names
      BY <2>4 DEF Handshake, TypeOK
    <3>3. \E w \in {"registered", "closed"} : pc' = [pc EXCEPT ![c] = w]
      BY <2>4 DEF Handshake, Close, Goto
    <3>4. QED
      BY <1>1, <3>1, <3>2, <3>3 DEF TypeOK
  <2>5. CASE Activate(c)
    BY <1>1, <2>1, <2>5 DEF Activate, SetActive, Goto, Registered, TypeOK
  <2>6. CASE CountSession(c)
    BY <1>1, <2>1, <2>6 DEF CountSession, Goto, Registered, TypeOK
  <2>7. CASE Deactivate(c)
    BY <1>1, <2>1, <2>7 DEF Deactivate, SetActive, Goto, Registered, TypeOK
  <2>8. CASE CountDisconnect(c)
    <3>1. n \in Names /\ reason[c] \in Reasons
      BY <2>1, <2>8 DEF CountDisconnect, Registered, Known
    <3>2. disconnects' \in [Names -> [Reasons -> Nat]]
      BY <3>1, <2>8 DEF CountDisconnect, Counted, TypeOK
    <3>3. QED
      BY <1>1, <2>8, <3>2 DEF CountDisconnect, Close, Goto, TypeOK
  <2>9. CASE RecvHeartbeat(c)
    BY <1>1, <2>1, <2>9 DEF RecvHeartbeat, Goto, Registered, TypeOK
  <2>10. CASE Returns(c)
    BY <1>1, <2>10 DEF Returns, Return, Goto, TypeOK
  <2>11. QED
    BY <1>3, <2>2, <2>3, <2>4, <2>5, <2>6, <2>7, <2>8, <2>9, <2>10 DEF ConnStep
<1>4. QED
  BY <1>2, <1>3, StepCases

\* Registration gives a connection its name, the end of drive_session its
\* reason, and no later step takes them away.
LEMMA KnownStep ==
    ASSUME TypeOK, Known, [Next]_vars
    PROVE  Known'
<1>1. CASE LoopStep
  BY <1>1 DEF LoopStep, Known
<1>2. ASSUME NEW c \in Conns, ConnStep(c)
      PROVE  Known'
  <2>1. CASE ClientConnects(c) \/ RemoteChanges(c) \/ EchoSent(c) \/ EchoBuffered(c)
    BY <2>1 DEF ClientConnects, RemoteChanges, EchoSent, EchoBuffered, Goto, TypeOK, Known, Registered
  <2>2. CASE Accept(c) \/ HandshakeFails(c)
    BY <2>2 DEF Accept, HandshakeFails, Close, Goto, TypeOK, Known, Registered
  <2>3. ASSUME NEW m \in Names, Handshake(c, m)
        PROVE  Known'
    <3>1. IsFiniteSet(seen')
      BY <2>3, FS_AddElement DEF Handshake, Known
    <3>2. QED
      BY <2>3, <3>1 DEF Handshake, Close, Goto, TypeOK, Known, Registered
  <2>4. CASE Activate(c) \/ CountSession(c) \/ Deactivate(c) \/ CountDisconnect(c)
    BY <2>4 DEF Activate, CountSession, Deactivate, CountDisconnect, Close, Goto, TypeOK, Known, Registered
  <2>5. CASE RecvHeartbeat(c) \/ Returns(c)
    BY <2>5 DEF RecvHeartbeat, Returns, Return, Goto, TypeOK, Known, Registered
  <2>6. QED
    BY <1>2, <2>1, <2>2, <2>3, <2>4, <2>5 DEF ConnStep
<1>3. QED
  BY <1>1, <1>2, StepCases

-----------------------------------------------------------------------------
(***************************************************************************)
(* Labels.                                                                 *)
(***************************************************************************)

\* Metrics change only under a name that was admitted.
LEMMA LabelsStep ==
    ASSUME TypeOK, Known, LabelsBounded, [Next]_vars
    PROVE  LabelsBounded'
<1>1. CASE LoopStep
  BY <1>1 DEF LoopStep, LabelsBounded
<1>2. ASSUME NEW c \in Conns, ConnStep(c)
      PROVE  LabelsBounded'
  <2>1. pc[c] \in Registered => name[c] \in seen
    BY DEF Known
  <2>2. CASE ClientConnects(c) \/ RemoteChanges(c) \/ EchoSent(c) \/ EchoBuffered(c)
    BY <2>2 DEF ClientConnects, RemoteChanges, EchoSent, EchoBuffered, LabelsBounded
  <2>3. CASE Accept(c) \/ HandshakeFails(c) \/ Returns(c)
    BY <2>3 DEF Accept, HandshakeFails, Returns, Return, LabelsBounded
  <2>4. ASSUME NEW m \in Names, Handshake(c, m)
        PROVE  LabelsBounded'
    <3>1. Cardinality(seen') <= MAX_UNIQUE_SERVER_PEERS
      <4>1. Cardinality(seen) \in Nat
        BY FS_CardinalityType DEF Known
      <4>2. CASE m \in seen \/ ~try_register(m)
        <5>1. seen' = seen
          BY <2>4, <4>2 DEF Handshake
        <5>2. QED
          BY <5>1 DEF LabelsBounded
      <4>3. CASE m \notin seen /\ try_register(m)
        <5>1. seen' = seen \cup {m}
          BY <2>4, <4>3 DEF Handshake
        <5>2. Cardinality(seen \cup {m}) = Cardinality(seen) + 1
          BY <4>3, FS_AddElement DEF Known
        <5>3. QED
          BY <4>1, <4>3, <5>1, <5>2 DEF try_register
      <4>4. QED
        BY <4>2, <4>3
    <3>2. seen \subseteq seen'
      BY <2>4 DEF Handshake
    <3>3. QED
      BY <2>4, <3>1, <3>2 DEF Handshake, LabelsBounded
  <2>5. CASE Activate(c) \/ CountSession(c) \/ Deactivate(c) \/ CountDisconnect(c) \/ RecvHeartbeat(c)
    BY <2>1, <2>5
    DEF Activate, CountSession, Deactivate, CountDisconnect, RecvHeartbeat, SetActive, Registered,
        TypeOK, LabelsBounded
  <2>6. QED
    BY <1>2, <2>2, <2>3, <2>4, <2>5 DEF ConnStep
<1>3. QED
  BY <1>1, <1>2, StepCases

-----------------------------------------------------------------------------
(***************************************************************************)
(* Accounting.                                                             *)
(***************************************************************************)

\* The disconnects counted for a name.
Ended(n) ==
    disconnects[n]["remote_close"] + disconnects[n]["connection_reset"]
    + disconnects[n]["timeout"] + disconnects[n]["local_error"]

\* One more disconnect, of whatever reason, is one more.
LEMMA OneMoreEnded ==
    ASSUME TypeOK, NEW n \in Names, NEW r \in Reasons, disconnects' = Counted(n, r)
    PROVE  /\ Ended(n) \in Nat /\ Ended(n)' = Ended(n) + 1
           /\ \A m \in Names : m # n => Ended(m)' = Ended(m)
<1>1. disconnects[n] \in [Reasons -> Nat]
  BY DEF TypeOK
<1>2. disconnects'[n] = [disconnects[n] EXCEPT ![r] = @ + 1]
  BY DEF TypeOK, Counted
<1>3. \A m \in Names : m # n => disconnects'[m] = disconnects[m]
  BY DEF TypeOK, Counted
<1>4. Ended(n) \in Nat /\ Ended(n)' = Ended(n) + 1
  BY <1>1, <1>2 DEF Reasons, Ended
<1>5. QED
  BY <1>3, <1>4 DEF Ended

\* A session is counted when it starts and its reason when it ends, whatever
\* it was, and the connection is among those counting exactly in between.
LEMMA AccountingStep ==
    ASSUME TypeOK, Known, SessionAccounting, [Next]_vars
    PROVE  SessionAccounting'
<1>1. \A n \in Names : sessions_total[n] = Ended(n) + Cardinality(Counting(n))
  BY DEF SessionAccounting, Ended, Counting
<1>2. SUFFICES \A n \in Names : sessions_total'[n] = Ended(n)' + Cardinality(Counting(n)')
  BY DEF SessionAccounting, Ended, Counting
<1>3. ASSUME \A n \in Names : Counting(n)' = Counting(n),
             sessions_total' = sessions_total, disconnects' = disconnects
      PROVE  \A n \in Names : sessions_total'[n] = Ended(n)' + Cardinality(Counting(n)')
  BY <1>1, <1>3 DEF Ended
<1>4. CASE LoopStep
  BY <1>3, <1>4 DEF LoopStep, Counting
<1>5. ASSUME NEW c \in Conns, ConnStep(c)
      PROVE  \A n \in Names : sessions_total'[n] = Ended(n)' + Cardinality(Counting(n)')
  <2>1. pc[c] \in Registered => name[c] \in Names
    BY DEF TypeOK, Known
  <2>2. CASE ClientConnects(c) \/ RemoteChanges(c) \/ Accept(c) \/ HandshakeFails(c)
    BY <1>3, <2>2
    DEF ClientConnects, RemoteChanges, Accept, HandshakeFails, Close, Goto, Counting, TypeOK
  <2>3. ASSUME NEW m \in Names, Handshake(c, m)
        PROVE  \A n \in Names : sessions_total'[n] = Ended(n)' + Cardinality(Counting(n)')
    <3>1. \E w \in {"registered", "closed"} : pc' = [pc EXCEPT ![c] = w]
      BY <2>3 DEF Handshake, Close, Goto
    <3>2. \A d \in Conns : d # c => name'[d] = name[d]
      BY <2>3 DEF Handshake, TypeOK
    <3>3. \A n \in Names : Counting(n)' = Counting(n)
      BY <2>3, <3>1, <3>2 DEF Handshake, Counting, TypeOK
    <3>4. QED
      BY <1>3, <2>3, <3>3 DEF Handshake
  <2>4. CASE Activate(c) \/ Deactivate(c)
    BY <1>3, <2>4 DEF Activate, Deactivate, Goto, Counting, TypeOK
  <2>5. CASE EchoSent(c) \/ EchoBuffered(c) \/ RecvHeartbeat(c) \/ Returns(c)
    BY <1>3, <2>5, DrivenAfter
    DEF EchoSent, EchoBuffered, RecvHeartbeat, Returns, Return, Driven
  <2>6. CASE CountSession(c)
    <3>1. PICK m \in Names : m = name[c]
      BY <2>1, <2>6 DEF CountSession, Registered
    <3>2. c \notin Counting(m) /\ Counting(m) \in SUBSET Conns
      BY <2>6 DEF CountSession, Counting
    <3>3. /\ Counting(m)' = Counting(m) \cup {c}
          /\ \A n \in Names : n # m => Counting(n)' = Counting(n)
      BY <2>6, <3>1 DEF CountSession, Goto, Counting, TypeOK
    <3>4. /\ sessions_total'[m] = sessions_total[m] + 1
          /\ \A n \in Names : n # m => sessions_total'[n] = sessions_total[n]
          /\ disconnects' = disconnects
      BY <2>6, <3>1 DEF CountSession, TypeOK
    <3>5. Cardinality(Counting(m)) \in Nat /\ Cardinality(Counting(m)') = Cardinality(Counting(m)) + 1
      BY <3>2, <3>3, CountAdd
    <3>6. Ended(m) \in Nat /\ \A n \in Names : Ended(n)' = Ended(n)
      BY <3>4 DEF Ended, TypeOK, Reasons
    <3>7. sessions_total'[m] = Ended(m)' + Cardinality(Counting(m)')
      BY <1>1, <3>4, <3>5, <3>6
    <3>8. QED
      BY <1>1, <3>3, <3>4, <3>6, <3>7
  <2>7. CASE CountDisconnect(c)
    <3>1. PICK m \in Names : m = name[c]
      BY <2>1, <2>7 DEF CountDisconnect, Registered
    <3>2. PICK r \in Reasons : r = reason[c]
      BY <2>7 DEF CountDisconnect, Known
    <3>3. c \in Counting(m) /\ Counting(m) \in SUBSET Conns
      BY <2>7, <3>1 DEF CountDisconnect, Counting
    <3>4. disconnects' = Counted(m, r) /\ sessions_total' = sessions_total
      BY <2>7, <3>1, <3>2 DEF CountDisconnect
    <3>5. /\ Counting(m)' = Counting(m) \ {c}
          /\ \A n \in Names : n # m => Counting(n)' = Counting(n)
      BY <2>7, <3>1 DEF CountDisconnect, Close, Goto, Counting, TypeOK
    <3>6. Cardinality(Counting(m)) \in Nat /\ Cardinality(Counting(m)') = Cardinality(Counting(m)) - 1
      BY <3>3, <3>5, CountAdd
    <3>7. /\ Ended(m) \in Nat /\ Ended(m)' = Ended(m) + 1
          /\ \A n \in Names : n # m => Ended(n)' = Ended(n)
      BY <3>4, OneMoreEnded
    <3>8. sessions_total'[m] = Ended(m)' + Cardinality(Counting(m)')
      BY <1>1, <3>4, <3>6, <3>7
    <3>9. QED
      BY <1>1, <3>4, <3>5, <3>7, <3>8
  <2>8. QED
    BY <1>5, <2>2, <2>3, <2>4, <2>5, <2>6, <2>7 DEF ConnStep
<1>6. QED
  BY <1>4, <1>5, StepCases

-----------------------------------------------------------------------------
(***************************************************************************)
(* The gauge.                                                              *)
(***************************************************************************)

\* GaugeExactUnlessOverlap alone does not say why a session that ends may
\* clear the gauge: without an overlap no other session of its name is live.
SingleUnlessOverlap ==
    \A n \in Names \ overlap : \A c, d \in LiveFor(n) : c = d

\* Sessions of one name that do not overlap write the gauge in turn.
LEMMA GaugeStep ==
    ASSUME TypeOK, Known, GaugeExactUnlessOverlap, SingleUnlessOverlap, [Next]_vars
    PROVE  GaugeExactUnlessOverlap' /\ SingleUnlessOverlap'
<1>1. ASSUME \A n \in Names : LiveFor(n)' = LiveFor(n),
             session_active' = session_active, overlap' = overlap
      PROVE  GaugeExactUnlessOverlap' /\ SingleUnlessOverlap'
  BY <1>1 DEF GaugeExactUnlessOverlap, SingleUnlessOverlap
<1>2. CASE LoopStep
  BY <1>1, <1>2 DEF LoopStep, LiveFor, Live
<1>3. ASSUME NEW c \in Conns, ConnStep(c)
      PROVE  GaugeExactUnlessOverlap' /\ SingleUnlessOverlap'
  <2>1. pc[c] \in Registered => name[c] \in Names
    BY DEF TypeOK, Known
  <2>2. CASE ClientConnects(c) \/ RemoteChanges(c) \/ Accept(c) \/ HandshakeFails(c)
              \/ CountDisconnect(c) \/ CountSession(c)
    BY <1>1, <2>2
    DEF ClientConnects, RemoteChanges, Accept, HandshakeFails, CountDisconnect, CountSession, Close,
        Goto, LiveFor, Live, TypeOK
  <2>3. ASSUME NEW m \in Names, Handshake(c, m)
        PROVE  GaugeExactUnlessOverlap' /\ SingleUnlessOverlap'
    <3>1. \E w \in {"registered", "closed"} : pc' = [pc EXCEPT ![c] = w]
      BY <2>3 DEF Handshake, Close, Goto
    <3>2. \A d \in Conns : d # c => name'[d] = name[d]
      BY <2>3 DEF Handshake, TypeOK
    <3>3. \A n \in Names : LiveFor(n)' = LiveFor(n)
      BY <2>3, <3>1, <3>2 DEF Handshake, LiveFor, Live, TypeOK
    <3>4. QED
      BY <1>1, <2>3, <3>3 DEF Handshake
  <2>4. CASE EchoSent(c) \/ EchoBuffered(c) \/ RecvHeartbeat(c) \/ Returns(c)
    BY <1>1, <2>4, DrivenAfter
    DEF EchoSent, EchoBuffered, RecvHeartbeat, Returns, Return, Driven
  <2>5. CASE Activate(c)
    <3>1. PICK m \in Names : m = name[c]
      BY <2>1, <2>5 DEF Activate, Registered
    <3>2. /\ LiveFor(m)' = LiveFor(m) \cup {c}
          /\ \A n \in Names : n # m => LiveFor(n)' = LiveFor(n)
      BY <2>5, <3>1 DEF Activate, Goto, LiveFor, Live, TypeOK
    <3>3. /\ session_active'[m] = 1
          /\ \A n \in Names : n # m => session_active'[n] = session_active[n]
      BY <2>5, <3>1 DEF Activate, SetActive, TypeOK
    <3>4. overlap' = IF LiveFor(m) = {} THEN overlap \ {m} ELSE overlap \cup {m}
      BY <2>5, <3>1 DEF Activate
    <3>5. QED
      BY <3>1, <3>2, <3>3, <3>4 DEF GaugeExactUnlessOverlap, SingleUnlessOverlap
  <2>6. CASE Deactivate(c)
    <3>1. PICK m \in Names : m = name[c]
      BY <2>1, <2>6 DEF Deactivate, Registered
    <3>2. /\ c \in LiveFor(m) /\ LiveFor(m)' = LiveFor(m) \ {c}
          /\ \A n \in Names : n # m => LiveFor(n)' = LiveFor(n)
      BY <2>6, <3>1 DEF Deactivate, Goto, LiveFor, Live, TypeOK
    <3>3. /\ session_active'[m] = 0
          /\ \A n \in Names : n # m => session_active'[n] = session_active[n]
          /\ overlap' = overlap
      BY <2>6, <3>1 DEF Deactivate, SetActive, TypeOK
    <3>4. QED
      BY <3>1, <3>2, <3>3 DEF GaugeExactUnlessOverlap, SingleUnlessOverlap
  <2>7. QED
    BY <1>3, <2>2, <2>3, <2>4, <2>5, <2>6 DEF ConnStep
<1>4. QED
  BY <1>2, <1>3, StepCases

-----------------------------------------------------------------------------
(***************************************************************************)
(* The inductive invariant and what follows from it.                       *)
(***************************************************************************)
IInv ==
    /\ TypeOK
    /\ Known
    /\ SlotsConserved
    /\ LabelsBounded
    /\ SessionAccounting
    /\ GaugeExactUnlessOverlap
    /\ SingleUnlessOverlap

\* A server that has accepted nothing satisfies it.
LEMMA InvInit == Init => IInv
<1> SUFFICES ASSUME Init
             PROVE  IInv
  OBVIOUS
<1>1. TypeOK
  <2>1. permits \in 0 .. MAX_CONNECTIONS /\ disconnects \in [Names -> [Reasons -> Nat]]
    BY DEF Init
  <2>2. QED
    BY <2>1 DEF Init, TypeOK
<1>2. Known
  BY FS_EmptySet DEF Init, Known, Registered
<1>3. SlotsConserved
  <2>1. {c \in Conns : HoldsPermit(c)} = {}
    BY DEF Init, HoldsPermit
  <2>2. QED
    BY <2>1, FS_EmptySet DEF Init, SlotsConserved
<1>4. LabelsBounded
  BY FS_EmptySet DEF Init, LabelsBounded
<1>5. SessionAccounting
  <2>1. \A n \in Names : Counting(n) = {}
    BY DEF Init, Counting
  <2>2. \A n \in Names : Cardinality(Counting(n)) = 0
    BY <2>1, FS_EmptySet
  <2>3. QED
    BY <2>2 DEF Init, SessionAccounting, Counting, Reasons
<1>6. GaugeExactUnlessOverlap /\ SingleUnlessOverlap
  BY DEF Init, GaugeExactUnlessOverlap, SingleUnlessOverlap, LiveFor, Live
<1>7. QED
  BY <1>1, <1>2, <1>3, <1>4, <1>5, <1>6 DEF IInv

\* Every step keeps it.
LEMMA InvStep == IInv /\ [Next]_vars => IInv'
BY TypeStep, KnownStep, SlotsStep, LabelsStep, AccountingStep, GaugeStep DEF IInv

\* Every reachable state satisfies it.
LEMMA Invariant == Spec => []IInv
BY InvInit, InvStep, PTL DEF Spec

\* Types: a permit count in range, a counter never negative, and every metric
\* touched under a name that exists.
THEOREM TypeCorrect == Spec => []TypeOK
<1>1. IInv => TypeOK
  BY DEF IInv
<1>2. QED
  BY <1>1, Invariant, PTL

\* Whatever way a connection's task ends (failed handshake, refused name, any
\* reason of drive_session), its permit is free again and was held until then.
THEOREM SlotsNeverLeak == Spec => []SlotsConserved
<1>1. IInv => SlotsConserved
  BY DEF IInv
<1>2. QED
  BY <1>1, Invariant, PTL

\* Any number of clients announcing any names at once get at most
\* MAX_UNIQUE_SERVER_PEERS of them into the metrics.
THEOREM LabelsStayBounded == Spec => []LabelsBounded
<1>1. IInv => LabelsBounded
  BY DEF IInv
<1>2. QED
  BY <1>1, Invariant, PTL

\* tcp_monitor_server_sessions_total is the disconnects of all reasons plus the
\* sessions that have yet to report theirs.
THEOREM SessionsAccountedFor == Spec => []SessionAccounting
<1>1. IInv => SessionAccounting
  BY DEF IInv
<1>2. QED
  BY <1>1, Invariant, PTL

\* tcp_monitor_server_session_active is exact for a name whose sessions do not
\* overlap, and never stays at 1 once none is left.
THEOREM GaugeExact == Spec => []GaugeExactUnlessOverlap
<1>1. IInv => GaugeExactUnlessOverlap
  BY DEF IInv
<1>2. QED
  BY <1>1, Invariant, PTL

\* try_register never turns away a peer that has had a session: a counted
\* session means an admitted name, and admitted names stay.
THEOREM KnownPeersPass == Spec => KnownPeerNeverRejected
<1> DEFINE Passes == \A c \in Conns, n \in Names :
                        sessions_total[n] > 0 /\ Handshake(c, n) => pc'[c] = "registered"
<1>1. IInv /\ [Next]_vars => [Passes]_vars
  <2> SUFFICES ASSUME IInv, NEW c \in Conns, NEW n \in Names, sessions_total[n] > 0, Handshake(c, n)
               PROVE  pc'[c] = "registered"
    OBVIOUS
  <2>1. n \in seen
    BY DEF IInv, LabelsBounded
  <2>2. QED
    BY <2>1 DEF Handshake, try_register, Goto, IInv, TypeOK
<1>2. QED
  BY <1>1, Invariant, PTL DEF Spec, KnownPeerNeverRejected

\* A step of the server, seen from its slots alone, takes one for a connection
\* while one is free, gives one back, or touches none.
LEMMA PoolStep == IInv /\ [Next]_vars => [Pool!Next]_Held
<1> SUFFICES ASSUME IInv, [Next]_vars
             PROVE  Pool!Next \/ Held' = Held
  OBVIOUS
<1>1. /\ TypeOK /\ permits \in Nat /\ Cardinality(Held) \in Nat
      /\ permits + Cardinality(Held) = MAX_CONNECTIONS
  <2>1. IsFiniteSet(Held)
    BY FS_Subset DEF Held
  <2>2. QED
    BY <2>1, FS_CardinalityType DEF IInv, SlotsConserved, TypeOK, Held
<1>2. CASE LoopStep
  BY <1>2 DEF LoopStep, Held, HoldsPermit
<1>3. ASSUME NEW c \in Conns, ConnStep(c)
      PROVE  Pool!Next \/ Held' = Held
  <2>1. CASE c \notin Held /\ permits > 0 /\ Held' = Held \cup {c}
    <3>1. Pool!Cardinality(Held) = Cardinality(Held)
      BY DEF Cardinality, Pool!Cardinality
    <3>2. Cardinality(Held) < MAX_CONNECTIONS
      BY <1>1, <2>1
    <3>3. QED
      BY <2>1, <3>1, <3>2 DEF Pool!Next, Pool!Acquire, Held
  <2>2. CASE c \in Held /\ Held' = Held \ {c}
    BY <2>2 DEF Pool!Next, Pool!Release, Held
  <2>3. CASE RemoteChanges(c)
    BY <2>3 DEF RemoteChanges, Held, HoldsPermit
  <2>4. CASE Accept(c)
    BY <1>1, <2>1, <2>4, HeldAfter DEF Accept, PermitFree, Held, HoldsPermit
  <2>5. ASSUME NEW n \in Names, Handshake(c, n)
        PROVE  Pool!Next \/ Held' = Held
    BY <1>1, <2>2, <2>5, HeldAfter DEF Handshake, Close, Held, HoldsPermit
  <2>6. CASE HandshakeFails(c) \/ CountDisconnect(c)
    BY <1>1, <2>2, <2>6, HeldAfter DEF HandshakeFails, CountDisconnect, Close, Held, HoldsPermit
  <2>7. CASE ClientConnects(c) \/ Activate(c) \/ CountSession(c) \/ Deactivate(c)
             \/ RecvHeartbeat(c) \/ EchoSent(c) \/ EchoBuffered(c) \/ Returns(c)
    BY <1>1, <2>7, HeldAfter
    DEF ClientConnects, Activate, CountSession, Deactivate, RecvHeartbeat, EchoSent, EchoBuffered,
        Returns, Return, Held, HoldsPermit
  <2>8. QED
    BY <1>3, <2>3, <2>4, <2>5, <2>6, <2>7 DEF ConnStep
<1>4. QED
  BY <1>1, <1>2, <1>3, StepCases

\* The accept loop and its tasks implement the bounded pool, for any limit.
THEOREM BoundedPool == Spec => ImplementsBoundedPool
<1>1. Init => Pool!Init
  BY DEF Init, Pool!Init, HoldsPermit
<1>2. IInv /\ [Next]_vars => [Pool!Next]_{c \in Conns : HoldsPermit(c)}
  BY PoolStep DEF Held
<1>3. QED
  BY <1>1, <1>2, Invariant, PTL DEF Spec, ImplementsBoundedPool, Pool!Bounded
=============================================================================
