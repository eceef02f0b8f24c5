------------------------------ MODULE LinkProofs ------------------------------
(***************************************************************************)
(* A session, at the client and at both ends.                              *)
(*                                                                         *)
(* First the specification of ClientSession, with any peer it allows, for  *)
(* every interval, delay and miss limit, any number of attempts and        *)
(* echoes, and any hold-up of the task: types, accounting, the time a dead *)
(* connection can stay unnoticed, and the safety part of the refinement of *)
(* PeerTask.  Nothing there uses the constants of Link.                    *)
(*                                                                         *)
(* Then Link, for every timeout and lag: its client is the one of          *)
(* ClientSession, an end that blames the other is right, a live client is  *)
(* never idle for longer than the bound, and timings that suit leave no    *)
(* old session behind.                                                     *)
(***************************************************************************)
EXTENDS Link, TLAPS

USE IntervalAssumption, ReconnectAssumption, MissesAssumption, BoundsAssumption
USE DEF taskVars, localVars, socketVars, beatVars, sessionVars, clockVars
USE DEF record_session_start, ClearActive, EndsRound, MissesLeft, ResetSchedule

\* The number of misses that end a session is positive.
LEMMA MissLimitType == MissLimit \in Nat /\ MissLimit > 0
BY DEF MissLimit

\* classify_io_error never blames a timeout or a failed connect.
LEMMA ClassifiedReasons ==
    ASSUME NEW e
    PROVE  classify_io_error(e) \in {"remote_close", "connection_reset", "local_error"}
BY DEF classify_io_error

-----------------------------------------------------------------------------
(***************************************************************************)
(* Types.                                                                  *)
(***************************************************************************)
BeatTypes ==
    /\ heartbeats_sent \in Nat /\ heartbeats_rx \in Nat /\ heartbeats_missed \in Nat
    /\ consecutive_missed_gauge \in Nat /\ rtt \in Int

\* What is left of a session that has ended is of its type.
LEMMA DropTypes ==
    ASSUME DropSessionState
    PROVE  /\ seq' \in Nat /\ consecutive_missed' \in 0 .. (MissLimit - 1) /\ got_echo' \in BOOLEAN
           /\ next_send' \in Int /\ deadline' \in 0 .. heartbeat_interval /\ send_age' \in Int
           /\ path' \in {"up", "dead", "fin", "rst", "fin_rst"}
           /\ taken' \in 0 .. arrived' /\ arrived' \in 0 .. seq'
           /\ silence' \in Nat /\ delays' \in 0 .. MaxDelay /\ steps' \in 0 .. MaxSteps
<1>1. got_echo' \in BOOLEAN
  BY DEF DropSessionState
<1>2. /\ seq' = 0 /\ consecutive_missed' = 0 /\ next_send' = 0 /\ deadline' = 0 /\ send_age' = 0
      /\ path' = "up" /\ arrived' = 0 /\ taken' = 0 /\ silence' = 0 /\ delays' = 0 /\ steps' = 0
  BY DEF DropSessionState
<1>3. QED
  BY <1>1, <1>2, MissLimitType

\* The tail of run_session keeps the types.
LEMMA EndSessionTypes ==
    ASSUME TypeOK, NEW r \in Reasons, EndSession(r), BeatTypes'
    PROVE  TypeOK'
<1>1. DropSessionState
  BY DEF EndSession
<1>2. QED
  BY <1>1, DropTypes DEF EndSession, TypeOK, Backoff, Reasons, BeatTypes

LEMMA InitTypes == Init => TypeOK
<1> SUFFICES ASSUME Init
             PROVE  TypeOK
  OBVIOUS
<1>1. cancelled \in BOOLEAN /\ got_echo \in BOOLEAN
  BY DEF Init
<1>2. disconnects \in [Reasons -> Nat]
  BY DEF Init
<1>3. QED
  BY <1>1, <1>2, MissLimitType DEF Init, TypeOK

LEMMA TypeStep == TypeOK /\ [Next]_vars => TypeOK'
<1> SUFFICES ASSUME TypeOK, [Next]_vars
             PROVE  TypeOK'
  OBVIOUS
<1> USE MissLimitType
<1>1. CASE ConnectOk
  BY <1>1 DEF ConnectOk, TypeOK
<1>2. CASE ConnectFails
  BY <1>2 DEF ConnectFails, Backoff, TypeOK, Reasons
<1>3. CASE BackoffOver
  BY <1>3 DEF BackoffOver, TypeOK
<1>4. CASE HandshakeSent
  BY <1>4 DEF HandshakeSent, Continue, TypeOK
<1>5. CASE HandshakeFails
  BY <1>5, DropTypes DEF HandshakeFails, Backoff, TypeOK
<1>6. CASE WaitOver
  BY <1>6 DEF WaitOver, Continue, TypeOK
<1>7. CASE SendHeartbeat
  <2>1. got_echo' \in BOOLEAN
    BY <1>7 DEF SendHeartbeat
  <2>2. /\ heartbeats_sent' = heartbeats_sent + 1 /\ seq' = seq + 1
        /\ send_age' \in (0 - steps) .. (delays + steps)
        /\ deadline' = heartbeat_interval /\ pc' = "awaiting"
        /\ UNCHANGED <<cancelled, sleep, attempts, consecutive_missed, next_send, socketVars,
                       heartbeats_rx, heartbeats_missed, consecutive_missed_gauge, rtt,
                       sessionVars, clockVars>>
    BY <1>7 DEF SendHeartbeat
  <2>3. QED
    BY <2>1, <2>2 DEF TypeOK
<1>8. CASE SendFails
  <2>1. PICK e \in WriteErrors : EndSession(classify_io_error(e))
    BY <1>8 DEF SendFails
  <2>2. BeatTypes'
    BY <1>8 DEF SendFails, BeatTypes, TypeOK
  <2>3. QED
    BY <2>1, <2>2, ClassifiedReasons, EndSessionTypes DEF Reasons
<1>9. CASE RecvEcho
  <2>1. got_echo' \in BOOLEAN
    BY <1>9 DEF RecvEcho
  <2>2. /\ taken < arrived /\ taken' = taken + 1
        /\ consecutive_missed' = 0 /\ silence' = 0
        /\ heartbeats_rx' = heartbeats_rx + 1 /\ consecutive_missed_gauge' = 0
        /\ rtt' \in {rtt, send_age}
    BY <1>9 DEF RecvEcho, Inbox, record_echo, TypeOK
  <2>3. pc' \in {"waiting", "sending", "awaiting"} /\ next_send' \in Int
    BY <1>9 DEF RecvEcho, Continue, TypeOK
  <2>4. UNCHANGED <<cancelled, sleep, attempts, seq, deadline, send_age, path, arrived,
                    heartbeats_sent, heartbeats_missed, sessionVars, delays, steps>>
    BY <1>9 DEF RecvEcho
  <2>5. QED
    BY <2>1, <2>2, <2>3, <2>4 DEF TypeOK
<1>10. CASE RecvFails
  <2>1. PICK e \in ReadErrors : EndSession(classify_io_error(e))
    BY <1>10 DEF RecvFails
  <2>2. BeatTypes'
    BY <1>10 DEF RecvFails, BeatTypes, TypeOK
  <2>3. QED
    BY <2>1, <2>2, ClassifiedReasons, EndSessionTypes DEF Reasons
<1>11. CASE LocalError
  <2>1. BeatTypes'
    BY <1>11 DEF LocalError, BeatTypes, TypeOK
  <2>2. QED
    BY <1>11, <2>1, ClassifiedReasons, EndSessionTypes DEF LocalError, Reasons
<1>12. CASE RoundEndsLate
  BY <1>12 DEF RoundEndsLate, Continue, TypeOK
<1>13. CASE RoundMissed
  BY <1>13 DEF RoundMissed, CountMiss, Continue, MissLimit, TypeOK
<1>14. CASE TimeOut
  <2>1. BeatTypes'
    BY <1>14 DEF TimeOut, CountMiss, BeatTypes, TypeOK
  <2>2. QED
    BY <1>14, <2>1, EndSessionTypes DEF TimeOut, Reasons
<1>15. CASE Cancelled
  BY <1>15, DropTypes DEF Cancelled, TypeOK
<1>16. CASE RequestCancel
  <2>1. cancelled' \in BOOLEAN
    BY <1>16 DEF RequestCancel
  <2>2. QED
    BY <1>16, <2>1 DEF RequestCancel, TypeOK
<1>17. CASE EchoArrives
  BY <1>17 DEF EchoArrives, TypeOK
<1>18. CASE PathChanges
  BY <1>18 DEF PathChanges, TypeOK
<1>19. CASE TickInSession
  BY <1>19 DEF TickInSession, TypeOK
<1>20. CASE TickInBackoff
  BY <1>20 DEF TickInBackoff, TypeOK
<1>21. CASE UNCHANGED vars
  BY <1>21 DEF vars, TypeOK
<1>22. CASE ClockStepped
  BY <1>22 DEF ClockStepped, TypeOK
<1>23. QED
  BY <1>1, <1>2, <1>3, <1>4, <1>5, <1>6, <1>7, <1>8, <1>9, <1>10, <1>11, <1>12, <1>13, <1>14,
     <1>15, <1>16, <1>17, <1>18, <1>19, <1>20, <1>21, <1>22 DEF Next, SessionStep, Tick, Finished

\* Every variable of the client session keeps its type; in particular echoes
\* are never ahead of heartbeats and misses stay below the limit.
THEOREM TypeCorrect == Spec => []TypeOK
BY InitTypes, TypeStep, PTL DEF Spec

-----------------------------------------------------------------------------
(***************************************************************************)
(* Accounting.                                                             *)
(***************************************************************************)

\* Outside a session nothing of the last one is left.
Idle ==
    ~InSession => /\ seq = 0 /\ taken = 0 /\ arrived = 0 /\ consecutive_missed = 0
                  /\ next_send = 0 /\ silence = 0 /\ delays = 0

Accounting == Idle /\ SessionAccounting /\ HeartbeatAccounting

\* What the end of a session does to the accounts, whatever the reason.
LEMMA EndSessionAccounts ==
    ASSUME TypeOK, Accounting, InSession,
           NEW r \in Reasons \ {"connect_failed"}, EndSession(r),
           heartbeats_sent' = heartbeats_sent, heartbeats_rx' = heartbeats_rx
    PROVE  Accounting'
<1>1. /\ pc' = "backoff" /\ seq' = 0 /\ taken' = 0 /\ arrived' = 0 /\ consecutive_missed' = 0
      /\ next_send' = 0 /\ silence' = 0 /\ delays' = 0
  BY DEF EndSession, Backoff, DropSessionState
<1>2. Idle'
  BY <1>1 DEF Idle
<1>3. SessionAccounting'
  BY <1>1 DEF EndSession, Accounting, SessionAccounting, InSession, TypeOK, Reasons
<1>4. HeartbeatAccounting'
  BY <1>1 DEF Accounting, HeartbeatAccounting, InSession, TypeOK
<1>5. QED
  BY <1>2, <1>3, <1>4 DEF Accounting

LEMMA InitAccounts == Init => Accounting
BY DEF Init, Accounting, Idle, SessionAccounting, HeartbeatAccounting, InSession, Reasons

LEMMA AccountStep == TypeOK /\ Accounting /\ [Next]_vars => Accounting'
<1> SUFFICES ASSUME TypeOK, Accounting, [Next]_vars
             PROVE  Accounting'
  OBVIOUS
<1> USE DEF Accounting, Idle, SessionAccounting, HeartbeatAccounting, InSession, TypeOK
<1>1. CASE ConnectOk
  BY <1>1 DEF ConnectOk
<1>2. CASE ConnectFails
  BY <1>2 DEF ConnectFails, Backoff, Reasons
<1>3. CASE BackoffOver
  BY <1>3 DEF BackoffOver
<1>4. CASE HandshakeSent
  <2>1. pc = "handshake" /\ pc' = "sending"
    BY <1>4 DEF HandshakeSent, Continue
  <2>2. /\ session_active' = 1 /\ sessions_total' = sessions_total + 1
        /\ consecutive_missed_gauge' = 0
        /\ UNCHANGED <<seq, taken, consecutive_missed, heartbeats_sent, heartbeats_rx,
                       disconnects, dropped>>
    BY <1>4 DEF HandshakeSent
  <2>3. SessionAccounting'
    <3>1. /\ disconnects["remote_close"] \in Nat /\ disconnects["connection_reset"] \in Nat
          /\ disconnects["timeout"] \in Nat /\ disconnects["local_error"] \in Nat
      BY DEF Reasons
    <3>2. session_active = 0
      BY <2>1
    <3>3. sessions_total' = session_active' + dropped' + disconnects'["remote_close"]
             + disconnects'["connection_reset"] + disconnects'["timeout"] + disconnects'["local_error"]
      BY <2>2, <3>1, <3>2
    <3>4. QED
      BY <2>1, <2>2, <3>3
  <2>4. QED
    BY <2>1, <2>2, <2>3
<1>5. CASE HandshakeFails
  <2>1. /\ pc' = "backoff" /\ seq' = 0 /\ taken' = 0 /\ arrived' = 0 /\ consecutive_missed' = 0
        /\ next_send' = 0 /\ silence' = 0 /\ delays' = 0
    BY <1>5 DEF HandshakeFails, Backoff, DropSessionState
  <2>2. pc = "handshake" /\ UNCHANGED <<beatVars, sessionVars>>
    BY <1>5 DEF HandshakeFails
  <2>3. QED
    BY <2>1, <2>2
<1>6. CASE WaitOver
  BY <1>6 DEF WaitOver, Continue
<1>7. CASE SendHeartbeat
  <2>1. /\ pc = "sending" /\ pc' = "awaiting" /\ seq' = seq + 1
        /\ heartbeats_sent' = heartbeats_sent + 1
        /\ UNCHANGED <<consecutive_missed, taken, heartbeats_rx, consecutive_missed_gauge,
                       sessionVars>>
    BY <1>7 DEF SendHeartbeat
  <2>2. QED
    BY <2>1
<1>8. CASE SendFails
  BY <1>8, ClassifiedReasons, EndSessionAccounts DEF SendFails, Reasons
<1>9. CASE RecvEcho
  <2>1. /\ pc = "awaiting" /\ taken' = taken + 1 /\ consecutive_missed' = 0
        /\ heartbeats_rx' = heartbeats_rx + 1 /\ consecutive_missed_gauge' = 0
        /\ UNCHANGED <<seq, heartbeats_sent, sessionVars>>
    BY <1>9 DEF RecvEcho, record_echo
  <2>2. pc' \in {"waiting", "sending", "awaiting"}
    BY <1>9 DEF RecvEcho, Continue
  <2>3. QED
    BY <2>1, <2>2
<1>10. CASE RecvFails
  BY <1>10, ClassifiedReasons, EndSessionAccounts DEF RecvFails, Reasons
<1>11. CASE LocalError
  BY <1>11, ClassifiedReasons, EndSessionAccounts DEF LocalError, Reasons
<1>12. CASE RoundEndsLate
  BY <1>12 DEF RoundEndsLate, DeadlinePassed, Continue
<1>13. CASE RoundMissed
  BY <1>13 DEF RoundMissed, DeadlinePassed, CountMiss, Continue
<1>14. CASE TimeOut
  BY <1>14, EndSessionAccounts DEF TimeOut, DeadlinePassed, CountMiss, Reasons
<1>15. CASE Cancelled
  <2>1. /\ pc' = "done" /\ seq' = 0 /\ taken' = 0 /\ arrived' = 0 /\ consecutive_missed' = 0
        /\ next_send' = 0 /\ silence' = 0 /\ delays' = 0
    BY <1>15 DEF Cancelled, DropSessionState
  <2>2. QED
    BY <1>15, <2>1 DEF Cancelled
<1>16. CASE RequestCancel
  BY <1>16 DEF RequestCancel
<1>17. CASE EchoArrives
  BY <1>17 DEF EchoArrives
<1>18. CASE PathChanges
  BY <1>18 DEF PathChanges
<1>19. CASE TickInSession
  BY <1>19 DEF TickInSession
<1>20. CASE TickInBackoff
  BY <1>20 DEF TickInBackoff
<1>21. CASE UNCHANGED vars
  BY <1>21 DEF vars
<1>22. CASE ClockStepped
  BY <1>22 DEF ClockStepped
<1>23. QED
  BY <1>1, <1>2, <1>3, <1>4, <1>5, <1>6, <1>7, <1>8, <1>9, <1>10, <1>11, <1>12, <1>13, <1>14,
     <1>15, <1>16, <1>17, <1>18, <1>19, <1>20, <1>21, <1>22 DEF Next, SessionStep, Tick, Finished

LEMMA AccountsInvariant == Spec => [](TypeOK /\ Accounting)
<1>1. Init => TypeOK /\ Accounting
  BY InitTypes, InitAccounts
<1>2. TypeOK /\ Accounting /\ [Next]_vars => (TypeOK /\ Accounting)'
  BY TypeStep, AccountStep
<1>3. QED
  BY <1>1, <1>2, PTL DEF Spec

\* run_session counts every session exactly once, on every way out of it.
THEOREM SessionsAccounted == Spec => []SessionAccounting
BY AccountsInvariant, PTL DEF Accounting

\* The echo counter never overtakes the heartbeat counter, and the gauge of
\* consecutive misses shows the live session's count.
THEOREM HeartbeatsAccounted == Spec => []HeartbeatAccounting
BY AccountsInvariant, PTL DEF Accounting

-----------------------------------------------------------------------------
(***************************************************************************)
(* Timing.  Where the schedule and the silence stand at each await: after  *)
(* k misses, 2k intervals lie between the first unanswered heartbeat and   *)
(* the next one, and the task's hold-ups are the only slack.               *)
(***************************************************************************)

\* Two intervals per miss counted so far.
Missed == 2 * (consecutive_missed * heartbeat_interval)

WaitingTiming ==
    pc = "waiting" =>
        /\ next_send + delays >= 0
        /\ consecutive_missed > 0 => /\ silence + next_send >= Missed
                                     /\ silence + next_send <= Missed + delays
                                     /\ silence <= Missed + delays

SendingTiming ==
    pc = "sending" =>
        /\ next_send >= heartbeat_interval - delays
        /\ consecutive_missed > 0 => silence >= Missed /\ silence <= Missed + delays

AwaitingTiming ==
    pc = "awaiting" =>
        /\ next_send >= deadline - delays
        /\ got_echo => consecutive_missed = 0
        /\ ~got_echo => /\ silence + deadline >= Missed + heartbeat_interval
                        /\ silence + deadline <= Missed + heartbeat_interval + delays

Timing ==
    /\ ~Unanswered => silence = 0
    /\ WaitingTiming
    /\ SendingTiming
    /\ AwaitingTiming

\* The product in Missed, as far as the steps need it.
LEMMA MissedFacts ==
    ASSUME TypeOK
    PROVE  /\ Missed \in Nat
           /\ consecutive_missed = 0 => Missed = 0
           /\ Missed + heartbeat_interval <= (2 * MissLimit - 1) * heartbeat_interval
           /\ consecutive_missed = MissLimit - 1 =>
                 Missed + heartbeat_interval = (2 * MissLimit - 1) * heartbeat_interval
<1> DEFINE m == MissLimit - 1
<1>1. /\ consecutive_missed \in Nat /\ m \in Nat /\ consecutive_missed <= m
      /\ heartbeat_interval \in Nat
  BY MissLimitType DEF TypeOK
<1>2. \A k \in Nat : k * heartbeat_interval \in Nat
  BY <1>1
<1>3. consecutive_missed * heartbeat_interval <= m * heartbeat_interval
  BY <1>1
<1>4. (2 * MissLimit - 1) * heartbeat_interval = 2 * (m * heartbeat_interval) + heartbeat_interval
  BY <1>1, MissLimitType
<1> DEFINE x == consecutive_missed * heartbeat_interval
<1> DEFINE y == m * heartbeat_interval
<1>5. x \in Nat /\ y \in Nat /\ x <= y /\ Missed = 2 * x
  BY <1>1, <1>2, <1>3 DEF Missed
<1>6. consecutive_missed = 0 => x = 0
  BY <1>1
<1>7. consecutive_missed = MissLimit - 1 => x = y
  OBVIOUS
<1> HIDE DEF x, y
<1>8. (2 * MissLimit - 1) * heartbeat_interval = 2 * y + heartbeat_interval
  BY <1>4 DEF y
<1>9. QED
  BY <1>1, <1>5, <1>6, <1>7, <1>8

LEMMA MissedNext ==
    ASSUME TypeOK
    PROVE  /\ consecutive_missed' = consecutive_missed => Missed' = Missed
           /\ consecutive_missed' = consecutive_missed + 1 =>
                 Missed' = Missed + 2 * heartbeat_interval
           /\ consecutive_missed' = 0 => Missed' = 0
BY DEF Missed, TypeOK

\* A step that leaves the session leaves nothing to keep time for.
LEMMA LeaveTiming ==
    ASSUME DropSessionState, pc' \in {"backoff", "done"}
    PROVE  Timing'
BY DEF DropSessionState, Timing, Unanswered, WaitingTiming, SendingTiming, AwaitingTiming

LEMMA InitTiming == Init => Timing
BY DEF Init, Timing, Unanswered, WaitingTiming, SendingTiming, AwaitingTiming

\* The top of the session loop keeps time, for a schedule not behind by more
\* than the hold-ups.
LEMMA ContinueTiming ==
    ASSUME TypeOK, NEW at \in Int, Continue(at),
           at + delays >= 0, delays' = delays, consecutive_missed' = 0, silence' = 0
    PROVE  Timing'
<1>1. pc' \in {"waiting", "sending"}
  BY DEF Continue
<1>2. pc' = "sending" => next_send' = at + heartbeat_interval
  BY DEF Continue
<1>3. pc' = "waiting" => next_send' = at
  BY DEF Continue
<1>4. delays \in Nat /\ heartbeat_interval \in Nat /\ ~ (consecutive_missed' > 0)
  BY DEF TypeOK
<1>5. WaitingTiming'
  BY <1>3, <1>4 DEF WaitingTiming
<1>6. SendingTiming'
  BY <1>2, <1>4 DEF SendingTiming
<1>7. AwaitingTiming'
  BY <1>1 DEF AwaitingTiming
<1>8. QED
  BY <1>5, <1>6, <1>7 DEF Timing

LEMMA TimingStep == TypeOK /\ TypeOK' /\ Idle /\ Timing /\ [Next]_vars => Timing'
<1> SUFFICES ASSUME TypeOK, TypeOK', Idle, Timing, [Next]_vars
             PROVE  Timing'
  OBVIOUS
<1> USE MissedFacts, MissedNext
<1> USE DEF Timing, Unanswered, WaitingTiming, SendingTiming, AwaitingTiming
<1>1. CASE ConnectOk
  BY <1>1 DEF ConnectOk
<1>2. CASE ConnectFails
  BY <1>2 DEF ConnectFails, Backoff
<1>3. CASE BackoffOver
  BY <1>3 DEF BackoffOver
<1>4. CASE HandshakeSent
  <2>1. /\ Continue(0) /\ consecutive_missed' = 0 /\ silence' = 0
        /\ delays' = delays /\ delays = 0
    BY <1>4 DEF HandshakeSent, Idle, InSession
  <2>2. QED
    BY <2>1, ContinueTiming
<1>5. CASE HandshakeFails
  BY <1>5, LeaveTiming DEF HandshakeFails, Backoff
<1>6. CASE WaitOver
  <2>1. /\ pc = "waiting" /\ pc' = "sending" /\ next_send' = next_send + heartbeat_interval
        /\ next_send <= 0
        /\ UNCHANGED <<consecutive_missed, got_echo, silence, delays>>
    BY <1>6 DEF WaitOver, Continue, TypeOK
  <2>2. QED
    BY <2>1 DEF TypeOK
<1>7. CASE SendHeartbeat
  <2>1. /\ pc = "sending" /\ pc' = "awaiting" /\ deadline' = heartbeat_interval
        /\ UNCHANGED <<consecutive_missed, next_send, silence, delays>>
    BY <1>7 DEF SendHeartbeat
  <2>2. ~got_echo'
    BY <1>7 DEF SendHeartbeat
  <2>3. silence >= Missed /\ silence <= Missed + delays
    BY <2>1 DEF TypeOK
  <2>4. QED
    BY <2>1, <2>2, <2>3 DEF TypeOK
<1>8. CASE SendFails
  BY <1>8, LeaveTiming DEF SendFails, EndSession, Backoff
<1>9. CASE RecvEcho
  <2>1. /\ pc = "awaiting" /\ consecutive_missed' = 0 /\ silence' = 0
        /\ UNCHANGED <<deadline, delays>>
    BY <1>9 DEF RecvEcho
  <2>2. got_echo'
    BY <1>9 DEF RecvEcho
  <2>3. CASE Matches(taken)
    <3>1. Continue(next_send) /\ next_send \in Int /\ next_send + delays >= 0
      BY <1>9, <2>1, <2>3 DEF RecvEcho, TypeOK
    <3>2. QED
      BY <2>1, <3>1, ContinueTiming
  <2>4. CASE ~Matches(taken)
    <3>1. UNCHANGED <<pc, next_send>>
      BY <1>9, <2>4 DEF RecvEcho
    <3>2. QED
      BY <2>1, <2>2, <3>1 DEF TypeOK
  <2>5. QED
    BY <2>3, <2>4
<1>10. CASE RecvFails
  BY <1>10, LeaveTiming DEF RecvFails, EndSession, Backoff
<1>11. CASE LocalError
  BY <1>11, LeaveTiming DEF LocalError, EndSession, Backoff
<1>12. CASE RoundEndsLate
  <2>1. /\ pc = "awaiting" /\ got_echo /\ Continue(next_send)
        /\ UNCHANGED <<consecutive_missed, silence, delays>>
    BY <1>12 DEF RoundEndsLate, DeadlinePassed
  <2>2. /\ consecutive_missed' = 0 /\ silence' = 0
        /\ next_send \in Int /\ next_send + delays >= 0
    BY <2>1 DEF TypeOK
  <2>3. QED
    BY <2>1, <2>2, ContinueTiming
<1>13. CASE RoundMissed
  <2>1. /\ pc = "awaiting" /\ ~got_echo /\ deadline = 0
        /\ pc' = "waiting" /\ next_send' = heartbeat_interval
        /\ consecutive_missed' = consecutive_missed + 1
        /\ UNCHANGED <<silence, delays>>
    BY <1>13 DEF RoundMissed, DeadlinePassed, Continue
  <2>2. QED
    BY <2>1 DEF TypeOK
<1>14. CASE TimeOut
  BY <1>14, LeaveTiming DEF TimeOut, EndSession, Backoff
<1>15. CASE Cancelled
  BY <1>15, LeaveTiming DEF Cancelled
<1>16. CASE RequestCancel
  BY <1>16 DEF RequestCancel
<1>17. CASE EchoArrives
  BY <1>17 DEF EchoArrives
<1>18. CASE PathChanges
  BY <1>18 DEF PathChanges
<1>19. CASE TickInSession
  <2>1. /\ next_send' = next_send - 1
        /\ UNCHANGED <<pc, consecutive_missed, got_echo>>
        /\ Unanswered => silence' = silence + 1
        /\ ~Unanswered => silence' = silence
        /\ deadline > 0 => deadline' = deadline - 1
        /\ deadline = 0 => deadline' = 0
    BY <1>19 DEF TickInSession, TypeOK
  <2>2. Ready => delays' = delays + 1
    BY <1>19 DEF TickInSession
  <2>3. ~Ready => delays' = delays
    BY <1>19 DEF TickInSession
  <2>4. /\ next_send \in Int /\ silence \in Nat /\ delays \in Nat /\ deadline \in Nat
        /\ heartbeat_interval \in Nat /\ Missed \in Nat /\ Missed' = Missed
        /\ consecutive_missed \in Nat
    BY <2>1 DEF TypeOK
  <2>5. PICK dd \in Nat :
              /\ delays' = dd /\ dd >= delays
              /\ pc = "sending" => dd = delays + 1
              /\ pc = "waiting" /\ next_send <= 0 => dd = delays + 1
              /\ pc = "awaiting" /\ deadline = 0 => dd = delays + 1
    <3>1. CASE Ready
      BY <2>2, <2>4, <3>1
    <3>2. CASE ~Ready
      BY <2>3, <2>4, <3>2 DEF Ready
    <3>3. QED
      BY <3>1, <3>2
  <2>6. ~Unanswered' => silence' = 0
    BY <2>1
  <2>7. WaitingTiming'
    <3> SUFFICES ASSUME pc = "waiting"
                 PROVE  WaitingTiming'
      BY <2>1
    <3>1. next_send' + delays' >= 0
      BY <2>1, <2>4, <2>5
    <3>2. CASE consecutive_missed > 0
      <4>1. silence' = silence + 1
        BY <2>1, <3>2
      <4>2. QED
        BY <2>1, <2>4, <2>5, <3>1, <3>2, <4>1
    <3>3. QED
      BY <2>1, <2>4, <3>1, <3>2
  <2>8. SendingTiming'
    <3> SUFFICES ASSUME pc = "sending"
                 PROVE  SendingTiming'
      BY <2>1
    <3>1. next_send' >= heartbeat_interval - delays'
      BY <2>1, <2>4, <2>5
    <3>2. CASE consecutive_missed > 0
      BY <2>1, <2>4, <2>5, <3>1, <3>2
    <3>3. QED
      BY <2>1, <2>4, <3>1, <3>2
  <2>9. AwaitingTiming'
    <3> SUFFICES ASSUME pc = "awaiting"
                 PROVE  AwaitingTiming'
      BY <2>1
    <3>1. PICK dl \in Nat : deadline' = dl /\ (deadline > 0 => dl = deadline - 1)
                                        /\ (deadline = 0 => dl = 0)
      BY <2>1, <2>4
    <3>2. next_send' >= deadline' - delays'
      BY <2>1, <2>4, <2>5, <3>1
    <3>3. got_echo' => consecutive_missed' = 0
      BY <2>1
    <3>4. CASE ~got_echo
      <4>1. silence' = silence + 1
        BY <2>1, <3>4
      <4>2. /\ silence' + deadline' >= Missed' + heartbeat_interval
            /\ silence' + deadline' <= Missed' + heartbeat_interval + delays'
        BY <2>1, <2>4, <2>5, <3>1, <3>4, <4>1
      <4>3. QED
        BY <2>1, <3>2, <3>3, <4>2
    <3>5. QED
      BY <2>1, <3>2, <3>3, <3>4
  <2>10. QED
    BY <2>6, <2>7, <2>8, <2>9
<1>20. CASE TickInBackoff
  BY <1>20 DEF TickInBackoff
<1>21. CASE UNCHANGED vars
  BY <1>21 DEF vars
<1>22. CASE ClockStepped
  BY <1>22 DEF ClockStepped
<1>23. QED
  BY <1>1, <1>2, <1>3, <1>4, <1>5, <1>6, <1>7, <1>8, <1>9, <1>10, <1>11, <1>12, <1>13, <1>14,
     <1>15, <1>16, <1>17, <1>18, <1>19, <1>20, <1>21, <1>22 DEF Next, SessionStep, Tick, Finished

-----------------------------------------------------------------------------
(***************************************************************************)
(* The inductive invariant and what follows from it.                       *)
(***************************************************************************)
IInv == TypeOK /\ Accounting /\ Timing

LEMMA InductiveInvariant == Spec => []IInv
<1>1. Init => IInv
  BY InitTypes, InitAccounts, InitTiming DEF IInv
<1>2. IInv /\ [Next]_vars => IInv'
  BY TypeStep, AccountStep, TimingStep DEF IInv, Accounting
<1>3. QED
  BY <1>1, <1>2, PTL DEF Spec

\* A dead connection is noticed within 2 * MissLimit - 1 heartbeat intervals
\* of the first unanswered heartbeat, plus what the task was held up.
THEOREM SilenceIsBounded == Spec => []SilenceBounded
<1>1. IInv => SilenceBounded
  <2> SUFFICES ASSUME IInv
               PROVE  SilenceBounded
    OBVIOUS
  <2> DEFINE limit == (2 * MissLimit - 1) * heartbeat_interval
  <2>1. /\ Missed \in Nat /\ Missed + heartbeat_interval <= limit
        /\ heartbeat_interval \in Nat /\ silence \in Nat /\ delays \in Nat /\ deadline \in Nat
        /\ consecutive_missed \in Nat
    BY MissedFacts DEF IInv, TypeOK
  <2>2. limit \in Int
    BY MissLimitType
  <2> HIDE DEF limit
  <2>3. silence <= limit + delays
    <3>1. CASE ~Unanswered
      BY <2>1, <2>2, <3>1 DEF IInv, Timing
    <3>2. CASE pc = "awaiting" /\ ~got_echo
      BY <2>1, <2>2, <3>2 DEF IInv, Timing, AwaitingTiming
    <3>3. CASE consecutive_missed > 0 /\ pc \in {"waiting", "sending"}
      BY <2>1, <2>2, <3>3 DEF IInv, Timing, WaitingTiming, SendingTiming
    <3>4. CASE consecutive_missed > 0 /\ pc \notin {"waiting", "sending"}
      BY <2>1, <3>2, <3>4 DEF IInv, Timing, AwaitingTiming, Accounting, Idle, InSession
    <3>5. QED
      BY <3>1, <3>2, <3>3, <3>4 DEF Unanswered
  <2>4. QED
    BY <2>3 DEF SilenceBounded, limit
<1>2. QED
  BY <1>1, InductiveInvariant, PTL

\* The send schedule falls behind only by what the task was held up.
THEOREM ScheduleIsKept == Spec => []ScheduleKept
<1>1. IInv => ScheduleKept
  BY DEF IInv, TypeOK, Timing, WaitingTiming, SendingTiming, AwaitingTiming, ScheduleKept,
         InSession
<1>2. QED
  BY <1>1, InductiveInvariant, PTL

\* No round of the echo loop ends with an echo unread.
THEOREM RoundsDrainEchoes == Spec => RoundDrainsEchoes
<1> DEFINE A == pc = "awaiting" /\ pc' \in {"waiting", "sending"} => taken' = arrived'
<1>1. ASSUME TypeOK, [Next]_vars
      PROVE  A
  <2> SUFFICES ASSUME pc = "awaiting", pc' \in {"waiting", "sending"}
               PROVE  taken' = arrived'
    OBVIOUS
  <2>1. CASE RecvEcho
    <3>1. taken = seq - 1 /\ taken' = taken + 1 /\ arrived' = arrived /\ taken < arrived
      BY <1>1, <2>1 DEF RecvEcho, Matches, Inbox, TypeOK
    <3>2. QED
      BY <1>1, <3>1 DEF TypeOK
  <2>2. CASE RoundEndsLate \/ RoundMissed
    BY <1>1, <2>2 DEF RoundEndsLate, RoundMissed, DeadlinePassed, Inbox, TypeOK
  <2>3. CASE SendFails \/ RecvFails \/ LocalError \/ TimeOut
    BY <2>3 DEF SendFails, RecvFails, LocalError, TimeOut, EndSession, Backoff
  <2>4. CASE ConnectOk \/ ConnectFails \/ BackoffOver \/ HandshakeSent \/ HandshakeFails
             \/ WaitOver \/ SendHeartbeat
    BY <2>4 DEF ConnectOk, ConnectFails, BackoffOver, HandshakeSent, HandshakeFails, WaitOver,
                SendHeartbeat
  <2>5. CASE Cancelled
    BY <2>5 DEF Cancelled
  <2>6. CASE RequestCancel \/ EchoArrives \/ PathChanges \/ Tick \/ ClockStepped \/ UNCHANGED vars
    BY <2>6 DEF RequestCancel, EchoArrives, PathChanges, Tick, TickInSession, TickInBackoff,
        ClockStepped, vars
  <2>7. QED
    BY <1>1, <2>1, <2>2, <2>3, <2>4, <2>5, <2>6 DEF Next, SessionStep, Finished
<1>2. QED
  BY <1>1, TypeCorrect, PTL DEF RoundDrainsEchoes, Spec

\* A session is given up for "timeout" only after MissLimit echo timeouts and
\* the intervals between them without any sign of the peer.
THEOREM TimeoutsMeanSilence == Spec => TimeoutMeansSilence
<1> DEFINE A == disconnects'["timeout"] > disconnects["timeout"] =>
                   /\ silence >= (2 * MissLimit - 1) * heartbeat_interval
                   /\ Inbox = 0
                   /\ path \in {"up", "dead"}
<1>1. ASSUME IInv, [Next]_vars
      PROVE  A
  <2>1. disconnects \in [Reasons -> Nat] /\ "timeout" \in Reasons
    BY <1>1 DEF IInv, TypeOK, Reasons
  <2>2. CASE TimeOut
    <3>1. /\ pc = "awaiting" /\ deadline = 0 /\ Inbox = 0 /\ ReadErrors = {} /\ ~got_echo
          /\ ~(consecutive_missed + 1 < max_misses)
      BY <2>2 DEF TimeOut, DeadlinePassed, MissesLeft
    <3>2. path \in {"up", "dead"}
      BY <1>1, <3>1 DEF ReadErrors, IInv, TypeOK
    <3>3. consecutive_missed = MissLimit - 1
      BY <1>1, <3>1, MissesAssumption DEF IInv, TypeOK, MissLimit
    <3>4. silence >= Missed + heartbeat_interval
      BY <1>1, <3>1 DEF IInv, TypeOK, Timing, AwaitingTiming
    <3>5. QED
      BY <1>1, <3>1, <3>2, <3>3, <3>4, MissedFacts DEF IInv
  <2>3. ASSUME NEW e, EndSession(classify_io_error(e))
        PROVE  disconnects'["timeout"] = disconnects["timeout"]
    BY <2>1, <2>3, ClassifiedReasons DEF EndSession
  <2>4. CASE SendFails \/ RecvFails \/ LocalError
    BY <2>1, <2>3, <2>4 DEF SendFails, RecvFails, LocalError
  <2>5. CASE ConnectFails
    BY <2>1, <2>5 DEF ConnectFails
  <2>6. CASE UNCHANGED disconnects
    BY <2>1, <2>6
  <2>7. QED
    BY <1>1, <2>2, <2>4, <2>5, <2>6
    DEF Next, SessionStep, Finished, ConnectOk, BackoffOver, HandshakeSent, HandshakeFails,
        WaitOver, SendHeartbeat, RecvEcho, RoundEndsLate, RoundMissed, Cancelled, RequestCancel,
        EchoArrives, PathChanges, Tick, TickInSession, TickInBackoff,
        ClockStepped, vars
<1>2. QED
  BY <1>1, InductiveInvariant, PTL DEF TimeoutMeansSilence, Spec

-----------------------------------------------------------------------------
(***************************************************************************)
(* The round trip time.                                                    *)
(***************************************************************************)

\* While an echo is awaited, the reading of the wall clock since send_ts and
\* what is left of the deadline together are an interval, give or take what
\* the task was held up and the clock was set.
RoundTrip ==
    pc = "awaiting" =>
        /\ send_age + deadline <= heartbeat_interval + delays + steps
        /\ send_age + steps >= 0

\* A tick moves the deadline and the clock against each other, or is a delay.
LEMMA RoundTripStep == TypeOK /\ RoundTrip /\ [Next]_vars => RoundTrip'
<1> SUFFICES ASSUME TypeOK, RoundTrip, [Next]_vars, pc' = "awaiting"
             PROVE  /\ send_age' + deadline' <= heartbeat_interval + delays' + steps'
                    /\ send_age' + steps' >= 0
  BY DEF RoundTrip
<1>1. CASE SendHeartbeat
  <2>1. delays \in Nat /\ steps \in Nat
    BY DEF TypeOK
  <2>2. PICK age \in (0 - steps) .. (delays + steps) : send_age' = age
    BY <1>1 DEF SendHeartbeat
  <2>3. deadline' = heartbeat_interval /\ delays' = delays /\ steps' = steps
    BY <1>1 DEF SendHeartbeat
  <2>4. /\ age + heartbeat_interval <= heartbeat_interval + delays + steps
        /\ age + steps >= 0
    BY <2>1, <2>2
  <2>5. QED
    BY <2>2, <2>3, <2>4
<1>2. CASE TickInSession
  <2>1. /\ pc = "awaiting" /\ send_age' = send_age + 1 /\ steps' = steps
        /\ deadline > 0 => deadline' = deadline - 1
        /\ deadline = 0 => deadline' = 0
    BY <1>2 DEF TickInSession, TypeOK
  <2>2. delays' \in {delays, delays + 1} /\ (deadline = 0 => delays' = delays + 1)
    BY <1>2, <2>1 DEF TickInSession, Ready
  <2>3. QED
    BY <2>1, <2>2 DEF TypeOK, RoundTrip
<1>3. CASE ClockStepped
  <2>1. /\ pc = "awaiting" /\ steps' = steps + 1 /\ UNCHANGED <<deadline, delays>>
        /\ send_age' = send_age - 1 \/ send_age' = send_age + 1
    BY <1>3 DEF ClockStepped
  <2>2. QED
    BY <2>1 DEF TypeOK, RoundTrip
<1>4. CASE UNCHANGED <<pc, send_age, deadline, delays, steps>>
  BY <1>4 DEF RoundTrip
<1>5. CASE RecvEcho
  <2>1. pc = "awaiting" /\ UNCHANGED <<send_age, deadline, delays, steps>>
    BY <1>5 DEF RecvEcho
  <2>2. QED
    BY <2>1 DEF RoundTrip
<1>6. CASE SendFails \/ RecvFails \/ LocalError \/ TimeOut \/ HandshakeFails
  BY <1>6 DEF SendFails, RecvFails, LocalError, TimeOut, HandshakeFails, EndSession, Backoff
<1>7. CASE ConnectOk \/ ConnectFails \/ BackoffOver \/ HandshakeSent \/ WaitOver
           \/ RoundEndsLate \/ RoundMissed \/ Cancelled
  BY <1>7 DEF ConnectOk, ConnectFails, BackoffOver, HandshakeSent, WaitOver, RoundEndsLate,
              RoundMissed, Cancelled, Continue, Backoff
<1>8. QED
  BY <1>1, <1>2, <1>3, <1>4, <1>5, <1>6, <1>7
  DEF Next, SessionStep, Tick, Finished, RequestCancel, EchoArrives, PathChanges, TickInBackoff,
      vars

\* An RTT is recorded only for the echo of the heartbeat sent last, and is
\* off by no more than the task was held up and the wall clock was set.
THEOREM RttsAreOfLastHeartbeat == Spec => RttIsOfLastHeartbeat
<1> DEFINE A == rtt' # rtt => /\ taken' = seq
                              /\ rtt' <= heartbeat_interval + delays + steps
                              /\ rtt' + steps >= 0
<1>1. Init => RoundTrip
  BY DEF Init, RoundTrip
<1>2. ASSUME TypeOK, RoundTrip, [Next]_vars
      PROVE  A
  <2> SUFFICES ASSUME rtt' # rtt
               PROVE  /\ taken' = seq
                      /\ rtt' <= heartbeat_interval + delays + steps
                      /\ rtt' + steps >= 0
    OBVIOUS
  <2>1. RecvEcho
    BY <1>2 DEF Next, SessionStep, Tick, Finished, ConnectOk, ConnectFails, BackoffOver,
        HandshakeSent, HandshakeFails, WaitOver, SendHeartbeat, SendFails, RecvFails, LocalError,
        RoundEndsLate, RoundMissed, TimeOut, CountMiss, Cancelled, RequestCancel, EchoArrives,
        PathChanges, TickInSession, TickInBackoff, ClockStepped, vars
  <2>2. pc = "awaiting" /\ taken' = taken + 1 /\ taken = seq - 1 /\ rtt' = send_age
    BY <2>1 DEF RecvEcho, record_echo, Matches
  <2>3. QED
    BY <1>2, <2>2 DEF TypeOK, RoundTrip
<1>3. QED
  BY <1>1, <1>2, RoundTripStep, TypeCorrect, PTL DEF RttIsOfLastHeartbeat, Spec

-----------------------------------------------------------------------------
(***************************************************************************)
(* Refinement of PeerTask, without its fairness.                           *)
(***************************************************************************)

\* Every step of run_peer_loop is a step of PeerTask or leaves its phase, its
\* gauge and its token alone.
THEOREM RefinesPeerTask == Spec => Task!Init /\ [][Task!Next]_(Task!vars)
<1>1. Init => Task!Init
  BY DEF Init, Task!Init, InSession
<1>2. ASSUME IInv, [Next]_vars
      PROVE  [Task!Next]_(Task!vars)
  <2> USE DEF Task!Next, Task!vars, InSession
  <2>1. session_active = IF InSession THEN 1 ELSE 0
    BY <1>2 DEF IInv, Accounting, SessionAccounting
  <2>2. CASE HandshakeSent
    BY <2>2 DEF HandshakeSent, Continue, Task!StartSession
  <2>3. ASSUME InSession, NEW r, EndSession(r)
        PROVE  Task!EndSession
    BY <2>3 DEF EndSession, Backoff, Task!EndSession
  <2>4. CASE SendFails \/ RecvFails \/ LocalError \/ TimeOut
    BY <2>3, <2>4 DEF SendFails, RecvFails, LocalError, TimeOut, DeadlinePassed
  <2>5. CASE Cancelled
    BY <2>1, <2>5 DEF Cancelled, Task!Finish
  <2>6. CASE RequestCancel
    BY <2>6 DEF RequestCancel, Task!RequestCancel
  <2>7. CASE ConnectOk \/ ConnectFails \/ BackoffOver \/ HandshakeFails
    BY <2>7 DEF ConnectOk, ConnectFails, BackoffOver, HandshakeFails, Backoff
  <2>8. CASE WaitOver \/ SendHeartbeat \/ RecvEcho \/ RoundEndsLate \/ RoundMissed
    <3>1. InSession /\ InSession' /\ UNCHANGED <<session_active, cancelled>>
      BY <2>8 DEF WaitOver, SendHeartbeat, RecvEcho, RoundEndsLate, RoundMissed, DeadlinePassed,
                  Continue
    <3>2. QED
      BY <3>1
  <2>9. CASE EchoArrives \/ PathChanges \/ Tick \/ ClockStepped \/ UNCHANGED vars
    BY <2>9 DEF EchoArrives, PathChanges, Tick, TickInSession, TickInBackoff,
        ClockStepped, vars
  <2>10. QED
    BY <1>2, <2>2, <2>4, <2>5, <2>6, <2>7, <2>8, <2>9 DEF Next, SessionStep, Finished
<1>3. QED
  BY <1>1, <1>2, InductiveInvariant, PTL DEF Spec

-----------------------------------------------------------------------------
(***************************************************************************)
(* Link.  The definitions that only the first part needs expanded are      *)
(* hidden again.                                                           *)
(***************************************************************************)
HIDE DEF record_session_start, ClearActive, EndsRound, MissesLeft, ResetSchedule
USE RecvTimeoutAssumption, LinkBoundsAssumption
USE DEF srvVars, netVars

-----------------------------------------------------------------------------
(***************************************************************************)
(* The inductive invariant.                                                *)
(***************************************************************************)

\* One connection, one session: what the client counts is of this session.
OneSession ==
    /\ sessions_total <= 1
    /\ sessions_total > 0 => attempts = 1
    /\ pc = "handshake" => sessions_total = 0 /\ attempts = 1
    /\ sessions_total = 0 => heartbeats_sent = 0
    /\ InSession => seq = heartbeats_sent /\ next_send <= heartbeat_interval
    /\ Unanswered => taken < seq
    /\ ~InSession => path = "up"
    /\ pc = "connecting" => sleep = 0

\* Where the heartbeats are.
Counted ==
    /\ srv = "recv" => read = echoed
    /\ srv = "echo" => read = echoed + 1
    /\ srv = "none" => delivered = 0 /\ srv_path = "up" /\ srv_idle = 0
    /\ srv # "none" => HandshakeWritten
    /\ arrived <= echoed
    /\ read <= MaxBeats
    /\ srv # "closed" => delivered <= MaxBeats
    /\ srv # "closed" /\ wire = "up" => heartbeats_sent <= MaxBeats

\* What one end has seen of the other's end is what the other has sent, or a
\* RST from the way.  An end that closes because of a RST sends nothing, so a
\* FIN never comes from one that blames the other for a reset.
Ends ==
    /\ cli_sent # "none" <=> ClientOver
    /\ srv_sent # "none" <=> srv = "closed"
    /\ srv_reason # "none" => srv = "closed"
    /\ srv_path \in {"fin", "fin_rst"} => cli_sent \in {"fin", "fin_rst"}
    /\ srv_path # "up" => cli_sent # "none" \/ reset_on_path
    /\ path \in {"fin", "fin_rst"} => srv_sent \in {"fin", "fin_rst"}
    /\ path \in {"fin", "rst", "fin_rst"} => srv = "closed" \/ reset_on_path
    /\ path = "dead" => wire = "dead"
    /\ disconnects["timeout"] > 0 => cli_sent # "gone"

\* A FIN of an end that blames the other answers the other's.
FinIsOwn ==
    /\ cli_sent \in {"fin", "fin_rst"} /\ ClientBlames => srv = "closed"
    /\ srv_sent \in {"fin", "fin_rst"} /\ ServerBlames => ClientOver

\* How long the server can have waited, by what the client waits for: while a
\* heartbeat is on its way, every tick is one of lag.
Fed ==
    InSession /\ wire = "up" /\ srv = "recv" =>
        /\ echoed < heartbeats_sent => srv_idle <= 2 * heartbeat_interval + delays + lag
        /\ echoed = heartbeats_sent =>
              /\ srv_idle <= 2 * heartbeat_interval + delays
              /\ pc = "waiting" => srv_idle + next_send <= 2 * heartbeat_interval + delays
              /\ pc = "awaiting" => srv_idle + deadline <= heartbeat_interval + delays

\* The misses' time, and what of it and of the reconnect delay has passed.
AllMissed == (2 * MissLimit - 1) * heartbeat_interval

Elapsed ==
    IF InSession THEN silence
    ELSE IF disconnects["timeout"] > 0 /\ pc \in {"backoff", "connecting"}
         THEN AllMissed + reconnect_delay - sleep
         ELSE 0

\* The server has something to do, or will have when what is sent arrives.
Busy == wire = "up" \/ srv = "echo" \/ read < delivered \/ srv_path # "up"

\* The server is behind the client's silence by no more than the lags: one
\* until the last it gets of the client, one when its timeout is over.
Waiting ==
    /\ (srv = "none" /\ wire = "up") \/ ServerLive
    /\ InSession => Inbox = 0 /\ path \in {"up", "dead"}

Follows ==
    Waiting =>
        /\ Busy => Elapsed <= lag
        /\ ~Busy => \/ Elapsed <= srv_idle + MaxLag
                    \/ srv_idle = heartbeat_recv_timeout /\ Elapsed <= srv_idle + MaxLag + lag

LinkInv ==
    /\ IInv /\ LinkTypeOK /\ OneSession /\ Counted
    /\ Ends /\ FinIsOwn /\ OneEndKnows
    /\ Fed /\ Follows

-----------------------------------------------------------------------------
(***************************************************************************)
(* The client's steps, as far as the rest of the link is concerned.        *)
(***************************************************************************)
Elsewhere == UNCHANGED <<srvVars, wire, delivered, srv_sent, srv_path, lag, reset_on_path>>

\* Outside a session.
OutMove ==
    /\ ~InSession /\ ~InSession'
    /\ path' = "up"
    /\ UNCHANGED <<sessions_total, heartbeats_sent, cli_sent>>
    /\ \A r \in Reasons \ {"connect_failed"} : disconnects'[r] = disconnects[r]
    /\ pc' = "handshake" => sessions_total = 0 /\ attempts' = 1
    /\ pc' = "connecting" => sleep' = 0
    /\ sessions_total > 0 =>
          /\ attempts' = 1
          /\ \/ pc' = "done"
             \/ sleep' = sleep /\ (pc' = pc \/ (pc = "backoff" /\ pc' = "connecting"))

StartMove ==
    /\ pc = "handshake" /\ pc' = "sending"
    /\ next_send' = heartbeat_interval
    /\ sessions_total' = sessions_total + 1
    /\ UNCHANGED <<heartbeats_sent, attempts, seq, arrived, taken, path, silence, disconnects,
                   consecutive_missed, delays, cli_sent>>

SendMove ==
    /\ pc = "sending" /\ pc' = "awaiting"
    /\ wire = "up" /\ srv # "closed" => heartbeats_sent < MaxBeats
    /\ heartbeats_sent' = heartbeats_sent + 1 /\ seq' = seq + 1
    /\ deadline' = heartbeat_interval
    /\ UNCHANGED <<attempts, next_send, arrived, taken, path, silence, sessions_total, disconnects,
                   delays, cli_sent>>

\* Where a session is after a round, for better or worse.
RoundOver ==
    /\ pc' \in {"waiting", "sending"} /\ next_send' \in Int /\ next_send' <= heartbeat_interval
    /\ pc' = "waiting" => pc = "awaiting"

EchoMove ==
    /\ pc = "awaiting" /\ InSession'
    /\ taken < arrived /\ taken' = taken + 1
    /\ silence' = 0 /\ consecutive_missed' = 0 /\ got_echo'
    /\ RoundOver \/ UNCHANGED <<pc, next_send>>
    /\ UNCHANGED <<heartbeats_sent, seq, attempts, deadline, arrived, path, sessions_total,
                   disconnects, delays, cli_sent>>

RoundMove ==
    /\ InSession /\ InSession'
    /\ RoundOver \/ UNCHANGED <<pc, next_send>>
    /\ Unanswered' => Unanswered
    /\ UNCHANGED <<heartbeats_sent, seq, attempts, deadline, arrived, taken, path, silence,
                   sessions_total, disconnects, delays, cli_sent>>

\* The reasons a session ends for, and what they take.
EndsFor(r) ==
    /\ disconnects' = [disconnects EXCEPT ![r] = @ + 1]
    /\ r = "remote_close" => path \in {"fin", "fin_rst"}
    /\ r = "connection_reset" => path = "rst"
    /\ r = "timeout" => /\ pc' = "backoff" /\ sleep' = reconnect_delay
                        /\ silence >= AllMissed /\ Inbox = 0 /\ path \in {"up", "dead"}

EndMove ==
    /\ InSession /\ pc' \in {"backoff", "done"}
    /\ path' = "up"
    /\ disconnects' = disconnects \/ \E r \in Reasons \ {"connect_failed"} : EndsFor(r)
    /\ cli_sent' \in {"fin", "rst", "gone"} /\ (cli_sent' = "gone" <=> path \in {"rst", "fin_rst"})
    /\ UNCHANGED <<heartbeats_sent, attempts, sessions_total>>

\* A read or a write blames the peer only on a connection that has ended, and
\* for a close only on one the peer has closed.
LEMMA ErrorsAreThePeers ==
    ASSUME NEW e, e \in ReadErrors \/ e \in WriteErrors
    PROVE  /\ classify_io_error(e) = "remote_close" => path \in {"fin", "fin_rst"}
           /\ classify_io_error(e) = "connection_reset" => path = "rst"
<1>1. CASE path \in {"fin", "fin_rst"}
  <2>1. e \in {"UnexpectedEof", "BrokenPipe"}
    BY <1>1 DEF ReadErrors, WriteErrors
  <2>2. QED
    BY <1>1, <2>1 DEF classify_io_error
<1>2. CASE path = "rst"
  <2>1. e = "ConnectionReset"
    BY <1>2 DEF ReadErrors, WriteErrors
  <2>2. QED
    BY <1>2, <2>1 DEF classify_io_error
<1>3. CASE path \notin {"fin", "rst", "fin_rst"}
  BY <1>3 DEF ReadErrors, WriteErrors
<1>4. QED
  BY <1>1, <1>2, <1>3

\* What a closing end sends.
LEMMA ClosingCases ==
    ASSUME NEW seen, NEW unread
    PROVE  /\ Closing(seen, unread) \in {"fin", "rst", "gone"}
           /\ Closing(seen, unread) = "gone" <=> seen \in {"rst", "fin_rst"}
BY DEF Closing

\* The time of a session that ends for a timeout.
LEMMA TimeOutIsLate ==
    ASSUME IInv, TimeOut
    PROVE  silence >= AllMissed /\ Inbox = 0 /\ path \in {"up", "dead"}
<1>1. /\ pc = "awaiting" /\ deadline = 0 /\ Inbox = 0 /\ ReadErrors = {} /\ ~got_echo
      /\ ~(consecutive_missed + 1 < max_misses)
  BY DEF TimeOut, DeadlinePassed, MissesLeft
<1>2. consecutive_missed = MissLimit - 1
  BY <1>1, MissesAssumption DEF IInv, TypeOK, MissLimit
<1>3. silence >= Missed + heartbeat_interval
  BY <1>1 DEF IInv, TypeOK, Timing, AwaitingTiming
<1>4. silence >= AllMissed
  BY <1>1, <1>2, <1>3, MissedFacts DEF IInv, AllMissed
<1>5. path \in {"up", "dead"}
  BY <1>1 DEF ReadErrors, IInv, TypeOK
<1>6. QED
  BY <1>1, <1>4, <1>5

\* A client step is one of these.
LEMMA ClientMoves ==
    ASSUME IInv, OneSession, ClientStep
    PROVE  /\ Elsewhere
           /\ OutMove \/ StartMove \/ SendMove \/ EchoMove \/ RoundMove \/ EndMove
<1>1. TypeOK /\ Idle /\ Elsewhere
  BY DEF IInv, Accounting, ClientStep, Elsewhere
<1>2. /\ cli_sent' = IF InSession /\ ~InSession' THEN Closing(path, Inbox) ELSE cli_sent
      /\ Closing(path, Inbox) \in {"fin", "rst", "gone"}
      /\ Closing(path, Inbox) = "gone" <=> path \in {"rst", "fin_rst"}
  BY ClosingCases DEF ClientStep
<1>3. /\ disconnects \in [Reasons -> Nat] /\ sessions_total \in Nat /\ attempts \in 0 .. MaxAttempts
      /\ sleep \in 0 .. reconnect_delay /\ next_send \in Int
  BY <1>1 DEF TypeOK
<1>4. CASE attempts = 0 /\ (ConnectOk \/ ConnectFails)
  <2>1. /\ pc = "connecting" /\ pc' \in {"handshake", "backoff"} /\ attempts = 0 /\ attempts' = 1
        /\ UNCHANGED <<sessions_total, heartbeats_sent, path>>
    BY <1>3, <1>4 DEF ConnectOk, ConnectFails, Backoff
  <2>2. \A r \in Reasons \ {"connect_failed"} : disconnects'[r] = disconnects[r]
    BY <1>3, <1>4 DEF ConnectOk, ConnectFails
  <2>3. sessions_total = 0
    BY <1>3, <2>1 DEF OneSession
  <2>4. OutMove
    BY <1>2, <2>1, <2>2, <2>3 DEF OutMove, InSession, OneSession
  <2>5. QED
    BY <1>1, <2>4
<1>5. CASE BackoffOver
  <2>1. OutMove
    BY <1>2, <1>3, <1>5 DEF BackoffOver, OutMove, InSession, OneSession
  <2>2. QED
    BY <1>1, <2>1
<1>6. CASE HandshakeFails
  <2>1. OutMove
    BY <1>2, <1>3, <1>6 DEF HandshakeFails, Backoff, DropSessionState, OutMove, InSession, OneSession
  <2>2. QED
    BY <1>1, <2>1
<1>7. CASE RequestCancel
  <2>1. CASE InSession
    <3>1. RoundMove
      BY <1>2, <1>7, <2>1 DEF RequestCancel, RoundMove, InSession, Unanswered
    <3>2. QED
      BY <1>1, <3>1
  <2>2. CASE ~InSession
    <3>1. OutMove
      BY <1>2, <1>3, <1>7, <2>2 DEF RequestCancel, OutMove, InSession, OneSession
    <3>2. QED
      BY <1>1, <3>1
  <2>3. QED
    BY <2>1, <2>2
<1>8. CASE Cancelled
  <2>1. /\ pc' = "done" /\ path' = "up" /\ pc # "handshake"
        /\ UNCHANGED <<heartbeats_sent, attempts, sessions_total, disconnects>>
    BY <1>8 DEF Cancelled, DropSessionState, InSession
  <2>2. CASE InSession
    <3>1. EndMove
      BY <1>2, <2>1, <2>2 DEF EndMove, InSession
    <3>2. QED
      BY <1>1, <3>1
  <2>3. CASE ~InSession
    <3>1. OutMove
      BY <1>2, <1>3, <2>1, <2>3 DEF OutMove, InSession, OneSession
    <3>2. QED
      BY <1>1, <3>1
  <2>4. QED
    BY <2>2, <2>3
<1>9. ASSUME NEW r \in Reasons \ {"connect_failed"}, InSession, EndSession(r),
             heartbeats_sent' = heartbeats_sent,
             r = "remote_close" => path \in {"fin", "fin_rst"},
             r = "connection_reset" => path = "rst",
             r = "timeout" => silence >= AllMissed /\ Inbox = 0 /\ path \in {"up", "dead"}
      PROVE  EndMove
  <2>1. /\ pc' = "backoff" /\ sleep' = reconnect_delay /\ path' = "up"
        /\ disconnects' = [disconnects EXCEPT ![r] = @ + 1]
        /\ UNCHANGED <<attempts, sessions_total>>
    BY <1>9 DEF EndSession, Backoff, DropSessionState
  <2>2. EndsFor(r)
    BY <1>9, <2>1 DEF EndsFor
  <2>3. QED
    BY <1>2, <1>9, <2>1, <2>2 DEF EndMove, InSession
<1>10. CASE LocalError
  <2>1. classify_io_error("Other") = "local_error"
    BY DEF classify_io_error
  <2>2. EndMove
    BY <1>9, <1>10, <2>1 DEF LocalError, InSession, Reasons
  <2>3. QED
    BY <1>1, <2>2
<1>11. CASE SendFails \/ RecvFails
  <2>1. PICK e \in ReadErrors \cup WriteErrors : EndSession(classify_io_error(e))
    BY <1>11 DEF SendFails, RecvFails
  <2>2. /\ classify_io_error(e) = "remote_close" => path \in {"fin", "fin_rst"}
        /\ classify_io_error(e) = "connection_reset" => path = "rst"
    BY <2>1, ErrorsAreThePeers
  <2>3. classify_io_error(e) \in Reasons \ {"connect_failed"} /\ classify_io_error(e) # "timeout"
    BY ClassifiedReasons DEF Reasons
  <2>4. InSession /\ heartbeats_sent' = heartbeats_sent
    BY <1>11 DEF SendFails, RecvFails, InSession
  <2>5. EndMove
    BY <1>9, <2>1, <2>2, <2>3, <2>4
  <2>6. QED
    BY <1>1, <2>5
<1>12. CASE TimeOut
  <2>1. EndMove
    BY <1>9, <1>12, TimeOutIsLate
    DEF TimeOut, DeadlinePassed, CountMiss, InSession, Reasons
  <2>2. QED
    BY <1>1, <2>1
<1>13. CASE HandshakeSent
  <2>1. StartMove
    BY <1>2, <1>13 DEF HandshakeSent, record_session_start, Continue, StartMove, InSession
  <2>2. QED
    BY <1>1, <2>1
<1>14. CASE SessionStep /\ SendHeartbeat /\ (wire = "up" /\ srv # "closed" => heartbeats_sent < MaxBeats)
  <2>1. SendMove
    BY <1>2, <1>14 DEF SendHeartbeat, SendMove, InSession
  <2>2. QED
    BY <1>1, <2>1
<1>15. ASSUME NEW at \in Int, at <= heartbeat_interval, Continue(at),
              pc = "awaiting" \/ (pc = "waiting" /\ at <= 0)
       PROVE  RoundOver /\ InSession'
  <2>1. (pc' = "waiting" /\ next_send' = at /\ at > 0)
        \/ (pc' = "sending" /\ next_send' = at + heartbeat_interval /\ at <= 0)
    BY <1>15 DEF Continue
  <2>2. QED
    BY <1>15, <2>1 DEF RoundOver, InSession
<1>16. CASE WaitOver \/ RoundEndsLate \/ RoundMissed
  <2>1. pc \in {"waiting", "awaiting"} /\ next_send <= heartbeat_interval
    BY <1>16 DEF WaitOver, RoundEndsLate, RoundMissed, DeadlinePassed, OneSession, InSession
  <2>2. RoundOver /\ InSession'
    BY <1>3, <1>15, <1>16, <2>1
    DEF WaitOver, RoundEndsLate, RoundMissed, DeadlinePassed, ResetSchedule
  <2>3. UNCHANGED <<heartbeats_sent, seq, attempts, deadline, arrived, taken, path, silence,
                    sessions_total, disconnects, delays>>
    BY <1>16 DEF WaitOver, RoundEndsLate, RoundMissed, CountMiss
  <2>4. Unanswered' => Unanswered
    <3>1. pc' # "awaiting"
      BY <2>2 DEF RoundOver
    <3>2. consecutive_missed' = consecutive_missed \/ (pc = "awaiting" /\ ~got_echo)
      BY <1>16 DEF WaitOver, RoundEndsLate, RoundMissed, DeadlinePassed
    <3>3. QED
      BY <3>1, <3>2 DEF Unanswered
  <2>5. RoundMove
    BY <1>2, <2>1, <2>2, <2>3, <2>4 DEF RoundMove, InSession
  <2>6. QED
    BY <1>1, <2>5
<1>17. CASE RecvEcho
  <2>1. /\ pc = "awaiting" /\ Inbox > 0 /\ taken' = taken + 1 /\ silence' = 0
        /\ consecutive_missed' = 0 /\ got_echo' = TRUE
        /\ UNCHANGED <<heartbeats_sent, seq, attempts, deadline, arrived, path, sessions_total,
                       disconnects, delays>>
    BY <1>17 DEF RecvEcho, record_echo
  <2>2. taken < arrived
    BY <1>1, <2>1 DEF Inbox, TypeOK
  <2>3. Continue(next_send) \/ UNCHANGED <<pc, next_send>>
    BY <1>17 DEF RecvEcho
  <2>4. (RoundOver \/ UNCHANGED <<pc, next_send>>) /\ InSession'
    BY <1>3, <1>15, <2>1, <2>3 DEF OneSession, InSession
  <2>5. cli_sent' = cli_sent
    BY <1>2, <2>4
  <2>6. EchoMove
    BY <2>1, <2>2, <2>4, <2>5 DEF EchoMove
  <2>7. QED
    BY <1>1, <2>6
<1>18. QED
  BY <1>4, <1>5, <1>6, <1>7, <1>8, <1>10, <1>11, <1>12, <1>13, <1>14, <1>16, <1>17
  DEF ClientStep, SessionStep, SendHeartbeat

-----------------------------------------------------------------------------
(***************************************************************************)
(* The other steps.                                                        *)
(***************************************************************************)

\* drive_session returns, and why.
ReturnMove(reason) ==
    /\ ServerLive
    /\ reason \in {"timeout", "remote_close", "connection_reset", "local_error"}
    /\ reason = "remote_close" => srv_path \in {"fin", "fin_rst"}
    /\ reason = "connection_reset" => srv_path \in {"rst", "fin_rst"}
    /\ srv' = "closed" /\ srv_reason' = reason /\ srv_idle' = 0
    /\ srv_sent' \in {"fin", "rst", "gone"} /\ (srv_sent' = "gone" <=> srv_path \in {"rst", "fin_rst"})
    /\ UNCHANGED <<vars, read, echoed, wire, delivered, cli_sent, srv_path, lag, reset_on_path>>

LEMMA ReturnMoves ==
    ASSUME SessionEnds \/ ServerError
    PROVE  \E reason : ReturnMove(reason)
<1>1. /\ Closing(srv_path, delivered - read) \in {"fin", "rst", "gone"}
      /\ Closing(srv_path, delivered - read) = "gone" <=> srv_path \in {"rst", "fin_rst"}
  BY ClosingCases
<1>2. ASSUME NEW reason, Return(reason), ServerLive,
             reason \in {"timeout", "remote_close", "connection_reset", "local_error"},
             reason = "remote_close" => srv_path \in {"fin", "fin_rst"},
             reason = "connection_reset" => srv_path \in {"rst", "fin_rst"}
      PROVE  ReturnMove(reason)
  BY <1>1, <1>2 DEF Return, ReturnMove
<1>3. CASE srv = "recv" /\ RecvTimesOut /\ Return(TimeoutReason)
  <2>1. TimeoutReason = "timeout"
    BY DEF TimeoutReason
  <2>2. ReturnMove("timeout")
    BY <1>2, <1>3, <2>1 DEF ServerLive
  <2>3. QED
    BY <2>2
<1>4. CASE ServerError
  <2>1. ReturnMove("local_error")
    BY <1>2, <1>4 DEF ServerError
  <2>2. QED
    BY <2>1
<1>5. CASE \/ srv = "recv" /\ srv_path = "rst" /\ Return("connection_reset")
           \/ srv = "echo" /\ srv_path \in {"rst", "fin_rst"} /\ Return("connection_reset")
  <2>1. ReturnMove("connection_reset")
    BY <1>2, <1>5 DEF ServerLive
  <2>2. QED
    BY <2>1
<1>6. CASE srv = "recv" /\ srv_path \in {"fin", "fin_rst"} /\ read = delivered /\ Return("remote_close")
  <2>1. ReturnMove("remote_close")
    BY <1>2, <1>6 DEF ServerLive
  <2>2. QED
    BY <2>1
<1>7. QED
  BY <1>3, <1>4, <1>5, <1>6 DEF SessionEnds

\* How the other end's end comes in.
LEMMA IncomingCases ==
    ASSUME NEW seen, NEW sent, NEW all_in, Incoming(seen, sent, all_in) # seen
    PROVE  \/ seen = "up" /\ sent \in {"fin", "fin_rst"} /\ Incoming(seen, sent, all_in) = "fin"
           \/ seen = "up" /\ sent = "rst" /\ Incoming(seen, sent, all_in) = "rst"
           \/ seen = "fin" /\ sent = "fin_rst" /\ Incoming(seen, sent, all_in) = "fin_rst"
BY DEF Incoming

\* What has been sent and not seen is on its way.
LEMMA IncomingMoves ==
    ASSUME NEW sent \in {"fin", "rst", "fin_rst"}, NEW all_in, all_in \/ sent = "rst"
    PROVE  Incoming("up", sent, all_in) # "up"
BY DEF Incoming

\* The end of one side, or a RST from the way, reaches the other.
EndAtServer ==
    /\ wire = "up" /\ ServerLive
    /\ srv_path' \in {"fin", "rst", "fin_rst"}
    /\ srv_path' \in {"fin", "fin_rst"} => cli_sent \in {"fin", "fin_rst"}
    /\ cli_sent # "none" \/ reset_on_path'
    /\ (reset_on_path => reset_on_path') /\ reset_on_path' \in BOOLEAN
    /\ UNCHANGED <<vars, srvVars, wire, delivered, cli_sent, srv_sent, lag>>

EndAtClient ==
    /\ InSession
    /\ \/ path = "up" /\ path' \in {"fin", "rst"}
       \/ path = "fin" /\ path' = "fin_rst"
    /\ path' \in {"fin", "fin_rst"} => srv_sent \in {"fin", "fin_rst"}
    /\ srv = "closed" \/ reset_on_path'
    /\ (reset_on_path => reset_on_path') /\ reset_on_path' \in BOOLEAN
    /\ UNCHANGED <<taskVars, cancelled, attempts, localVars, arrived, taken, beatVars,
                   sessionVars, clockVars, srvVars, wire, delivered, cli_sent, srv_sent, srv_path,
                   lag>>

LEMMA EndMoves ==
    ASSUME LinkTypeOK, Ends, DeliverEnd \/ ResetOnPath
    PROVE  EndAtServer \/ EndAtClient
<1> reset_on_path \in BOOLEAN
  BY DEF LinkTypeOK
<1>1. CASE /\ wire = "up" /\ ServerLive /\ AtServer # srv_path /\ srv_path' = AtServer
           /\ UNCHANGED <<vars, wire, delivered, cli_sent, srv_sent, srvVars, lag, reset_on_path>>
  BY <1>1, IncomingCases DEF EndAtServer, AtServer
<1>2. CASE /\ InSession /\ AtClient # path /\ path' = AtClient
           /\ UNCHANGED <<taskVars, cancelled, attempts, localVars, arrived, taken, beatVars,
                          sessionVars, clockVars, wire, delivered, cli_sent, srv_sent, srv_path,
                          srvVars, lag, reset_on_path>>
  <2>1. srv_sent # "none"
    BY <1>2, IncomingCases DEF AtClient
  <2>2. srv = "closed"
    BY <2>1 DEF Ends
  <2>3. QED
    BY <1>2, <2>2, IncomingCases DEF EndAtClient, AtClient
<1>3. CASE DeliverEnd
  BY <1>1, <1>2, <1>3 DEF DeliverEnd
<1>4. CASE ResetOnPath
  BY <1>4 DEF ResetOnPath, Reset, EndAtServer, EndAtClient, Ends
<1>5. QED
  BY <1>3, <1>4

\* Time passes: at the client,
SessionTick ==
    /\ InSession /\ InSession' /\ pc' = pc
    /\ next_send' = next_send - 1
    /\ deadline' = IF deadline > 0 THEN deadline - 1 ELSE 0
    /\ delays' = IF Ready THEN delays + 1 ELSE delays
    /\ silence' = IF Unanswered THEN silence + 1 ELSE silence
    /\ (Unanswered' <=> Unanswered)
    /\ UNCHANGED <<sleep, attempts, seq, consecutive_missed, path, arrived, taken, heartbeats_sent,
                   sessionVars>>

IdleTick ==
    /\ ~InSession /\ ~InSession' /\ pc' = pc
    /\ sleep' = IF pc = "backoff" THEN sleep - 1 ELSE sleep
    /\ UNCHANGED <<attempts, localVars, socketVars, heartbeats_sent, sessionVars, clockVars>>

\* and at the server.
Behind == InFlight \/ ServerReady

TickMove ==
    /\ SessionTick \/ IdleTick
    /\ Behind => lag < MaxLag /\ lag' = lag + 1
    /\ ~Behind => lag' = 0
    /\ srv_idle' = IF srv = "recv" /\ srv_idle < heartbeat_recv_timeout THEN srv_idle + 1 ELSE srv_idle
    /\ UNCHANGED <<srv, read, echoed, srv_reason, wire, delivered, cli_sent, srv_sent, srv_path,
                   reset_on_path>>

LEMMA TickMoves ==
    ASSUME LinkTick
    PROVE  TickMove
<1>1. CASE TickInSession
  <2>1. SessionTick
    BY <1>1 DEF TickInSession, SessionTick, InSession, Unanswered
  <2>2. QED
    BY <2>1 DEF LinkTick, TickMove, Behind
<1>2. CASE TickInBackoff
  <2>1. IdleTick
    BY <1>2 DEF TickInBackoff, IdleTick, InSession
  <2>2. QED
    BY <2>1 DEF LinkTick, TickMove, Behind
<1>3. CASE pc \in {"connecting", "done"} /\ UNCHANGED vars
  <2>1. IdleTick
    BY <1>3 DEF IdleTick, InSession, vars
  <2>2. QED
    BY <2>1 DEF LinkTick, TickMove, Behind
<1>4. QED
  BY <1>1, <1>2, <1>3 DEF LinkTick, Tick

-----------------------------------------------------------------------------
(***************************************************************************)
(* The client is the one of ClientSession.                                 *)
(***************************************************************************)

\* What the network does to the client is what ClientSession allows for.
LEMMA StepIsNext ==
    ASSUME IInv, LinkTypeOK, OneSession, Counted, Ends, [LinkNext]_linkVars
    PROVE  [Next]_vars
<1>1. CASE ClientStep
  BY <1>1 DEF ClientStep, Next
<1>2. CASE ServerStarts \/ RecvHeartbeat \/ SendEcho
  BY <1>2 DEF ServerStarts, RecvHeartbeat, SendEcho
<1>3. CASE SessionEnds \/ ServerError
  BY <1>3, ReturnMoves DEF ReturnMove
<1>4. CASE Deliver \/ EchoBounces \/ ServerDeclines
  BY <1>4 DEF Deliver, EchoBounces, ServerDeclines
<1>5. CASE DeliverEcho
  <2>1. arrived < echoed /\ InSession
    BY <1>5 DEF DeliverEcho
  <2>2. arrived < seq /\ arrived < MaxEchoes
    BY <2>1 DEF IInv, TypeOK, LinkTypeOK, OneSession, Counted
  <2>3. EchoArrives
    BY <1>5, <2>2 DEF DeliverEcho, EchoArrives
  <2>4. QED
    BY <2>3 DEF Next
<1>6. CASE DeliverEnd \/ ResetOnPath
  <2>1. CASE EndAtServer
    BY <2>1 DEF EndAtServer
  <2>2. CASE EndAtClient
    <3>1. PathChanges
      BY <2>2 DEF EndAtClient, PathChanges, Connected
    <3>2. QED
      BY <3>1 DEF Next
  <2>3. QED
    BY <1>6, <2>1, <2>2, EndMoves
<1>7. CASE WireDies
  <2>1. CASE InSession /\ path = "up"
    <3>1. PathChanges
      BY <1>7, <2>1 DEF WireDies, PathChanges, Connected
    <3>2. QED
      BY <3>1 DEF Next
  <2>2. CASE ~(InSession /\ path = "up")
    BY <1>7, <2>2 DEF WireDies, vars
  <2>3. QED
    BY <2>1, <2>2
<1>8. CASE LinkTick
  BY <1>8 DEF LinkTick, Next
<1>9. CASE LinkOver \/ UNCHANGED linkVars
  BY <1>9 DEF LinkOver, linkVars
<1>10. QED
  BY <1>1, <1>2, <1>3, <1>4, <1>5, <1>6, <1>7, <1>8, <1>9 DEF LinkNext, ServerStep, NetStep

\* So what holds of ClientSession holds here.
LEMMA ClientInvStep ==
    ASSUME IInv, LinkTypeOK, OneSession, Counted, Ends, [LinkNext]_linkVars
    PROVE  IInv'
<1>1. [Next]_vars
  BY StepIsNext
<1>2. QED
  BY <1>1, TypeStep, AccountStep, TimingStep DEF IInv, Accounting

-----------------------------------------------------------------------------
(***************************************************************************)
(* Types and counters.                                                     *)
(***************************************************************************)

\* The numbers.
LEMMA Numbers ==
    ASSUME IInv, LinkTypeOK
    PROVE  /\ sessions_total \in Nat /\ attempts \in Nat /\ seq \in Nat
           /\ heartbeats_sent \in Nat /\ taken \in Nat /\ arrived \in Nat
           /\ taken <= arrived /\ arrived <= seq
           /\ next_send \in Int /\ deadline \in Nat /\ deadline <= heartbeat_interval
           /\ delays \in Nat /\ silence \in Nat /\ sleep \in 0 .. reconnect_delay
           /\ srv_idle \in Nat /\ srv_idle <= heartbeat_recv_timeout
           /\ lag \in Nat /\ lag <= MaxLag
           /\ echoed \in Nat /\ read \in Nat /\ delivered \in Nat
           /\ echoed <= read /\ read <= delivered /\ delivered <= heartbeats_sent
           /\ read <= echoed + 1
<1>1. /\ sessions_total \in Nat /\ attempts \in Nat /\ seq \in Nat
      /\ heartbeats_sent \in Nat /\ arrived \in 0 .. seq /\ taken \in 0 .. arrived
      /\ next_send \in Int /\ deadline \in 0 .. heartbeat_interval
      /\ delays \in 0 .. MaxDelay /\ silence \in Nat /\ sleep \in 0 .. reconnect_delay
  BY DEF IInv, TypeOK
<1>2. /\ srv_idle \in 0 .. heartbeat_recv_timeout /\ lag \in 0 .. MaxLag
      /\ delivered \in 0 .. heartbeats_sent /\ echoed \in 0 .. read
      /\ read \in 0 .. (IF echoed < delivered THEN echoed + 1 ELSE delivered)
  BY DEF LinkTypeOK
<1>3. delivered \in Nat /\ delivered <= heartbeats_sent
  BY <1>1, <1>2
<1>4. read \in Nat /\ echoed \in Nat /\ read <= delivered /\ read <= echoed + 1 /\ echoed <= read
  BY <1>2, <1>3
<1>5. QED
  BY <1>1, <1>2, <1>3, <1>4

\* A live session is the first, and no reason has been counted yet.
LEMMA NoReasonYet ==
    ASSUME IInv, OneSession, InSession
    PROVE  /\ sessions_total = 1 /\ ~ClientBlames
           /\ \A r \in Reasons \ {"connect_failed"} : disconnects[r] = 0
<1>1. /\ disconnects["remote_close"] \in Nat /\ disconnects["connection_reset"] \in Nat
      /\ disconnects["timeout"] \in Nat /\ disconnects["local_error"] \in Nat
      /\ sessions_total \in Nat /\ dropped \in Nat
  BY DEF IInv, TypeOK, Reasons
<1>2. sessions_total = 1 + dropped
                          + disconnects["remote_close"] + disconnects["connection_reset"]
                          + disconnects["timeout"] + disconnects["local_error"]
  BY DEF IInv, Accounting, SessionAccounting
<1>3. sessions_total <= 1
  BY DEF OneSession
<1>4. /\ disconnects["remote_close"] = 0 /\ disconnects["connection_reset"] = 0
      /\ disconnects["timeout"] = 0 /\ disconnects["local_error"] = 0 /\ sessions_total = 1
  BY <1>1, <1>2, <1>3
<1>5. QED
  BY <1>4 DEF ClientBlames, Reasons

\* Before the session none has either.
LEMMA NoReasonBefore ==
    ASSUME IInv, sessions_total = 0
    PROVE  \A r \in Reasons \ {"connect_failed"} : disconnects[r] = 0
<1>1. /\ disconnects["remote_close"] \in Nat /\ disconnects["connection_reset"] \in Nat
      /\ disconnects["timeout"] \in Nat /\ disconnects["local_error"] \in Nat
      /\ session_active \in Nat /\ dropped \in Nat /\ sessions_total \in Nat
  BY DEF IInv, TypeOK, Reasons
<1>2. sessions_total = session_active + dropped
             + disconnects["remote_close"] + disconnects["connection_reset"]
             + disconnects["timeout"] + disconnects["local_error"]
  BY DEF IInv, Accounting, SessionAccounting
<1>3. /\ disconnects["remote_close"] = 0 /\ disconnects["connection_reset"] = 0
      /\ disconnects["timeout"] = 0 /\ disconnects["local_error"] = 0
  <2>1. PICK a \in Nat, b \in Nat, c \in Nat, d \in Nat, live \in Nat, cut \in Nat :
              /\ a = disconnects["remote_close"] /\ b = disconnects["connection_reset"]
              /\ c = disconnects["timeout"] /\ d = disconnects["local_error"]
              /\ live = session_active /\ cut = dropped
    BY <1>1
  <2>2. 0 = live + cut + a + b + c + d
    BY <1>2, <2>1
  <2>3. a = 0 /\ b = 0 /\ c = 0 /\ d = 0
    BY <2>2
  <2>4. QED
    BY <2>1, <2>3
<1>4. QED
  BY <1>3 DEF Reasons

\* Types.
LEMMA LinkTypeStep ==
    ASSUME IInv, LinkTypeOK, OneSession, Counted, Ends, [LinkNext]_linkVars
    PROVE  LinkTypeOK'
<1> USE DEF LinkTypeOK
<1>1. heartbeats_sent \in Nat /\ heartbeats_sent' \in Nat
  BY ClientInvStep DEF IInv, TypeOK
<1>2. CASE ClientStep
  <2>1. Elsewhere /\ heartbeats_sent' \in {heartbeats_sent, heartbeats_sent + 1}
    BY <1>2, ClientMoves DEF OutMove, StartMove, SendMove, EchoMove, RoundMove, EndMove
  <2>2. cli_sent' \in {"none", "fin", "rst", "fin_rst", "gone"}
    BY <1>2, ClosingCases DEF ClientStep
  <2>3. delivered' \in 0 .. heartbeats_sent'
    BY <1>1, <2>1 DEF Elsewhere
  <2>4. QED
    BY <2>1, <2>2, <2>3 DEF Elsewhere
<1>3. CASE ServerStarts \/ RecvHeartbeat \/ SendEcho
  <2>1. UNCHANGED <<heartbeats_sent, netVars, srv_reason>>
    BY <1>3 DEF ServerStarts, RecvHeartbeat, SendEcho, vars
  <2>2. srv' \in {"recv", "echo"} /\ srv_idle' \in {0, srv_idle}
    BY <1>3 DEF ServerStarts, RecvHeartbeat, SendEcho
  <2>3. /\ echoed' \in 0 .. read'
        /\ read' \in 0 .. (IF echoed' < delivered THEN echoed' + 1 ELSE delivered)
    <3>1. CASE ServerStarts
      BY <3>1 DEF ServerStarts
    <3>2. CASE RecvHeartbeat
      BY <1>1, <3>2, Numbers DEF RecvHeartbeat, Counted
    <3>3. CASE SendEcho
      BY <1>1, <3>3, Numbers DEF SendEcho, EchoOnce, Counted
    <3>4. QED
      BY <1>3, <3>1, <3>2, <3>3
  <2>4. /\ srv_idle' \in 0 .. heartbeat_recv_timeout
        /\ srv' \in {"none", "recv", "echo", "closed"}
    BY <2>2
  <2>5. delivered' = delivered /\ delivered' \in 0 .. heartbeats_sent'
    BY <2>1
  <2>6. read' \in 0 .. (IF echoed' < delivered' THEN echoed' + 1 ELSE delivered')
    BY <2>3, <2>5
  <2>7. QED
    BY <2>1, <2>3, <2>4, <2>5, <2>6
<1>4. CASE SessionEnds \/ ServerError
  <2>1. PICK reason : ReturnMove(reason)
    BY <1>4, ReturnMoves
  <2>2. QED
    BY <2>1 DEF ReturnMove, vars
<1>5. CASE Deliver
  <2>1. /\ delivered' = delivered + 1 /\ delivered < heartbeats_sent
        /\ srv_sent' \in {"fin_rst", "rst", srv_sent}
        /\ UNCHANGED <<heartbeats_sent, srvVars, wire, cli_sent, srv_path, lag, reset_on_path>>
    BY <1>5 DEF Deliver, Bounced, vars
  <2>2. delivered' \in 0 .. heartbeats_sent'
    BY <1>1, <2>1
  <2>3. read \in 0 .. (IF echoed < delivered' THEN echoed + 1 ELSE delivered')
    BY <1>1, <2>1, Numbers
  <2>4. QED
    BY <2>1, <2>2, <2>3
<1>6. CASE DeliverEcho \/ WireDies
  BY <1>6 DEF DeliverEcho, WireDies
<1>7. CASE EchoBounces
  BY <1>7 DEF EchoBounces, Bounced, vars
<1>8. CASE DeliverEnd \/ ResetOnPath
  BY <1>8, EndMoves DEF EndAtServer, EndAtClient, vars
<1>9. CASE LinkTick
  <2>1. TickMove
    BY <1>9, TickMoves
  <2>2. heartbeats_sent' = heartbeats_sent
    BY <2>1 DEF TickMove, SessionTick, IdleTick
  <2>3. lag' \in 0 .. MaxLag
    BY <2>1 DEF TickMove
  <2>4. srv_idle' \in 0 .. heartbeat_recv_timeout
    BY <2>1 DEF TickMove
  <2>5. QED
    BY <2>1, <2>2, <2>3, <2>4 DEF TickMove
<1>10. CASE LinkOver \/ UNCHANGED linkVars
  BY <1>10 DEF LinkOver, linkVars, vars
<1>11. CASE ServerDeclines
  BY <1>11 DEF ServerDeclines, vars
<1>12. QED
  BY <1>2, <1>3, <1>4, <1>5, <1>6, <1>7, <1>8, <1>9, <1>10, <1>11 DEF LinkNext, ServerStep, NetStep

\* The client connects once.
LEMMA OneSessionStep ==
    ASSUME IInv, LinkTypeOK, OneSession, Counted, Ends, [LinkNext]_linkVars
    PROVE  OneSession'
<1>1. IInv'
  BY ClientInvStep
<1>2. Idle' /\ sessions_total' \in Nat
  BY <1>1 DEF IInv, Accounting, TypeOK
<1>3. ASSUME UNCHANGED <<sessions_total, attempts, heartbeats_sent, pc, seq, taken, consecutive_missed,
                         got_echo, path, sleep>>,
             next_send' = next_send \/ next_send' = next_send - 1
      PROVE  OneSession'
  BY <1>3, Numbers DEF OneSession, InSession, Unanswered
<1>4. ~InSession' => ~Unanswered'
  BY <1>2 DEF Idle, Unanswered, InSession
<1>5. CASE ClientStep
  <2>1. CASE OutMove
    <3>1. ~Unanswered'
      BY <1>4, <2>1 DEF OutMove
    <3>2. QED
      BY <1>2, <2>1, <3>1, Numbers DEF OutMove, OneSession
  <2>2. CASE StartMove
    <3>1. InSession' /\ ~InSession
      BY <2>2 DEF StartMove, InSession
    <3>2. consecutive_missed' = 0 /\ seq' = 0
      BY <2>2, <3>1 DEF StartMove, IInv, Accounting, Idle
    <3>3. ~Unanswered'
      BY <2>2, <3>2 DEF StartMove, Unanswered
    <3>4. QED
      BY <2>2, <3>1, <3>2, <3>3, Numbers DEF StartMove, OneSession
  <2>3. CASE SendMove
    <3>1. InSession /\ InSession' /\ taken' < seq'
      BY <2>3, Numbers DEF SendMove, InSession
    <3>2. sessions_total = 1
      BY <3>1, NoReasonYet
    <3>3. QED
      BY <2>3, <3>1, <3>2, Numbers DEF SendMove, OneSession
  <2>4. CASE EchoMove
    <3>1. InSession /\ InSession' /\ ~Unanswered'
      BY <2>4 DEF EchoMove, InSession, Unanswered
    <3>2. next_send' <= heartbeat_interval
      BY <2>4, <3>1 DEF EchoMove, RoundOver, OneSession
    <3>3. QED
      BY <2>4, <3>1, <3>2 DEF EchoMove, OneSession, InSession
  <2>5. CASE RoundMove
    <3>1. next_send' <= heartbeat_interval
      BY <2>5 DEF RoundMove, RoundOver, OneSession
    <3>2. QED
      BY <2>5, <3>1 DEF RoundMove, OneSession, InSession
  <2>6. CASE EndMove
    <3>1. ~InSession' /\ pc' # "handshake"
      BY <2>6 DEF EndMove, InSession
    <3>2. QED
      BY <1>4, <2>6, <3>1 DEF EndMove, OneSession
  <2>7. QED
    BY <1>5, <2>1, <2>2, <2>3, <2>4, <2>5, <2>6, ClientMoves
<1>6. CASE ServerStarts \/ RecvHeartbeat \/ SendEcho \/ Deliver \/ EchoBounces \/ ServerDeclines
  BY <1>3, <1>6
  DEF ServerStarts, RecvHeartbeat, SendEcho, Deliver, EchoBounces, ServerDeclines, vars
<1>7. CASE SessionEnds \/ ServerError
  BY <1>3, <1>7, ReturnMoves DEF ReturnMove, vars
<1>8. CASE DeliverEcho
  BY <1>3, <1>8 DEF DeliverEcho
<1>9. ASSUME UNCHANGED <<sessions_total, attempts, heartbeats_sent, pc, seq, taken, next_send,
                         consecutive_missed, got_echo>>,
             InSession
      PROVE  OneSession'
  BY <1>9 DEF OneSession, InSession, Unanswered
<1>10. CASE DeliverEnd \/ ResetOnPath
  <2>1. CASE EndAtServer
    BY <1>3, <2>1 DEF EndAtServer, vars
  <2>2. CASE EndAtClient
    BY <1>9, <2>2 DEF EndAtClient
  <2>3. QED
    BY <1>10, <2>1, <2>2, EndMoves
<1>11. CASE WireDies
  <2>1. CASE InSession
    BY <1>9, <1>11, <2>1 DEF WireDies
  <2>2. CASE ~InSession
    BY <1>3, <1>11, <2>2 DEF WireDies
  <2>3. QED
    BY <2>1, <2>2
<1>12. CASE LinkTick
  <2>1. TickMove
    BY <1>12, TickMoves
  <2>2. CASE SessionTick
    BY <2>2, Numbers DEF SessionTick, OneSession
  <2>3. CASE IdleTick
    BY <2>3 DEF IdleTick, OneSession, Unanswered
  <2>4. QED
    BY <2>1, <2>2, <2>3 DEF TickMove
<1>13. CASE LinkOver \/ UNCHANGED linkVars
  BY <1>3, <1>13 DEF LinkOver, linkVars, vars
<1>14. QED
  BY <1>5, <1>6, <1>7, <1>8, <1>10, <1>11, <1>12, <1>13 DEF LinkNext, ServerStep, NetStep

\* Heartbeats and echoes stay in their order, and within the bound.
LEMMA CountedStep ==
    ASSUME IInv, LinkTypeOK, OneSession, Counted, Ends, [LinkNext]_linkVars
    PROVE  Counted'
<1> USE DEF Counted, HandshakeWritten
<1>1. IInv'
  BY ClientInvStep
<1>2. Idle'
  BY <1>1 DEF IInv, Accounting
<1>3. ASSUME UNCHANGED <<sessions_total, heartbeats_sent, srv, read, echoed, delivered>>,
             arrived' \in {0, arrived}, wire' \in {wire, "dead"},
             srv = "none" => srv_path' = srv_path /\ srv_idle' = srv_idle
      PROVE  Counted'
  BY <1>3, Numbers
<1>4. CASE ClientStep
  <2>1. Elsewhere
    BY <1>4, ClientMoves
  <2>2. CASE OutMove
    <3>1. arrived' = 0
      BY <1>2, <2>2 DEF OutMove, Idle
    <3>2. QED
      BY <1>3, <2>1, <2>2, <3>1 DEF OutMove, Elsewhere
  <2>3. CASE StartMove
    BY <2>1, <2>3, Numbers DEF StartMove, Elsewhere
  <2>4. CASE SendMove
    BY <2>1, <2>4, Numbers DEF SendMove, Elsewhere
  <2>5. CASE EchoMove \/ RoundMove
    BY <1>3, <2>1, <2>5 DEF EchoMove, RoundMove, Elsewhere
  <2>6. CASE EndMove
    <3>1. ~InSession'
      BY <2>6 DEF EndMove, InSession
    <3>2. arrived' = 0
      BY <1>2, <3>1 DEF Idle
    <3>3. QED
      BY <1>3, <2>1, <2>6, <3>2 DEF EndMove, Elsewhere
  <2>7. QED
    BY <1>4, <2>2, <2>3, <2>4, <2>5, <2>6, ClientMoves
<1>5. CASE ServerStarts
  <2>1. read = 0 /\ echoed = 0
    BY <1>5, Numbers DEF ServerStarts
  <2>2. QED
    BY <1>5, <2>1 DEF ServerStarts, vars
<1>6. CASE RecvHeartbeat
  BY <1>6, Numbers DEF RecvHeartbeat, vars
<1>7. CASE SendEcho
  BY <1>7, Numbers DEF SendEcho, EchoOnce, vars
<1>8. CASE SessionEnds \/ ServerError
  <2>1. PICK reason : ReturnMove(reason)
    BY <1>8, ReturnMoves
  <2>2. QED
    BY <2>1 DEF ReturnMove, vars, ServerLive
<1>9. CASE Deliver
  BY <1>9, Numbers DEF Deliver, vars
<1>10. CASE DeliverEcho
  BY <1>10, Numbers DEF DeliverEcho
<1>11. CASE EchoBounces
  BY <1>3, <1>11 DEF EchoBounces, vars
<1>12. CASE DeliverEnd \/ ResetOnPath
  BY <1>3, <1>12, EndMoves DEF EndAtServer, EndAtClient, vars, ServerLive
<1>13. CASE WireDies
  BY <1>3, <1>13 DEF WireDies
<1>14. CASE LinkTick
  <2>1. TickMove
    BY <1>14, TickMoves
  <2>2. UNCHANGED <<sessions_total, heartbeats_sent, arrived>>
    BY <2>1 DEF TickMove, SessionTick, IdleTick
  <2>3. QED
    BY <1>3, <2>1, <2>2 DEF TickMove
<1>15. CASE LinkOver \/ UNCHANGED linkVars
  BY <1>3, <1>15 DEF LinkOver, linkVars, vars
<1>16. CASE ServerDeclines
  BY <1>16, Numbers DEF ServerDeclines, vars
<1>17. QED
  BY <1>4, <1>5, <1>6, <1>7, <1>8, <1>9, <1>10, <1>11, <1>12, <1>13, <1>14, <1>15, <1>16
  DEF LinkNext, ServerStep, NetStep

-----------------------------------------------------------------------------
(***************************************************************************)
(* Who ended the session.                                                  *)
(***************************************************************************)

\* An end is seen only after it was sent.
LEMMA EndsStep ==
    ASSUME IInv, LinkTypeOK, OneSession, Counted, Ends, [LinkNext]_linkVars
    PROVE  Ends'
<1> USE DEF Ends
<1>1. ASSUME UNCHANGED <<cli_sent, srv_sent, srv, srv_reason, reset_on_path>>, ClientOver' <=> ClientOver,
             srv_path' = srv_path, path' \in {path, "up"}, wire' = wire,
             disconnects'["timeout"] = disconnects["timeout"]
      PROVE  Ends'
  BY <1>1
<1>2. CASE ClientStep
  <2>1. Elsewhere
    BY <1>2, ClientMoves
  <2>2. CASE OutMove
    <3>1. ClientOver' <=> ClientOver
      BY <2>2 DEF OutMove, ClientOver, HandshakeWritten
    <3>2. disconnects'["timeout"] = disconnects["timeout"]
      BY <2>2 DEF OutMove, Reasons
    <3>3. QED
      BY <1>1, <2>1, <2>2, <3>1, <3>2 DEF OutMove, Elsewhere
  <2>3. CASE StartMove
    <3>1. InSession' /\ sessions_total = 0
      BY <2>3 DEF StartMove, InSession, OneSession
    <3>2. ~ClientOver' /\ ~ClientOver
      BY <3>1 DEF ClientOver, HandshakeWritten
    <3>3. QED
      BY <1>1, <2>1, <2>3, <3>2 DEF StartMove, Elsewhere
  <2>4. CASE SendMove \/ EchoMove \/ RoundMove
    <3>1. InSession /\ InSession'
      BY <2>4 DEF SendMove, EchoMove, RoundMove, InSession
    <3>2. UNCHANGED <<cli_sent, path, disconnects>>
      BY <2>4 DEF SendMove, EchoMove, RoundMove
    <3>3. QED
      BY <1>1, <2>1, <3>1, <3>2 DEF Elsewhere, ClientOver
  <2>5. CASE EndMove
    <3>1. ~InSession' /\ sessions_total' = 1
      BY <2>5, NoReasonYet DEF EndMove, InSession
    <3>2. ClientOver'
      BY <3>1 DEF ClientOver, HandshakeWritten
    <3>3. disconnects["timeout"] = 0
      BY <2>5, NoReasonYet DEF EndMove, Reasons
    <3>4. disconnects'["timeout"] > 0 => cli_sent' # "gone"
      <4>1. CASE disconnects' = disconnects
        BY <3>3, <4>1
      <4>2. ASSUME NEW r \in Reasons \ {"connect_failed"}, EndsFor(r)
            PROVE  disconnects'["timeout"] > 0 => cli_sent' # "gone"
        <5>1. CASE r = "timeout"
          BY <2>5, <4>2, <5>1 DEF EndsFor, EndMove
        <5>2. CASE r # "timeout"
          <6>1. disconnects'["timeout"] = 0
            BY <3>3, <4>2, <5>2 DEF EndsFor, Reasons, IInv, TypeOK
          <6>2. QED
            BY <6>1
        <5>3. QED
          BY <5>1, <5>2
      <4>3. QED
        BY <2>5, <4>1, <4>2 DEF EndMove
    <3>5. cli_sent = "none"
      BY <2>5 DEF EndMove, ClientOver
    <3>6. QED
      BY <2>1, <2>5, <3>2, <3>4, <3>5 DEF EndMove, Elsewhere
  <2>6. QED
    BY <1>2, <2>2, <2>3, <2>4, <2>5, ClientMoves
<1>3. ASSUME UNCHANGED <<pc, sessions_total>>
      PROVE  ClientOver' <=> ClientOver
  BY <1>3 DEF ClientOver, HandshakeWritten, InSession
<1>4. CASE ServerStarts \/ RecvHeartbeat \/ SendEcho
  BY <1>3, <1>4 DEF ServerStarts, RecvHeartbeat, SendEcho, vars
<1>5. CASE SessionEnds \/ ServerError
  BY <1>3, <1>5, ReturnMoves DEF ReturnMove, ServerLive, vars
<1>6. CASE Deliver \/ EchoBounces
  BY <1>3, <1>6 DEF Deliver, EchoBounces, Bounced, vars
<1>7. CASE DeliverEcho
  BY <1>1, <1>3, <1>7 DEF DeliverEcho
<1>8. CASE DeliverEnd \/ ResetOnPath
  <2>1. CASE EndAtServer
    BY <1>3, <2>1 DEF EndAtServer, vars
  <2>2. CASE EndAtClient
    BY <1>3, <2>2 DEF EndAtClient
  <2>3. QED
    BY <1>8, <2>1, <2>2, EndMoves
<1>9. CASE WireDies
  BY <1>3, <1>9 DEF WireDies
<1>10. CASE LinkTick
  <2>1. TickMove
    BY <1>10, TickMoves
  <2>2. UNCHANGED <<pc, sessions_total, path, disconnects>>
    BY <2>1 DEF TickMove, SessionTick, IdleTick
  <2>3. QED
    BY <1>1, <1>3, <2>1, <2>2 DEF TickMove
<1>11. CASE LinkOver \/ UNCHANGED linkVars
  BY <1>1, <1>3, <1>11 DEF LinkOver, linkVars, vars
<1>12. CASE ServerDeclines
  BY <1>3, <1>12 DEF ServerDeclines, vars
<1>13. QED
  BY <1>2, <1>4, <1>5, <1>6, <1>7, <1>8, <1>9, <1>10, <1>11, <1>12 DEF LinkNext, ServerStep, NetStep

\* The first end to blame the other finds it closed for a reason of its own,
\* and the other keeps that reason; a RST from the way excuses a reset only.
LEMMA KnowsStep ==
    ASSUME IInv, LinkTypeOK, OneSession, Counted, Ends, FinIsOwn, OneEndKnows, [LinkNext]_linkVars
    PROVE  OneEndKnows' /\ FinIsOwn'
<1> USE DEF OneEndKnows, FinIsOwn, ServerBlames
<1>1. ASSUME UNCHANGED <<srv_reason, srv>>, ClientBlames' <=> ClientBlames,
             disconnects'["remote_close"] = disconnects["remote_close"],
             ClientOver => ClientOver', reset_on_path => reset_on_path',
             cli_sent' \in {"fin", "fin_rst"} => cli_sent \in {"fin", "fin_rst"},
             srv_sent' \in {"fin", "fin_rst"} => srv_sent \in {"fin", "fin_rst"}
      PROVE  OneEndKnows' /\ FinIsOwn'
  BY <1>1
<1>2. ASSUME UNCHANGED <<pc, sessions_total, disconnects>>
      PROVE  (ClientOver' <=> ClientOver) /\ (ClientBlames' <=> ClientBlames)
  BY <1>2 DEF ClientOver, HandshakeWritten, InSession, ClientBlames
<1>3. CASE ClientStep
  <2>1. Elsewhere
    BY <1>3, ClientMoves
  <2>2. CASE OutMove
    <3>1. ClientOver' <=> ClientOver
      BY <2>2 DEF OutMove, ClientOver, HandshakeWritten
    <3>2. /\ ClientBlames' <=> ClientBlames
          /\ disconnects'["remote_close"] = disconnects["remote_close"]
      BY <2>2 DEF OutMove, ClientBlames, Reasons
    <3>3. QED
      BY <1>1, <2>1, <2>2, <3>1, <3>2 DEF Elsewhere, OutMove
  <2>3. CASE StartMove \/ SendMove \/ EchoMove \/ RoundMove
    <3>1. ~ClientOver
      BY <2>3
      DEF StartMove, SendMove, EchoMove, RoundMove, ClientOver, HandshakeWritten, InSession, OneSession
    <3>2. /\ ClientBlames' <=> ClientBlames
          /\ disconnects'["remote_close"] = disconnects["remote_close"]
          /\ cli_sent' = cli_sent
      BY <2>3 DEF StartMove, SendMove, EchoMove, RoundMove, ClientBlames
    <3>3. QED
      BY <1>1, <2>1, <3>1, <3>2 DEF Elsewhere
  <2>4. CASE EndMove
    <3>1. /\ InSession /\ ~InSession' /\ sessions_total' = 1
          /\ \A r \in Reasons \ {"connect_failed"} : disconnects[r] = 0
      BY <2>4, NoReasonYet DEF EndMove, InSession
    <3>2. ClientOver' /\ ~ClientOver /\ srv_reason # "remote_close"
      BY <3>1 DEF ClientOver, HandshakeWritten
    <3>3. ASSUME ClientBlames'
          PROVE  \/ /\ disconnects'["remote_close"] > 0 /\ path \in {"fin", "fin_rst"}
                 \/ /\ disconnects'["remote_close"] = 0 /\ path = "rst"
      <4>1. CASE disconnects' = disconnects
        BY <3>1, <3>3, <4>1 DEF ClientBlames, Reasons
      <4>2. ASSUME NEW r \in Reasons \ {"connect_failed"}, EndsFor(r)
            PROVE  \/ /\ disconnects'["remote_close"] > 0 /\ path \in {"fin", "fin_rst"}
                   \/ /\ disconnects'["remote_close"] = 0 /\ path = "rst"
        <5>1. disconnects'["remote_close"] = IF r = "remote_close" THEN 1 ELSE 0
          BY <3>1, <4>2 DEF EndsFor, Reasons, IInv, TypeOK
        <5>2. disconnects'["connection_reset"] = IF r = "connection_reset" THEN 1 ELSE 0
          BY <3>1, <4>2 DEF EndsFor, Reasons, IInv, TypeOK
        <5>3. r \in {"remote_close", "connection_reset"}
          BY <3>3, <5>1, <5>2 DEF ClientBlames
        <5>4. QED
          BY <4>2, <5>1, <5>3 DEF EndsFor
      <4>3. QED
        BY <2>4, <4>1, <4>2 DEF EndMove
    <3>4. disconnects'["remote_close"] > 0 => ClientBlames'
      <4>1. disconnects'["remote_close"] \in Nat /\ disconnects'["connection_reset"] \in Nat
        BY ClientInvStep DEF IInv, TypeOK, Reasons
      <4>2. QED
        BY <4>1 DEF ClientBlames
    <3>5. path \in {"fin", "fin_rst"} => srv = "closed" /\ ~ServerBlames
      BY <3>2 DEF Ends
    <3>6. path = "rst" => /\ cli_sent' = "gone"
                          /\ ~reset_on_path => srv = "closed" /\ ~ServerBlames
      BY <2>4, <3>2 DEF EndMove, Ends
    <3>7. UNCHANGED <<srv_reason, srv, srv_sent, reset_on_path>>
      BY <2>1 DEF Elsewhere
    <3>8. QED
      BY <3>2, <3>3, <3>4, <3>5, <3>6, <3>7
  <2>5. QED
    BY <1>3, <2>2, <2>3, <2>4, ClientMoves
<1>4. CASE ServerStarts \/ RecvHeartbeat \/ SendEcho \/ ServerDeclines
  <2>1. /\ UNCHANGED <<pc, sessions_total, disconnects, srv_reason, cli_sent, reset_on_path>>
        /\ srv # "closed" /\ srv_sent = "none"
    BY <1>4 DEF ServerStarts, RecvHeartbeat, SendEcho, ServerDeclines, vars, Ends
  <2>2. ~ServerBlames
    BY <2>1 DEF Ends, Blames
  <2>3. QED
    BY <1>2, <2>1, <2>2
<1>5. CASE SessionEnds \/ ServerError
  <2>1. PICK reason : ReturnMove(reason)
    BY <1>5, ReturnMoves
  <2>2. /\ (ClientBlames' <=> ClientBlames) /\ (ClientOver' <=> ClientOver)
        /\ UNCHANGED <<disconnects, cli_sent, reset_on_path>>
    BY <1>2, <2>1 DEF ReturnMove, vars
  <2>3. /\ ~reset_on_path => ~ClientBlames
        /\ ~(disconnects["remote_close"] > 0)
        /\ cli_sent \in {"fin", "fin_rst"} => ~ClientBlames
    BY <2>1 DEF ReturnMove, ServerLive
  <2>4. /\ reason = "remote_close" => ClientOver /\ cli_sent \in {"fin", "fin_rst"}
        /\ reason = "connection_reset" => srv_sent' = "gone" /\ (ClientOver \/ reset_on_path)
    BY <2>1 DEF ReturnMove, Ends
  <2>5. srv_reason' = reason /\ srv' = "closed" /\ (ServerBlames' <=> Blames(reason))
    BY <2>1 DEF ReturnMove
  <2>6. QED
    BY <2>2, <2>3, <2>4, <2>5 DEF Blames
<1>6. CASE Deliver \/ EchoBounces
  BY <1>1, <1>2, <1>6 DEF Deliver, EchoBounces, Bounced, vars
<1>7. CASE DeliverEcho \/ WireDies
  BY <1>1, <1>2, <1>7 DEF DeliverEcho, WireDies
<1>8. CASE DeliverEnd \/ ResetOnPath
  BY <1>1, <1>2, <1>8, EndMoves DEF EndAtServer, EndAtClient, vars
<1>9. CASE LinkTick
  <2>1. TickMove
    BY <1>9, TickMoves
  <2>2. UNCHANGED <<pc, sessions_total, disconnects>>
    BY <2>1 DEF TickMove, SessionTick, IdleTick
  <2>3. QED
    BY <1>1, <1>2, <2>1, <2>2 DEF TickMove
<1>10. CASE LinkOver \/ UNCHANGED linkVars
  BY <1>1, <1>2, <1>10 DEF LinkOver, linkVars, vars
<1>11. QED
  BY <1>3, <1>4, <1>5, <1>6, <1>7, <1>8, <1>9, <1>10 DEF LinkNext, ServerStep, NetStep

-----------------------------------------------------------------------------
(***************************************************************************)
(* Time.                                                                   *)
(***************************************************************************)

\* A heartbeat that is not echoed is on its way or waits for the server.
LEMMA UnechoedIsBehind ==
    ASSUME IInv, LinkTypeOK, Counted, wire = "up", ServerLive, echoed < heartbeats_sent
    PROVE  Behind
<1>1. CASE delivered < heartbeats_sent
  BY <1>1 DEF Behind, InFlight, ServerLive
<1>2. CASE ~(delivered < heartbeats_sent)
  <2>1. srv = "recv" => read < delivered
    BY <1>2, Numbers DEF Counted
  <2>2. QED
    BY <2>1 DEF Behind, ServerReady, ServerLive
<1>3. QED
  BY <1>1, <1>2

\* While the wire is up, a client that waits for an answer, or is gone, and a
\* server that goes on mean that something is on its way.
LEMMA NotYetIsBehind ==
    ASSUME IInv, LinkTypeOK, OneSession, Counted, Ends, wire = "up", srv = "none" \/ ServerLive,
           \/ InSession /\ Unanswered /\ Inbox = 0 /\ path \in {"up", "dead"}
           \/ ClientOver /\ cli_sent # "gone"
    PROVE  Behind
<1>1. CASE srv = "none"
  <2>1. HandshakeWritten
    BY NoReasonYet DEF ClientOver, HandshakeWritten
  <2>2. QED
    BY <1>1, <2>1 DEF Behind, InFlight
<1>2. CASE ServerLive /\ InSession /\ Unanswered /\ Inbox = 0 /\ path \in {"up", "dead"}
  <2>1. arrived < heartbeats_sent
    BY <1>2, Numbers DEF OneSession, Inbox
  <2>2. CASE arrived < echoed
    <3>1. path = "up"
      BY <1>2 DEF Ends
    <3>2. QED
      BY <1>2, <2>2, <3>1 DEF Behind, InFlight
  <2>3. CASE ~(arrived < echoed)
    <3>1. echoed < heartbeats_sent
      BY <2>1, <2>3, Numbers
    <3>2. QED
      BY <1>2, <3>1, UnechoedIsBehind
  <2>4. QED
    BY <2>2, <2>3
<1>3. CASE ServerLive /\ ClientOver /\ cli_sent # "gone"
  <2>1. cli_sent \in {"fin", "rst", "fin_rst"}
    BY <1>3 DEF Ends, LinkTypeOK
  <2>2. CASE srv = "echo" \/ srv_path # "up"
    BY <1>3, <2>2 DEF Behind, ServerReady, ServerLive
  <2>3. CASE srv_path = "up" /\ delivered < heartbeats_sent
    BY <1>3, <2>3 DEF Behind, InFlight, ServerLive
  <2>4. CASE srv_path = "up" /\ delivered = heartbeats_sent
    <3>1. AtServer # srv_path
      BY <2>1, <2>4, IncomingMoves DEF AtServer
    <3>2. QED
      BY <1>3, <3>1 DEF Behind, InFlight
  <2>5. QED
    BY <2>2, <2>3, <2>4, Numbers
<1>4. QED
  BY <1>1, <1>2, <1>3

\* The server's wait.
LEMMA FedStep ==
    ASSUME IInv, LinkTypeOK, OneSession, Counted, Ends, Fed, [LinkNext]_linkVars
    PROVE  Fed'
<1> SUFFICES ASSUME InSession', wire' = "up", srv' = "recv"
             PROVE  Fed'
  BY DEF Fed
<1> USE DEF Fed
<1>1. ASSUME UNCHANGED <<pc, next_send, deadline, delays, heartbeats_sent, srv, srv_idle, echoed,
                         wire, lag>>
      PROVE  Fed'
  BY <1>1 DEF InSession
<1>2. CASE ClientStep
  <2>1. Elsewhere
    BY <1>2, ClientMoves
  <2>2. CASE OutMove \/ EndMove
    BY <2>2 DEF OutMove, EndMove, InSession
  <2>3. CASE StartMove
    BY <2>1, <2>3 DEF StartMove, Elsewhere, Counted, OneSession, HandshakeWritten
  <2>4. CASE SendMove
    <3>1. srv_idle <= 2 * heartbeat_interval + delays + lag
      BY <2>1, <2>4, Numbers DEF SendMove, Elsewhere, InSession
    <3>2. echoed < heartbeats_sent + 1
      BY Numbers
    <3>3. QED
      BY <2>1, <2>4, <3>1, <3>2 DEF SendMove, Elsewhere
  <2>5. CASE EchoMove \/ RoundMove
    <3>1. /\ InSession /\ UNCHANGED <<heartbeats_sent, deadline, delays>>
          /\ RoundOver \/ UNCHANGED <<pc, next_send>>
      BY <2>5 DEF EchoMove, RoundMove, InSession
    <3>2. UNCHANGED <<srv_idle, echoed, lag, srv, wire>>
      BY <2>1 DEF Elsewhere
    <3>3. CASE UNCHANGED <<pc, next_send>>
      BY <1>1, <3>1, <3>2, <3>3
    <3>4. CASE RoundOver
      <4>1. pc' \in {"waiting", "sending"} /\ next_send' \in Int /\ next_send' <= heartbeat_interval
            /\ (pc' = "waiting" => pc = "awaiting")
        BY <3>4 DEF RoundOver
      <4>2. QED
        BY <3>1, <3>2, <4>1, Numbers
    <3>5. QED
      BY <3>1, <3>3, <3>4
  <2>6. QED
    BY <1>2, <2>2, <2>3, <2>4, <2>5, ClientMoves
<1>3. ASSUME srv_idle' = 0, UNCHANGED <<pc, next_send, deadline, delays, heartbeats_sent, lag>>
      PROVE  Fed'
  <2>1. next_send <= heartbeat_interval
    BY <1>3 DEF OneSession, InSession
  <2>2. QED
    BY <1>3, <2>1, Numbers
<1>4. CASE ServerStarts
  BY <1>3, <1>4 DEF ServerStarts, Counted, vars
<1>5. CASE RecvHeartbeat
  BY <1>5 DEF RecvHeartbeat
<1>6. CASE SendEcho
  BY <1>3, <1>6 DEF SendEcho, vars
<1>7. CASE SessionEnds \/ ServerError
  BY <1>7, ReturnMoves DEF ReturnMove
<1>8. CASE Deliver \/ EchoBounces
  BY <1>1, <1>8 DEF Deliver, EchoBounces, vars
<1>9. CASE DeliverEcho
  BY <1>1, <1>9 DEF DeliverEcho
<1>10. CASE DeliverEnd \/ ResetOnPath
  BY <1>1, <1>10, EndMoves DEF EndAtServer, EndAtClient, vars
<1>11. CASE WireDies
  BY <1>11 DEF WireDies
<1>12. CASE LinkTick
  <2>1. TickMove
    BY <1>12, TickMoves
  <2>2. SessionTick
    BY <2>1 DEF TickMove, IdleTick
  <2>3. /\ wire = "up" /\ srv = "recv" /\ echoed' = echoed /\ InSession
        /\ heartbeats_sent' = heartbeats_sent /\ pc' = pc
        /\ next_send' = next_send - 1
        /\ deadline' = IF deadline > 0 THEN deadline - 1 ELSE 0
        /\ delays' = IF Ready THEN delays + 1 ELSE delays
        /\ srv_idle' \in Nat /\ srv_idle' <= srv_idle + 1
    BY <2>1, <2>2, Numbers DEF TickMove, SessionTick
  <2>4. delays' \in Nat /\ delays' >= delays
    BY <2>3, Numbers
  <2>5. ASSUME echoed < heartbeats_sent
        PROVE  srv_idle' <= 2 * heartbeat_interval + delays' + lag'
    <3>1. Behind
      BY <2>3, <2>5, UnechoedIsBehind DEF ServerLive
    <3>2. lag' = lag + 1
      BY <2>1, <3>1 DEF TickMove
    <3>3. QED
      BY <2>3, <2>4, <2>5, <3>2, Numbers
  <2>6. ASSUME echoed = heartbeats_sent
        PROVE  /\ srv_idle' <= 2 * heartbeat_interval + delays'
               /\ pc = "waiting" => srv_idle' + next_send' <= 2 * heartbeat_interval + delays'
               /\ pc = "awaiting" => srv_idle' + deadline' <= heartbeat_interval + delays'
    <3>1. CASE pc = "waiting"
      <4>1. next_send <= 0 => Ready
        BY <3>1 DEF Ready
      <4>2. srv_idle + next_send <= 2 * heartbeat_interval + delays
            /\ srv_idle <= 2 * heartbeat_interval + delays
        BY <2>3, <2>6, <3>1
      <4>3. QED
        BY <2>3, <2>4, <3>1, <4>1, <4>2, Numbers
    <3>2. CASE pc = "sending"
      <4>1. delays' = delays + 1
        BY <2>3, <3>2 DEF Ready
      <4>2. QED
        BY <2>3, <2>6, <3>2, <4>1, Numbers
    <3>3. CASE pc = "awaiting"
      <4>1. deadline = 0 => delays' = delays + 1
        BY <2>3, <3>3 DEF Ready
      <4>2. srv_idle + deadline <= heartbeat_interval + delays
        BY <2>3, <2>6, <3>3
      <4>3. QED
        BY <2>3, <2>4, <3>3, <4>1, <4>2, Numbers
    <3>4. QED
      BY <2>3, <3>1, <3>2, <3>3 DEF InSession
  <2>7. QED
    BY <2>3, <2>5, <2>6
<1>13. CASE LinkOver \/ UNCHANGED linkVars
  BY <1>1, <1>13 DEF LinkOver, linkVars, vars
<1>14. CASE ServerDeclines
  BY <1>14 DEF ServerDeclines
<1>15. QED
  BY <1>2, <1>4, <1>5, <1>6, <1>7, <1>8, <1>9, <1>10, <1>11, <1>12, <1>13, <1>14
  DEF LinkNext, ServerStep, NetStep

\* The numbers of Follows.
LEMMA ElapsedType ==
    ASSUME IInv
    PROVE  AllMissed \in Int /\ Elapsed \in Int
<1>1. AllMissed \in Int
  BY MissLimitType DEF AllMissed
<1>2. QED
  BY <1>1 DEF Elapsed, IInv, TypeOK

\* A step of one end only keeps Follows if no more time has passed in it.
LEMMA FollowsKept ==
    ASSUME IInv, IInv', LinkTypeOK, Follows,
           UNCHANGED <<srv_idle, lag>>,
           (Elapsed' <= 0) \/ (Elapsed' <= Elapsed /\ Waiting /\ (Busy' <=> Busy))
    PROVE  Follows'
<1>1. Elapsed \in Int /\ srv_idle \in Nat /\ lag \in Nat
  BY ElapsedType, Numbers
<1>2. Elapsed' \in Int
  BY ElapsedType, MissLimitType DEF Elapsed, AllMissed, IInv, TypeOK
<1>3. QED
  BY <1>1, <1>2 DEF Follows

\* The server's lead.
LEMMA FollowsStep ==
    ASSUME IInv, LinkTypeOK, OneSession, Counted, Ends, Follows, [LinkNext]_linkVars
    PROVE  Follows'
<1> SUFFICES ASSUME Waiting'
             PROVE  Follows'
  BY DEF Follows
<1>1. IInv' /\ LinkTypeOK'
  BY ClientInvStep, LinkTypeStep
<1>2. /\ Elapsed \in Int /\ AllMissed \in Int /\ srv_idle \in Nat /\ lag \in Nat /\ lag <= MaxLag
      /\ sleep \in 0 .. reconnect_delay
  BY ElapsedType, Numbers
<1>3. Idle' /\ "timeout" \in Reasons \ {"connect_failed"} /\ disconnects["timeout"] \in Nat
  BY <1>1 DEF IInv, Accounting, TypeOK, Reasons
<1>4. ASSUME UNCHANGED <<pc, sleep, silence, disconnects>>
      PROVE  Elapsed' = Elapsed
  BY <1>4 DEF Elapsed, InSession, AllMissed
<1>5. CASE ClientStep
  <2>1. Elsewhere
    BY <1>5, ClientMoves
  <2>2. UNCHANGED <<srv_idle, lag>> /\ (Busy' <=> Busy) /\ (ServerLive' <=> ServerLive)
        /\ UNCHANGED <<srv, wire>>
    BY <2>1 DEF Elsewhere, Busy, ServerLive
  <2>3. CASE OutMove
    <3>1. Waiting
      BY <2>2, <2>3 DEF OutMove, Waiting
    <3>2. disconnects'["timeout"] = disconnects["timeout"]
      BY <1>3, <2>3 DEF OutMove
    <3>3. CASE sessions_total = 0
      <4>1. disconnects'["timeout"] = 0
        BY <1>3, <3>2, <3>3, NoReasonBefore
      <4>2. Elapsed' = 0
        BY <2>3, <4>1 DEF OutMove, Elapsed
      <4>3. QED
        BY <1>1, <2>2, <4>2, FollowsKept
    <3>4. CASE sessions_total > 0
      <4>1. CASE pc' = "done"
        <5>1. Elapsed' = 0
          BY <2>3, <4>1 DEF OutMove, Elapsed
        <5>2. QED
          BY <1>1, <2>2, <5>1, FollowsKept
      <4>2. CASE sleep' = sleep /\ (pc' = pc \/ (pc = "backoff" /\ pc' = "connecting"))
        <5>1. Elapsed' = Elapsed
          BY <2>3, <3>2, <4>2 DEF OutMove, Elapsed, AllMissed
        <5>2. Elapsed' <= Elapsed
          BY <1>2, <5>1
        <5>3. QED
          BY <1>1, <2>2, <3>1, <5>2, FollowsKept
      <4>3. QED
        BY <2>3, <3>4, <4>1, <4>2 DEF OutMove
    <3>5. QED
      BY <3>3, <3>4, Numbers
  <2>4. CASE StartMove \/ EchoMove
    <3>1. Elapsed' = 0
      BY <2>4 DEF StartMove, EchoMove, Elapsed, InSession, IInv, Accounting, Idle
    <3>2. QED
      BY <1>1, <2>2, <3>1, FollowsKept
  <2>5. CASE SendMove \/ RoundMove
    <3>1. InSession /\ InSession' /\ UNCHANGED <<silence, arrived, taken, path>>
      BY <2>5 DEF SendMove, RoundMove, InSession
    <3>2. Elapsed' = Elapsed /\ Waiting
      BY <2>2, <3>1 DEF Elapsed, Waiting, Inbox
    <3>3. Elapsed' <= Elapsed
      BY <1>2, <3>2
    <3>4. QED
      BY <1>1, <2>2, <3>2, <3>3, FollowsKept
  <2>6. CASE EndMove
    <3>1. ~InSession' /\ InSession /\ disconnects["timeout"] = 0
      BY <1>3, <2>6, NoReasonYet DEF EndMove, InSession
    <3>2. CASE disconnects'["timeout"] = 0
      <4>1. Elapsed' = 0
        BY <3>1, <3>2 DEF Elapsed
      <4>2. QED
        BY <1>1, <2>2, <4>1, FollowsKept
    <3>3. CASE EndsFor("timeout")
      <4>1. Elapsed' \in {AllMissed + reconnect_delay - reconnect_delay, 0}
        BY <3>1, <3>3 DEF EndsFor, Elapsed, AllMissed
      <4>2. silence >= AllMissed /\ Inbox = 0 /\ path \in {"up", "dead"} /\ Elapsed = silence
        BY <3>1, <3>3 DEF EndsFor, Elapsed
      <4>3. Elapsed' <= 0 \/ Elapsed' <= Elapsed
        BY <1>2, <4>1, <4>2
      <4>4. Waiting
        BY <2>2, <4>2 DEF Waiting
      <4>5. QED
        BY <1>1, <2>2, <4>3, <4>4, FollowsKept
    <3>4. disconnects'["timeout"] = 0 \/ EndsFor("timeout")
      BY <1>3, <2>6, <3>1 DEF EndMove, EndsFor, IInv, TypeOK
    <3>5. QED
      BY <3>2, <3>3, <3>4
  <2>7. QED
    BY <1>5, <2>3, <2>4, <2>5, <2>6, ClientMoves
<1>6. ASSUME UNCHANGED vars
      PROVE  /\ Elapsed' = Elapsed
             /\ ((srv = "none" /\ wire = "up") \/ ServerLive) => Waiting
  <2>1. InSession' => Inbox' = 0 /\ path' \in {"up", "dead"}
    BY DEF Waiting
  <2>2. UNCHANGED <<pc, sleep, silence, disconnects, arrived, taken, path>>
    BY <1>6 DEF vars
  <2>3. QED
    BY <1>4, <2>1, <2>2 DEF Waiting, InSession, Inbox
<1>7. CASE ServerStarts
  <2>1. UNCHANGED <<vars, netVars>> /\ wire = "up" /\ srv = "none"
    BY <1>7 DEF ServerStarts
  <2>2. Elapsed' = Elapsed /\ Waiting /\ Busy /\ Busy' /\ lag' = lag
    BY <1>6, <2>1 DEF Busy
  <2>3. QED
    BY <2>2 DEF Follows
<1>8. CASE RecvHeartbeat
  <2>1. UNCHANGED <<vars, netVars>> /\ srv = "recv" /\ srv' = "echo" /\ read < delivered
    BY <1>8 DEF RecvHeartbeat
  <2>2. Elapsed' = Elapsed /\ Waiting /\ Busy /\ Busy' /\ lag' = lag
    BY <1>6, <2>1 DEF Busy, ServerLive
  <2>3. QED
    BY <2>2 DEF Follows
<1>9. CASE SendEcho
  <2>1. UNCHANGED <<vars, netVars>> /\ srv = "echo" /\ srv_idle' = 0
    BY <1>9 DEF SendEcho
  <2>2. Elapsed' = Elapsed /\ Waiting /\ Busy /\ lag' = lag
    BY <1>6, <2>1 DEF Busy, ServerLive
  <2>3. Elapsed <= lag
    BY <2>2 DEF Follows
  <2>4. QED
    BY <1>2, <2>1, <2>2, <2>3 DEF Follows
<1>10. CASE SessionEnds \/ ServerError \/ ServerDeclines
  BY <1>10, ReturnMoves DEF ReturnMove, ServerDeclines, Waiting, ServerLive
<1>11. CASE Deliver
  <2>1. UNCHANGED <<vars, srvVars, wire, lag>> /\ wire = "up"
    BY <1>11 DEF Deliver
  <2>2. ServerLive
    BY <1>11, <2>1 DEF Deliver, Waiting, ServerLive
  <2>3. Elapsed' = Elapsed /\ Waiting /\ Busy /\ Busy' /\ lag' = lag
    BY <1>6, <2>1, <2>2 DEF Busy
  <2>4. QED
    BY <2>3 DEF Follows
<1>12. CASE DeliverEcho
  <2>1. InSession' /\ arrived' = arrived + 1 /\ taken' = taken
    BY <1>12 DEF DeliverEcho, InSession
  <2>2. Inbox' # 0
    BY <2>1, Numbers DEF Inbox
  <2>3. QED
    BY <2>1, <2>2 DEF Waiting
<1>13. CASE EchoBounces
  <2>1. UNCHANGED <<vars, srvVars, wire, delivered, srv_path, lag>>
    BY <1>13 DEF EchoBounces
  <2>2. /\ Elapsed' = Elapsed /\ Waiting /\ (Busy' <=> Busy) /\ UNCHANGED <<srv_idle, lag>>
    BY <1>6, <2>1 DEF Busy, Waiting, ServerLive
  <2>3. QED
    BY <1>1, <1>2, <2>2, FollowsKept
<1>14. CASE DeliverEnd \/ ResetOnPath
  <2>1. CASE EndAtServer
    <3>1. Elapsed' = Elapsed /\ Waiting /\ Busy /\ Busy' /\ lag' = lag
      BY <1>6, <2>1 DEF EndAtServer, Busy
    <3>2. QED
      BY <3>1 DEF Follows
  <2>2. CASE EndAtClient
    <3>1. InSession' /\ path' \notin {"up", "dead"}
      BY <2>2 DEF EndAtClient, InSession
    <3>2. QED
      BY <3>1 DEF Waiting
  <2>3. QED
    BY <1>14, <2>1, <2>2, EndMoves
<1>15. CASE WireDies
  <2>1. UNCHANGED <<pc, sleep, silence, disconnects, arrived, taken, srvVars, lag>> /\ wire = "up"
        /\ wire' = "dead" /\ (InSession => path' = (IF path = "up" THEN "dead" ELSE path))
    BY <1>15 DEF WireDies
  <2>2. Elapsed' = Elapsed /\ Waiting /\ Busy
    BY <1>4, <2>1 DEF Waiting, InSession, Inbox, ServerLive, Busy
  <2>3. Elapsed <= lag
    BY <2>2 DEF Follows
  <2>4. QED
    BY <1>2, <2>1, <2>2, <2>3 DEF Follows
<1>16. CASE LinkTick
  <2>1. TickMove
    BY <1>16, TickMoves
  <2>2. UNCHANGED <<srv, wire, read, delivered, srv_path>>
    BY <2>1 DEF TickMove
  <2>3. (Busy' <=> Busy) /\ (ServerLive' <=> ServerLive)
    BY <2>2 DEF Busy, ServerLive
  <2>4. /\ Waiting /\ Elapsed' \in Int /\ Elapsed' <= Elapsed + 1
        /\ \/ Elapsed' <= 0
           \/ InSession /\ Unanswered /\ Inbox = 0 /\ path \in {"up", "dead"}
           \/ ClientOver /\ cli_sent # "gone"
    <3>1. CASE SessionTick
      <4>1. /\ InSession /\ InSession' /\ UNCHANGED <<arrived, taken, path>>
            /\ silence' = IF Unanswered THEN silence + 1 ELSE silence
        BY <3>1 DEF SessionTick
      <4>2. Waiting /\ Inbox = 0 /\ path \in {"up", "dead"}
        BY <2>2, <2>3, <4>1 DEF Waiting, Inbox
      <4>3. Elapsed = silence /\ Elapsed' = silence'
        BY <4>1 DEF Elapsed
      <4>4. ~Unanswered => silence = 0
        BY DEF IInv, Timing
      <4>5. QED
        BY <4>1, <4>2, <4>3, <4>4, Numbers
    <3>2. CASE IdleTick
      <4>1. /\ ~InSession /\ ~InSession' /\ pc' = pc /\ UNCHANGED disconnects
            /\ sleep' = IF pc = "backoff" THEN sleep - 1 ELSE sleep
        BY <3>2 DEF IdleTick
      <4>2. Waiting
        BY <2>2, <2>3, <4>1 DEF Waiting
      <4>3. CASE disconnects["timeout"] > 0 /\ pc \in {"backoff", "connecting"}
        <5>1. /\ Elapsed = AllMissed + reconnect_delay - sleep
              /\ Elapsed' = AllMissed + reconnect_delay - sleep'
          BY <4>1, <4>3 DEF Elapsed, AllMissed
        <5>2. sessions_total # 0
          BY <1>3, <4>3, NoReasonBefore
        <5>3. ClientOver /\ cli_sent # "gone"
          BY <4>1, <4>3, <5>2, Numbers DEF ClientOver, HandshakeWritten, Ends
        <5>4. sleep' \in Int /\ sleep' >= sleep - 1
          BY <1>2, <4>1
        <5>5. QED
          <6>1. Elapsed' \in Int /\ Elapsed' <= Elapsed + 1
            <7>1. PICK m \in Int, s \in Int, t \in Int : m = AllMissed /\ s = sleep /\ t = sleep'
              BY <1>2, <5>4
            <7>2. /\ Elapsed = m + reconnect_delay - s /\ Elapsed' = m + reconnect_delay - t
                  /\ t >= s - 1
              BY <5>1, <5>4, <7>1
            <7>3. QED
              BY <7>2
          <6>2. QED
            BY <4>2, <5>3, <6>1
      <4>4. CASE ~(disconnects["timeout"] > 0 /\ pc \in {"backoff", "connecting"})
        <5>1. Elapsed = 0 /\ Elapsed' = 0
          BY <4>1, <4>4 DEF Elapsed
        <5>2. QED
          BY <4>2, <5>1
      <4>5. QED
        BY <4>3, <4>4
    <3>3. QED
      BY <2>1, <3>1, <3>2 DEF TickMove
  <2>5. lag' \in Nat /\ srv_idle' \in Nat /\ (Behind => lag' = lag + 1)
    BY <1>2, <2>1, Numbers DEF TickMove
  <2>6. CASE wire = "up"
    <3>1. Busy /\ Busy' /\ Elapsed <= lag
      BY <2>3, <2>4, <2>6 DEF Busy, Follows
    <3>2. Elapsed' <= 0 \/ Behind
      BY <2>4, <2>6, NotYetIsBehind DEF Waiting
    <3>3. Elapsed' <= lag'
      BY <1>2, <2>4, <2>5, <3>1, <3>2
    <3>4. QED
      BY <3>1, <3>3 DEF Follows
  <2>7. CASE wire # "up" /\ Busy
    <3>1. ServerLive /\ Elapsed <= lag
      BY <2>4, <2>7 DEF Waiting, Follows
    <3>2. Behind
      BY <2>7, <3>1 DEF Busy, Behind, ServerReady, ServerLive
    <3>3. Elapsed' <= lag' /\ Busy'
      BY <1>2, <2>3, <2>4, <2>5, <2>7, <3>1, <3>2
    <3>4. QED
      BY <3>3 DEF Follows
  <2>8. CASE ~Busy
    <3>1. /\ srv = "recv" /\ read = delivered /\ srv_path = "up" /\ ~Busy'
      BY <2>3, <2>4, <2>8, Numbers DEF Waiting, Busy, ServerLive
    <3>2. CASE srv_idle = heartbeat_recv_timeout
      <4>1. Behind
        BY <3>1, <3>2 DEF Behind, ServerReady, RecvTimesOut
      <4>2. srv_idle' = srv_idle /\ lag' = lag + 1
        BY <2>1, <2>5, <3>2, <4>1 DEF TickMove
      <4>3. Elapsed <= srv_idle + MaxLag + lag
        BY <1>2, <2>4, <2>8 DEF Follows
      <4>4. Elapsed' <= srv_idle' + MaxLag + lag'
        BY <1>2, <2>4, <4>2, <4>3
      <4>5. QED
        BY <3>1, <3>2, <4>2, <4>4 DEF Follows
    <3>3. CASE srv_idle # heartbeat_recv_timeout
      <4>1. srv_idle' = srv_idle + 1
        BY <2>1, <3>1, <3>3, Numbers DEF TickMove
      <4>2. Elapsed <= srv_idle + MaxLag
        BY <2>4, <2>8, <3>3 DEF Follows
      <4>3. Elapsed' <= srv_idle' + MaxLag
        BY <1>2, <2>4, <4>1, <4>2
      <4>4. QED
        BY <3>1, <4>3 DEF Follows
    <3>4. QED
      BY <3>2, <3>3
  <2>9. QED
    BY <2>6, <2>7, <2>8
<1>17. CASE LinkOver \/ UNCHANGED linkVars
  <2>1. UNCHANGED <<vars, srvVars, netVars>>
    BY <1>17 DEF LinkOver, linkVars
  <2>2. /\ Elapsed' = Elapsed /\ Waiting /\ (Busy' <=> Busy) /\ UNCHANGED <<srv_idle, lag>>
    BY <1>6, <2>1 DEF Busy, Waiting, ServerLive
  <2>3. QED
    BY <1>1, <1>2, <2>2, FollowsKept
<1>18. QED
  BY <1>5, <1>7, <1>8, <1>9, <1>10, <1>11, <1>12, <1>13, <1>14, <1>15, <1>16, <1>17
  DEF LinkNext, ServerStep, NetStep

-----------------------------------------------------------------------------
(***************************************************************************)
(* The results.                                                            *)
(***************************************************************************)

\* It holds at first.
LEMMA LinkInvInit == LinkInit => LinkInv
<1> SUFFICES ASSUME LinkInit PROVE LinkInv
  OBVIOUS
<1>1. Init /\ IInv
  BY InitTypes, InitAccounts, InitTiming DEF LinkInit, IInv
<1>2. /\ pc = "connecting" /\ sessions_total = 0 /\ heartbeats_sent = 0 /\ path = "up"
      /\ consecutive_missed = 0 /\ taken = 0 /\ arrived = 0 /\ sleep = 0
      /\ disconnects = [r \in Reasons |-> 0]
  BY DEF LinkInit, Init
<1>3. ~InSession /\ ~Unanswered /\ ~ClientOver
  BY <1>2 DEF InSession, Unanswered, ClientOver, HandshakeWritten
<1>4. /\ srv = "none" /\ srv_idle = 0 /\ read = 0 /\ echoed = 0 /\ srv_reason = "none"
      /\ wire = "up" /\ delivered = 0
      /\ cli_sent = "none" /\ srv_sent = "none" /\ srv_path = "up" /\ lag = 0
      /\ reset_on_path = FALSE
  BY DEF LinkInit
<1>5. LinkTypeOK
  <2>1. reset_on_path \in BOOLEAN
    BY <1>4
  <2>2. QED
    BY <1>2, <1>4, <2>1 DEF LinkTypeOK
<1>6. OneSession /\ Counted /\ Ends
  BY <1>2, <1>3, <1>4 DEF OneSession, Counted, Ends, Reasons
<1>7. OneEndKnows /\ FinIsOwn
  BY <1>2, <1>4 DEF OneEndKnows, FinIsOwn, ServerBlames, Blames, ClientBlames, Reasons
<1>8. Fed /\ Follows
  <2>1. Elapsed = 0
    BY <1>2, <1>3 DEF Elapsed, Reasons
  <2>2. QED
    BY <1>3, <1>4, <2>1 DEF Fed, Follows, Busy
<1>9. QED
  BY <1>1, <1>5, <1>6, <1>7, <1>8 DEF LinkInv

\* Every step keeps it.
LEMMA LinkInvStep == LinkInv /\ [LinkNext]_linkVars => LinkInv'
BY ClientInvStep, LinkTypeStep, OneSessionStep, CountedStep, EndsStep, KnowsStep, FedStep,
   FollowsStep DEF LinkInv

\* So every reachable state satisfies it.
THEOREM LinkInvariant == LinkSpec => []LinkInv
BY LinkInvInit, LinkInvStep, PTL DEF LinkSpec

\* Types of both ends and of the network.
THEOREM LinkTypeCorrect == LinkSpec => []LinkTypeOK
<1>1. LinkInv => LinkTypeOK
  BY DEF LinkInv
<1>2. QED
  BY <1>1, LinkInvariant, PTL

\* The server and the network of Link do to the client only what
\* ClientSession allows for, so that all its theorems hold of this client.
THEOREM LinkRefinesClient == LinkSpec => ImplementsClientSession
<1>1. LinkInit => Init
  BY DEF LinkInit
<1>2. LinkInv /\ [LinkNext]_linkVars => [Next]_vars
  BY StepIsNext DEF LinkInv
<1>3. QED
  BY <1>1, <1>2, LinkInvariant, PTL DEF LinkSpec, ImplementsClientSession

\* An end that counts a remote_close is right about the other one, and so is
\* an end that counts a connection_reset on a connection nothing on the way has
\* reset: the other has ended the session for a reason of its own.
THEOREM OneEndAlwaysKnows == LinkSpec => []OneEndKnows
<1>1. LinkInv => OneEndKnows
  BY DEF LinkInv
<1>2. QED
  BY <1>1, LinkInvariant, PTL

\* The server hears of a client it can reach within two intervals and the
\* delays on the way.
THEOREM IdleIsBounded == LinkSpec => []IdleBounded
<1>1. LinkInv => IdleBounded
  <2> SUFFICES ASSUME LinkInv, InSession, wire = "up", srv = "recv"
               PROVE  srv_idle <= 2 * heartbeat_interval + delays + MaxLag
    BY DEF IdleBounded
  <2>1. IInv /\ LinkTypeOK /\ Fed
    BY DEF LinkInv
  <2>2. echoed < heartbeats_sent \/ echoed = heartbeats_sent
    BY <2>1, Numbers
  <2>3. srv_idle <= 2 * heartbeat_interval + delays + lag
        \/ srv_idle <= 2 * heartbeat_interval + delays
    BY <2>1, <2>2 DEF Fed
  <2>4. QED
    BY <2>1, <2>3, Numbers
<1>2. QED
  BY <1>1, LinkInvariant, PTL

\* If the timings of the two nodes suit each other, a client that timed out
\* never connects while its old session is still held at the server.
THEOREM OldSessionsGone == LinkSpec => []OldSessionGone
<1>1. LinkInv => OldSessionGone
  <2> SUFFICES ASSUME LinkInv, TimingsSuit, disconnects["timeout"] > 0, pc = "connecting",
                      ServerLive
               PROVE  FALSE
    BY DEF OldSessionGone
  <2>1. IInv /\ LinkTypeOK /\ Follows
    BY DEF LinkInv
  <2>2. Waiting
    BY DEF Waiting, InSession
  <2>3. Elapsed = AllMissed + reconnect_delay - sleep
    BY DEF Elapsed, InSession
  <2>4. sleep = 0
    BY DEF LinkInv, OneSession
  <2>5. Elapsed <= heartbeat_recv_timeout + 2 * MaxLag
    BY <2>1, <2>2, Numbers, ElapsedType DEF Follows
  <2>6. heartbeat_recv_timeout + 2 * MaxLag < AllMissed + reconnect_delay
    BY DEF TimingsSuit, AllMissed
  <2>7. QED
    BY <2>1, <2>3, <2>4, <2>5, <2>6, ElapsedType
<1>2. QED
  BY <1>1, LinkInvariant, PTL
=============================================================================
