---------------------------- MODULE ClientSession ----------------------------
(***************************************************************************)
(* client.rs, run_peer_loop and run_session: the task that keeps one       *)
(* outbound heartbeat session open to one peer.                            *)
(*                                                                         *)
(* A step of the task is what it does between two awaits.  Instants are    *)
(* kept relative to now, so Tick moves them all; they are in ticks, of     *)
(* which heartbeat_interval and reconnect_delay are whole numbers.  Tick   *)
(* does not overtake a task that could run, except for MaxDelay ticks per  *)
(* session in which the task is scheduled late or its write is blocked.    *)
(*                                                                         *)
(* The server echoes every heartbeat once and in order (drive_session), so *)
(* the echoes of a session are numbered like its heartbeats, from 0: those *)
(* below taken have been returned by HeartbeatReader::recv, those from     *)
(* taken to arrived - 1 wait in the socket.                                *)
(***************************************************************************)
EXTENDS Integers

CONSTANTS
    heartbeat_interval, \* ClientConfig, in ticks
    reconnect_delay,    \* ClientConfig, in ticks
    max_misses,         \* ClientConfig; validate lets it be 0
    MaxAttempts,        \* bound: connection attempts
    MaxEchoes,          \* bound: echoes the network delivers in a session
    MaxDelay,           \* bound: ticks per session the task is held up
    MaxSteps            \* bound: ticks per session the wall clock is set by

ASSUME IntervalAssumption == heartbeat_interval \in Nat \ {0}
ASSUME ReconnectAssumption == reconnect_delay \in Nat \ {0}
ASSUME MissesAssumption == max_misses \in Nat
ASSUME BoundsAssumption ==
    MaxAttempts \in Nat /\ MaxEchoes \in Nat /\ MaxDelay \in Nat /\ MaxSteps \in Nat

VARIABLES
    pc,        \* the await the task is at
    cancelled, \* its CancellationToken has fired
    sleep,     \* ticks left of the reconnect sleep
    attempts   \* connections attempted (bound only)

VARIABLES      \* the locals of run_session
    seq,
    consecutive_missed,
    got_echo,
    next_send, \* relative to now; negative when behind schedule
    deadline,  \* relative to now, 0 once passed
    send_age   \* now_f64() - send_ts, on the wall clock

VARIABLES      \* the connection, as the network leaves it
    path,      \* "up", "dead" (silent drop), or what was received from the peer:
               \* "fin", "rst", "fin_rst" (a RST after its FIN)
    arrived,   \* echoes that have reached this host
    taken      \* echoes returned by HeartbeatReader::recv

VARIABLES      \* the metrics with this task's label
    session_active,
    sessions_total,
    heartbeats_sent,
    heartbeats_rx,
    heartbeats_missed,
    consecutive_missed_gauge,
    rtt,
    disconnects

VARIABLES      \* history, read by properties and by the bound on delays only
    silence,   \* ticks since the first heartbeat that has had no answer yet
    delays,    \* ticks this session was held up
    steps,     \* ticks the wall clock was set by during this session
    dropped    \* sessions ended by cancellation

taskVars == <<pc, sleep>>
localVars == <<seq, consecutive_missed, got_echo, next_send, deadline, send_age>>
socketVars == <<path, arrived, taken>>
beatVars == <<heartbeats_sent, heartbeats_rx, heartbeats_missed, consecutive_missed_gauge, rtt>>
sessionVars == <<session_active, sessions_total, disconnects, dropped>>
clockVars == <<silence, delays, steps>>
vars == <<taskVars, cancelled, attempts, localVars, socketVars, beatVars, sessionVars, clockVars>>

Reasons == {"remote_close", "connection_reset", "timeout", "local_error", "connect_failed"}

\* The awaits inside a session.
InSession == pc \in {"waiting", "sending", "awaiting"}
Connected == InSession \/ pc = "handshake"

Inbox == arrived - taken

Init ==
    /\ pc = "connecting"
    /\ cancelled = FALSE
    /\ sleep = 0
    /\ attempts = 0
    /\ seq = 0 /\ consecutive_missed = 0 /\ got_echo = FALSE
    /\ next_send = 0 /\ deadline = 0 /\ send_age = 0
    /\ path = "up" /\ arrived = 0 /\ taken = 0
    /\ session_active = 0 /\ sessions_total = 0
    /\ heartbeats_sent = 0 /\ heartbeats_rx = 0 /\ heartbeats_missed = 0
    /\ consecutive_missed_gauge = 0
    /\ rtt = 0
    /\ disconnects = [r \in Reasons |-> 0]  \* init_disconnect_labels
    /\ silence = 0 /\ delays = 0 /\ steps = 0 /\ dropped = 0

-----------------------------------------------------------------------------
(***************************************************************************)
(* I/O errors.  Which kinds a read or a write fails with is up to the      *)
(* operating system (external, as Linux does it).  A connection the peer   *)
(* has closed still accepts writes; they are answered by a RST, which a    *)
(* later write reports as BrokenPipe and a read still as end of file.  Any *)
(* other kind can strike at any time.                                      *)
(***************************************************************************)
ReadErrors ==
    CASE path \in {"fin", "fin_rst"} /\ Inbox = 0 -> {"UnexpectedEof"}
      [] path = "rst" -> {"ConnectionReset"}
      [] OTHER -> {}

WriteErrors ==
    CASE path = "fin_rst" -> {"BrokenPipe"}
      [] path = "rst" -> {"ConnectionReset"}
      [] OTHER -> {}

classify_io_error(e) ==
    CASE e = "ConnectionReset" -> "connection_reset"
      [] e \in {"UnexpectedEof", "BrokenPipe"} -> "remote_close"
      [] OTHER -> "local_error"

-----------------------------------------------------------------------------
(***************************************************************************)
(* run_peer_loop: connect, run a session, back off, again.                 *)
(***************************************************************************)

\* The locals and the connection go out of scope; what is left of them is
\* given one value so that equal states are equal.
DropSessionState ==
    /\ seq' = 0 /\ consecutive_missed' = 0 /\ got_echo' = FALSE
    /\ next_send' = 0 /\ deadline' = 0 /\ send_age' = 0
    /\ path' = "up" /\ arrived' = 0 /\ taken' = 0
    /\ silence' = 0 /\ delays' = 0 /\ steps' = 0

Backoff ==
    /\ pc' = "backoff"
    /\ sleep' = reconnect_delay

ConnectOk ==
    /\ pc = "connecting"
    /\ attempts < MaxAttempts
    /\ attempts' = attempts + 1
    /\ pc' = "handshake"
    /\ UNCHANGED <<cancelled, sleep, localVars, socketVars, beatVars, sessionVars, clockVars>>

ConnectFails ==
    /\ pc = "connecting"
    /\ attempts < MaxAttempts
    /\ attempts' = attempts + 1
    /\ disconnects' = [disconnects EXCEPT !["connect_failed"] = @ + 1]
    /\ Backoff
    /\ UNCHANGED <<cancelled, localVars, socketVars, beatVars, session_active,
                   sessions_total, dropped, clockVars>>

BackoffOver ==
    /\ pc = "backoff"
    /\ sleep = 0
    /\ pc' = "connecting"
    /\ UNCHANGED <<cancelled, sleep, attempts, localVars, socketVars, beatVars,
                   sessionVars, clockVars>>

-----------------------------------------------------------------------------
(***************************************************************************)
(* run_session.                                                            *)
(***************************************************************************)

\* send_handshake failed: no session has started and no metric moves.
HandshakeFails ==
    /\ pc = "handshake"
    /\ Backoff
    /\ DropSessionState
    /\ UNCHANGED <<cancelled, attempts, beatVars, sessionVars>>

\* The top of the session loop, for a schedule that has next_send = at: sleep
\* only if it lies in the future, then move the schedule on by one interval.
ContinueWithoutAdvance(at) ==
    IF at > 0
    THEN pc' = "waiting" /\ next_send' = at
    ELSE pc' = "sending" /\ next_send' = at

Continue(at) ==
    IF at > 0
    THEN pc' = "waiting" /\ next_send' = at
    ELSE pc' = "sending" /\ next_send' = at + heartbeat_interval

StartKeepsMisses ==
    /\ session_active' = 1
    /\ sessions_total' = sessions_total + 1
    /\ UNCHANGED consecutive_missed_gauge

record_session_start ==
    /\ session_active' = 1
    /\ sessions_total' = sessions_total + 1
    /\ consecutive_missed_gauge' = 0

\* send_handshake succeeded: the session starts, with its first round at once.
HandshakeSent ==
    /\ pc = "handshake"
    /\ record_session_start
    /\ Continue(0)
    /\ UNCHANGED <<cancelled, sleep, attempts, seq, consecutive_missed, got_echo, deadline,
                   send_age, socketVars, heartbeats_sent, heartbeats_rx, heartbeats_missed,
                   rtt, disconnects, dropped, clockVars>>

ActiveLeftSet == UNCHANGED session_active

ClearActive == session_active' = 0

\* The tail of run_session for every reason but "cancelled".
EndSession(reason) ==
    /\ ClearActive
    /\ disconnects' = [disconnects EXCEPT ![reason] = @ + 1]
    /\ Backoff
    /\ DropSessionState
    /\ UNCHANGED <<cancelled, attempts, sessions_total, dropped>>

\* sleep_until(next_send) is over.
WaitOver ==
    /\ pc = "waiting"
    /\ next_send <= 0
    /\ Continue(next_send)
    /\ UNCHANGED <<cancelled, sleep, attempts, seq, consecutive_missed, got_echo, deadline,
                   send_age, socketVars, beatVars, sessionVars, clockVars>>

\* send_ts is read before the write, which may have been blocked since, and
\* the wall clock set meanwhile.
SendHeartbeat ==
    /\ pc = "sending"
    /\ WriteErrors = {}
    /\ heartbeats_sent' = heartbeats_sent + 1
    /\ seq' = seq + 1
    /\ send_age' \in (0 - steps) .. (delays + steps)
    /\ deadline' = heartbeat_interval
    /\ got_echo' = FALSE
    /\ pc' = "awaiting"
    /\ UNCHANGED <<cancelled, sleep, attempts, consecutive_missed, next_send, socketVars,
                   heartbeats_rx, heartbeats_missed, consecutive_missed_gauge, rtt,
                   sessionVars, clockVars>>

SendFails ==
    /\ pc = "sending"
    /\ \E e \in WriteErrors : EndSession(classify_io_error(e))
    /\ UNCHANGED beatVars

\* An echo matches if it carries the sequence number just sent.
Matches(echo) == echo = seq - 1

RecordRttAlways(matched) ==
    /\ heartbeats_rx' = heartbeats_rx + 1
    /\ consecutive_missed_gauge' = 0
    /\ rtt' = send_age

record_echo(matched) ==
    /\ heartbeats_rx' = heartbeats_rx + 1
    /\ consecutive_missed_gauge' = 0
    /\ rtt' = IF matched THEN send_age ELSE rtt

AnyEchoEndsRound(matched) == TRUE

EndsRound(matched) == matched

\* recv returned the next echo; a late one does not end the round.
RecvEcho ==
    /\ pc = "awaiting"
    /\ Inbox > 0
    /\ taken' = taken + 1
    /\ got_echo' = TRUE
    /\ consecutive_missed' = 0
    /\ silence' = 0
    /\ record_echo(Matches(taken))
    /\ IF EndsRound(Matches(taken)) THEN Continue(next_send) ELSE UNCHANGED <<pc, next_send>>
    /\ UNCHANGED <<cancelled, sleep, attempts, seq, deadline, send_age, path, arrived,
                   heartbeats_sent, heartbeats_missed, sessionVars, delays, steps>>

RecvFails ==
    /\ pc = "awaiting"
    /\ \E e \in ReadErrors : EndSession(classify_io_error(e))
    /\ UNCHANGED beatVars

\* send_heartbeat or recv failed for a reason of this host.
LocalError ==
    /\ pc \in {"sending", "awaiting"}
    /\ EndSession(classify_io_error("Other"))
    /\ UNCHANGED beatVars

\* timeout_at polls the read before the clock, so it gives up only when the
\* read has nothing to return.
DeadlinePassed ==
    /\ pc = "awaiting"
    /\ deadline = 0
    /\ Inbox = 0
    /\ ReadErrors = {}

\* The deadline passed after a late echo: the round counts as answered.
RoundEndsLate ==
    /\ DeadlinePassed
    /\ got_echo
    /\ Continue(next_send)
    /\ UNCHANGED <<cancelled, sleep, attempts, seq, consecutive_missed, got_echo, deadline,
                   send_age, socketVars, beatVars, sessionVars, clockVars>>

\* The comparison with max_misses, after the miss has been counted.
OneMissTooFew == consecutive_missed + 2 < max_misses

MissesLeft == consecutive_missed + 1 < max_misses

\* The schedule after a miss: now + heartbeat_interval.
ResetTwice == 2 * heartbeat_interval

ResetSchedule == heartbeat_interval

CountMiss ==
    /\ heartbeats_missed' = heartbeats_missed + 1
    /\ consecutive_missed_gauge' = consecutive_missed + 1
    /\ UNCHANGED <<heartbeats_sent, heartbeats_rx, rtt>>

\* The deadline passed with no echo at all, and the session goes on.
RoundMissed ==
    /\ DeadlinePassed
    /\ ~got_echo
    /\ MissesLeft
    /\ CountMiss
    /\ consecutive_missed' = consecutive_missed + 1
    /\ Continue(ResetSchedule)
    /\ UNCHANGED <<cancelled, sleep, attempts, seq, got_echo, deadline, send_age, socketVars,
                   sessionVars, clockVars>>

TimeOut ==
    /\ DeadlinePassed
    /\ ~got_echo
    /\ ~MissesLeft
    /\ CountMiss
    /\ EndSession("timeout")

-----------------------------------------------------------------------------
(***************************************************************************)
(* Cancellation.  Every await but the handshake write offers the branch    *)
(* cancel.cancelled().                                                     *)
(***************************************************************************)
Cancelled ==
    /\ cancelled
    /\ pc \in {"connecting", "backoff"} \/ InSession
    /\ pc' = "done"
    /\ sleep' = 0
    /\ IF InSession
       THEN ClearActive /\ dropped' = dropped + 1
       ELSE UNCHANGED <<session_active, dropped>>
    /\ DropSessionState
    /\ UNCHANGED <<cancelled, attempts, beatVars, sessions_total, disconnects>>

\* PeerTask::stop, by the manager.
RequestCancel ==
    /\ ~cancelled
    /\ cancelled' = TRUE
    /\ UNCHANGED <<taskVars, attempts, localVars, socketVars, beatVars, sessionVars, clockVars>>

-----------------------------------------------------------------------------
(***************************************************************************)
(* The network (external) and time.                                        *)
(***************************************************************************)
EchoArrives ==
    /\ InSession
    /\ path = "up"
    /\ arrived < seq
    /\ arrived < MaxEchoes
    /\ arrived' = arrived + 1
    /\ UNCHANGED <<taskVars, cancelled, attempts, localVars, path, taken, beatVars,
                   sessionVars, clockVars>>

PathChanges ==
    /\ Connected
    /\ \/ path = "up" /\ path' \in {"fin", "rst", "dead"}
       \/ path = "fin" /\ path' = "fin_rst"
    /\ UNCHANGED <<taskVars, cancelled, attempts, localVars, arrived, taken, beatVars,
                   sessionVars, clockVars>>

\* The session could run now instead of waiting.
Ready ==
    \/ cancelled
    \/ pc = "sending"
    \/ pc = "waiting" /\ next_send <= 0
    \/ pc = "awaiting" /\ (deadline = 0 \/ Inbox > 0 \/ ReadErrors # {})

\* A heartbeat has gone out that nothing has answered so far.
Unanswered == consecutive_missed > 0 \/ (pc = "awaiting" /\ ~got_echo)

TickInSession ==
    /\ InSession
    /\ Ready => delays < MaxDelay
    /\ delays' = IF Ready THEN delays + 1 ELSE delays
    /\ next_send' = next_send - 1
    /\ deadline' = IF deadline > 0 THEN deadline - 1 ELSE 0
    /\ send_age' = IF pc = "awaiting" THEN send_age + 1 ELSE send_age
    /\ silence' = IF Unanswered THEN silence + 1 ELSE silence
    /\ UNCHANGED <<taskVars, cancelled, attempts, seq, consecutive_missed, got_echo,
                   socketVars, beatVars, sessionVars, steps>>

TickInBackoff ==
    /\ pc = "backoff"
    /\ sleep > 0
    /\ sleep' = sleep - 1
    /\ UNCHANGED <<pc, cancelled, attempts, localVars, socketVars, beatVars, sessionVars,
                   clockVars>>

Tick == TickInSession \/ TickInBackoff

\* The wall clock is set forward or back by a tick.  now_f64 reads that clock;
\* the timers do not.  While the write is blocked, SendHeartbeat makes up for
\* what that does to send_age.
ClockStepped ==
    /\ pc \in {"sending", "awaiting"}
    /\ steps < MaxSteps
    /\ steps' = steps + 1
    /\ IF pc = "awaiting" THEN send_age' \in {send_age - 1, send_age + 1} ELSE UNCHANGED send_age
    /\ UNCHANGED <<taskVars, cancelled, attempts, seq, consecutive_missed, got_echo, next_send,
                   deadline, socketVars, beatVars, sessionVars, silence, delays>>

\* The future has completed.
Finished ==
    /\ pc = "done"
    /\ UNCHANGED vars

-----------------------------------------------------------------------------
\* What the task does once the await it is at has a result.
SessionStep ==
    \/ HandshakeSent
    \/ WaitOver
    \/ SendHeartbeat \/ SendFails
    \/ RecvEcho \/ RecvFails
    \/ RoundEndsLate \/ RoundMissed \/ TimeOut

Next ==
    \/ ConnectOk \/ ConnectFails \/ BackoffOver
    \/ SessionStep
    \/ HandshakeFails \/ LocalError
    \/ Cancelled \/ RequestCancel
    \/ EchoArrives \/ PathChanges
    \/ Tick \/ ClockStepped
    \/ Finished

(***************************************************************************)
(* Fairness: the runtime polls a task that is ready and clocks advance.    *)
(* select! picks among ready branches at random, so a cancel branch that   *)
(* is ready again and again is taken.  Nothing is assumed of the network,  *)
(* and no error is assumed to happen.                                      *)
(***************************************************************************)
Fairness ==
    /\ WF_vars(SessionStep)
    /\ WF_vars(BackoffOver)
    /\ WF_vars(Tick)
    /\ SF_vars(Cancelled)

Spec == Init /\ [][Next]_vars /\ Fairness

-----------------------------------------------------------------------------
(***************************************************************************)
(* Invariants.                                                             *)
(***************************************************************************)

\* Misses that end a session: the code counts one before it compares, so a
\* max_misses of 0 acts like 1.
MissLimit == IF max_misses = 0 THEN 1 ELSE max_misses

\* Types.  Echoes are never ahead of heartbeats, and a live session has
\* counted fewer misses than the limit.
TypeOK ==
    /\ pc \in {"connecting", "handshake", "waiting", "sending", "awaiting", "backoff", "done"}
    /\ cancelled \in BOOLEAN
    /\ sleep \in 0 .. reconnect_delay
    /\ attempts \in 0 .. MaxAttempts
    /\ seq \in Nat
    /\ consecutive_missed \in 0 .. (MissLimit - 1)
    /\ got_echo \in BOOLEAN
    /\ next_send \in Int
    /\ deadline \in 0 .. heartbeat_interval
    /\ send_age \in Int
    /\ path \in {"up", "dead", "fin", "rst", "fin_rst"}
    /\ taken \in 0 .. arrived
    /\ arrived \in 0 .. seq
    /\ session_active \in {0, 1}
    /\ sessions_total \in Nat
    /\ heartbeats_sent \in Nat
    /\ heartbeats_rx \in Nat
    /\ heartbeats_missed \in Nat
    /\ consecutive_missed_gauge \in Nat
    /\ rtt \in Int
    /\ disconnects \in [Reasons -> Nat]
    /\ silence \in Nat
    /\ delays \in 0 .. MaxDelay
    /\ steps \in 0 .. MaxSteps
    /\ dropped \in Nat

\* The sessions started are the live one, those that left a disconnect reason
\* and those cancelled: run_session counts every session exactly once, and
\* its gauge is 1 exactly while the session is live.
SessionAccounting ==
    /\ session_active = IF InSession THEN 1 ELSE 0
    /\ sessions_total = session_active + dropped
                          + disconnects["remote_close"] + disconnects["connection_reset"]
                          + disconnects["timeout"] + disconnects["local_error"]

\* The echoes counted never outnumber the heartbeats counted, and within a
\* live session the gap is at least what is still unanswered; the gauge of
\* consecutive misses shows the session's own count.
HeartbeatAccounting ==
    /\ heartbeats_sent - heartbeats_rx >= seq - taken
    /\ InSession => consecutive_missed_gauge = consecutive_missed

\* How long a session outlives the first heartbeat nobody answers: each miss
\* costs an echo timeout and, but for the last, another interval until the
\* next heartbeat, plus what the task was held up.
SilenceBounded == silence <= (2 * MissLimit - 1) * heartbeat_interval + delays

\* The send schedule falls behind only by what the task was held up: however
\* answered, late and missed rounds follow each other, next_send never slips
\* so far that heartbeats go out in a burst.
ScheduleKept == InSession => next_send + delays >= 0

-----------------------------------------------------------------------------
(***************************************************************************)
(* Action properties.                                                      *)
(***************************************************************************)

\* A round never ends while an echo that has arrived is unread, so a late
\* echo cannot leave every later read one round behind (client.rs, the
\* comment on the echo loop).
RoundDrainsEchoes ==
    [][pc = "awaiting" /\ pc' \in {"waiting", "sending"} => taken' = arrived']_vars

\* An RTT is recorded only for the echo of the heartbeat sent last, and it is
\* off the time a round takes by no more than the task was held up and the
\* wall clock was set.
RttIsOfLastHeartbeat ==
    [][rtt' # rtt => /\ taken' = seq
                     /\ rtt' <= heartbeat_interval + delays + steps
                     /\ rtt' + steps >= 0]_vars

\* A session is given up for "timeout" only after MissLimit echo timeouts and
\* the intervals between them have passed without any sign of the peer: no
\* unread echo, no FIN, no RST.
TimeoutMeansSilence ==
    [][disconnects'["timeout"] > disconnects["timeout"] =>
          /\ silence >= (2 * MissLimit - 1) * heartbeat_interval
          /\ Inbox = 0
          /\ path \in {"up", "dead"}]_vars

-----------------------------------------------------------------------------
(***************************************************************************)
(* Refinement.                                                             *)
(***************************************************************************)

Task == INSTANCE PeerTask WITH
    phase <- IF pc = "done" THEN "done" ELSE IF InSession THEN "session" ELSE "idle"

\* The task is a PeerTask: one session at a time, an exact gauge, and once
\* cancelled it ends from whatever await it is at.
ImplementsPeerTask == Task!Spec

-----------------------------------------------------------------------------
(***************************************************************************)
(* What the documentation says and the code does not do.                   *)
(***************************************************************************)

\* README.md, Notes: dead connections are detected faster than max_misses
\* heartbeat intervals, thanks to TCP keepalives.
DetectedWithinMisses == path = "dead" => silence <= max_misses * heartbeat_interval

=============================================================================
