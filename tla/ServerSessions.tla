--------------------------- MODULE ServerSessions ---------------------------
(***************************************************************************)
(* server.rs, heartbeat_accept_loop, handle_connection and drive_session,  *)
(* with ServerPeers of metrics.rs: the inbound side of the program.        *)
(*                                                                         *)
(* Every accepted connection is a task of its own on a multi-threaded      *)
(* runtime and all of them share the metrics, so a task's updates of       *)
(* shared metrics are separate steps even where no await parts them.       *)
(*                                                                         *)
(* Timeouts are not clocked here: one may fire whenever its read has       *)
(* nothing to return.  Fairness makes it fire if that stays so.            *)
(***************************************************************************)
EXTENDS Integers, FiniteSets

CONSTANTS
    Conns,                   \* connections clients may open
    Names,                   \* sanitized peer names they may announce
    MAX_CONNECTIONS,
    MAX_UNIQUE_SERVER_PEERS,
    MaxHeartbeats            \* bound: heartbeats read on one connection

ASSUME ConnsAssumption == IsFiniteSet(Conns)
ASSUME LimitsAssumption == MAX_CONNECTIONS \in Nat /\ MAX_UNIQUE_SERVER_PEERS \in Nat
ASSUME HeartbeatsAssumption == MaxHeartbeats \in Nat

VARIABLES
    cancelled,      \* the server's CancellationToken has fired
    accepting,      \* the accept loop: "accept", "sleep" (after an error), "stopped"
    permits         \* free permits of the session semaphore

VARIABLES           \* per connection
    pc,             \* where its task is
    name,           \* the name it announced, once registered
    reason,         \* the reason drive_session returned
    remote,         \* what the other end has done
    read            \* heartbeats read

VARIABLES           \* ServerPeers and the server metrics, per name
    seen,
    session_active,
    sessions_total,
    heartbeats_rx,
    disconnects

VARIABLE overlap    \* history: names with two sessions at once since their gauge was last right

loopVars == <<cancelled, accepting>>
connVars == <<pc, name, reason, remote, read>>
metricVars == <<session_active, sessions_total, heartbeats_rx, disconnects>>
vars == <<loopVars, permits, connVars, seen, metricVars, overlap>>

Reasons == {"remote_close", "connection_reset", "timeout", "local_error"}
NoName == "no name"
NoReason == "no reason"

\* The task of a session between its two updates of the gauge.
Live(c) == pc[c] \in {"activated", "reading", "echoing", "ending"}
LiveFor(n) == {c \in Conns : Live(c) /\ name[c] = n}

HoldsPermit(c) == pc[c] \notin {"unused", "backlog", "closed"}

Init ==
    /\ cancelled = FALSE
    /\ accepting = "accept"
    /\ permits = MAX_CONNECTIONS
    /\ pc = [c \in Conns |-> "unused"]
    /\ name = [c \in Conns |-> NoName]
    /\ reason = [c \in Conns |-> NoReason]
    /\ remote = [c \in Conns |-> "up"]
    /\ read = [c \in Conns |-> 0]
    /\ seen = {}
    /\ session_active = [n \in Names |-> 0]
    /\ sessions_total = [n \in Names |-> 0]
    /\ heartbeats_rx = [n \in Names |-> 0]
    /\ disconnects = [n \in Names |-> [r \in Reasons |-> 0]]
    /\ overlap = {}

Goto(c, where) == pc' = [pc EXCEPT ![c] = where]

-----------------------------------------------------------------------------
(***************************************************************************)
(* Clients and the network (external).  A client may also stop reading     *)
(* ("stalled": the echoes fill its receive window) or vanish ("silent").   *)
(***************************************************************************)
ClientConnects(c) ==
    /\ pc[c] = "unused"
    /\ Goto(c, "backlog")
    /\ UNCHANGED <<loopVars, permits, name, reason, remote, read, seen, metricVars, overlap>>

RemoteChanges(c) ==
    /\ HoldsPermit(c)
    /\ \/ /\ remote[c] = "up"
          /\ \E r \in {"fin", "rst", "silent", "stalled"} : remote' = [remote EXCEPT ![c] = r]
       \/ remote[c] = "fin" /\ remote' = [remote EXCEPT ![c] = "fin_rst"]
    /\ UNCHANGED <<loopVars, permits, pc, name, reason, read, seen, metricVars, overlap>>

ReadErrors(c) ==
    CASE remote[c] \in {"fin", "fin_rst"} -> {"UnexpectedEof"}
      [] remote[c] = "rst" -> {"ConnectionReset"}
      [] OTHER -> {}

WriteErrors(c) ==
    CASE remote[c] = "fin_rst" -> {"BrokenPipe"}
      [] remote[c] = "rst" -> {"ConnectionReset"}
      [] OTHER -> {}

-----------------------------------------------------------------------------
(***************************************************************************)
(* heartbeat_accept_loop.                                                  *)
(***************************************************************************)
\* try_acquire_owned: without a free permit the stream is dropped.
AlwaysFree == TRUE

PermitFree == permits > 0

Accept(c) ==
    /\ accepting = "accept"
    /\ pc[c] = "backlog"
    /\ IF PermitFree
       THEN Goto(c, "handshake") /\ permits' = permits - 1
       ELSE Goto(c, "closed") /\ UNCHANGED permits
    /\ UNCHANGED <<loopVars, name, reason, remote, read, seen, metricVars, overlap>>

AcceptError ==
    /\ accepting = "accept"
    /\ accepting' = "sleep"
    /\ UNCHANGED <<cancelled, permits, connVars, seen, metricVars, overlap>>

\* The sleep after an error does not look at the token.
AcceptRetry ==
    /\ accepting = "sleep"
    /\ accepting' = "accept"
    /\ UNCHANGED <<cancelled, permits, connVars, seen, metricVars, overlap>>

StopAccepting ==
    /\ cancelled
    /\ accepting = "accept"
    /\ accepting' = "stopped"
    /\ UNCHANGED <<cancelled, permits, connVars, seen, metricVars, overlap>>

\* main cancels the server.
Cancel ==
    /\ ~cancelled
    /\ cancelled' = TRUE
    /\ UNCHANGED <<accepting, permits, connVars, seen, metricVars, overlap>>

-----------------------------------------------------------------------------
(***************************************************************************)
(* handle_connection.                                                      *)
(***************************************************************************)

\* The task returns: stream and permit are dropped.
PermitLeaks == UNCHANGED permits

ReleasePermit == permits' = permits + 1

Close(c) ==
    /\ Goto(c, "closed")
    /\ ReleasePermit

\* recv_handshake failed: timeout, end of stream, or a bad length.
HandshakeFails(c) ==
    /\ pc[c] = "handshake"
    /\ Close(c)
    /\ UNCHANGED <<loopVars, name, reason, remote, read, seen, metricVars, overlap>>

RegisterOneTooMany(n) == n \in seen \/ Cardinality(seen) <= MAX_UNIQUE_SERVER_PEERS
RegisterNewOnly(n) == Cardinality(seen) < MAX_UNIQUE_SERVER_PEERS

\* try_register, under its mutex: a known name passes, a new one needs room.
try_register(n) == n \in seen \/ Cardinality(seen) < MAX_UNIQUE_SERVER_PEERS

\* recv_handshake returned the name n.
Handshake(c, n) ==
    /\ pc[c] = "handshake"
    /\ IF try_register(n)
       THEN /\ seen' = seen \cup {n}
            /\ name' = [name EXCEPT ![c] = n]
            /\ Goto(c, "registered")
            /\ UNCHANGED permits
       ELSE /\ Close(c)
            /\ UNCHANGED <<seen, name>>
    /\ UNCHANGED <<loopVars, reason, remote, read, metricVars, overlap>>

\* server_session_active.get_or_create(&label).set(v)
SetOnlyToOne(n, v) == session_active' = [session_active EXCEPT ![n] = IF v = 1 THEN 1 ELSE @]
SetActive(n, v) == session_active' = [session_active EXCEPT ![n] = v]

Activate(c) ==
    /\ pc[c] = "registered"
    /\ SetActive(name[c], 1)
    /\ Goto(c, "activated")
    /\ overlap' = IF LiveFor(name[c]) = {} THEN overlap \ {name[c]} ELSE overlap \cup {name[c]}
    /\ UNCHANGED <<loopVars, permits, name, reason, remote, read, seen, sessions_total,
                   heartbeats_rx, disconnects>>

CountSession(c) ==
    /\ pc[c] = "activated"
    /\ sessions_total' = [sessions_total EXCEPT ![name[c]] = @ + 1]
    /\ Goto(c, "reading")
    /\ UNCHANGED <<loopVars, permits, name, reason, remote, read, seen, session_active,
                   heartbeats_rx, disconnects, overlap>>

Deactivate(c) ==
    /\ pc[c] = "ending"
    /\ SetActive(name[c], 0)
    /\ Goto(c, "deactivated")
    /\ UNCHANGED <<loopVars, permits, name, reason, remote, read, seen, sessions_total,
                   heartbeats_rx, disconnects, overlap>>

TimeoutNotCounted(n, r) == [disconnects EXCEPT ![n][r] = IF r = "timeout" THEN @ ELSE @ + 1]

Counted(n, r) == [disconnects EXCEPT ![n][r] = @ + 1]

CountDisconnect(c) ==
    /\ pc[c] = "deactivated"
    /\ disconnects' = Counted(name[c], reason[c])
    /\ Close(c)
    /\ UNCHANGED <<loopVars, name, reason, remote, read, seen, session_active, sessions_total,
                   heartbeats_rx, overlap>>

-----------------------------------------------------------------------------
(***************************************************************************)
(* drive_session.                                                          *)
(***************************************************************************)
Return(c, r) ==
    /\ Goto(c, "ending")
    /\ reason' = [reason EXCEPT ![c] = r]
    /\ UNCHANGED <<loopVars, permits, name, remote, read, seen, metricVars, overlap>>

\* recv_heartbeat returned a heartbeat; one may be queued whatever the client
\* has done since.
RecvHeartbeat(c) ==
    /\ pc[c] = "reading"
    /\ read[c] < MaxHeartbeats
    /\ read' = [read EXCEPT ![c] = @ + 1]
    /\ heartbeats_rx' = [heartbeats_rx EXCEPT ![name[c]] = @ + 1]
    /\ Goto(c, "echoing")
    /\ UNCHANGED <<loopVars, permits, name, reason, remote, seen, session_active,
                   sessions_total, disconnects, overlap>>

RecvTimesOut(c) ==
    /\ pc[c] = "reading"
    /\ ReadErrors(c) = {}
    /\ Return(c, "timeout")

RecvReason(e) ==
    CASE e = "ConnectionReset" -> "connection_reset"
      [] e \in {"UnexpectedEof", "BrokenPipe"} -> "remote_close"
      [] OTHER -> "local_error"

RecvFails(c) ==
    /\ pc[c] = "reading"
    /\ \E e \in ReadErrors(c) : Return(c, RecvReason(e))

EchoSent(c) ==
    /\ pc[c] = "echoing"
    /\ WriteErrors(c) = {}
    /\ remote[c] # "stalled"
    /\ Goto(c, "reading")
    /\ UNCHANGED <<loopVars, permits, name, reason, remote, read, seen, metricVars, overlap>>

\* write_all to a stalled client goes through while its buffers have room.
EchoBuffered(c) ==
    /\ pc[c] = "echoing"
    /\ remote[c] = "stalled"
    /\ Goto(c, "reading")
    /\ UNCHANGED <<loopVars, permits, name, reason, remote, read, seen, metricVars, overlap>>

EchoReason(e) ==
    IF e \in {"BrokenPipe", "ConnectionReset"} THEN "connection_reset" ELSE "local_error"

EchoFails(c) ==
    /\ pc[c] = "echoing"
    /\ \E e \in WriteErrors(c) : Return(c, EchoReason(e))

\* A read or a write failed for a reason of this host.
LocalError(c) ==
    \/ pc[c] = "reading" /\ Return(c, RecvReason("Other"))
    \/ pc[c] = "echoing" /\ Return(c, EchoReason("Other"))

\* Nothing is left to do once the loop has stopped and every task has ended.
Finished ==
    /\ accepting = "stopped"
    /\ \A c \in Conns : ~HoldsPermit(c)
    /\ UNCHANGED vars

-----------------------------------------------------------------------------
\* The steps a connection's task takes of itself once it can.
TaskStep(c) ==
    \/ Activate(c) \/ CountSession(c) \/ Deactivate(c) \/ CountDisconnect(c)
    \/ RecvTimesOut(c) \/ RecvFails(c)
    \/ EchoSent(c) \/ EchoFails(c)

Next ==
    \/ \E c \in Conns :
          \/ ClientConnects(c) \/ RemoteChanges(c)
          \/ Accept(c)
          \/ HandshakeFails(c)
          \/ \E n \in Names : Handshake(c, n)
          \/ RecvHeartbeat(c) \/ EchoBuffered(c) \/ LocalError(c)
          \/ TaskStep(c)
    \/ AcceptError \/ AcceptRetry \/ StopAccepting \/ Cancel
    \/ Finished

(***************************************************************************)
(* Fairness: tasks that are ready run; the handshake is over within        *)
(* HANDSHAKE_TIMEOUT_SECS; a read that stays without data times out; the   *)
(* accept loop's branches are chosen at random when both are ready.        *)
(* Nothing is assumed of the clients.                                      *)
(***************************************************************************)
Fairness ==
    /\ \A c \in Conns : /\ WF_vars(TaskStep(c))
                        /\ WF_vars(HandshakeFails(c))
    /\ WF_vars(AcceptRetry)
    /\ SF_vars(StopAccepting)

Spec == Init /\ [][Next]_vars /\ Fairness

-----------------------------------------------------------------------------
(***************************************************************************)
(* Invariants.                                                             *)
(***************************************************************************)

\* Types.  A connection has a name from its registration on, and a reason
\* once drive_session has returned.
TypeOK ==
    /\ cancelled \in BOOLEAN
    /\ accepting \in {"accept", "sleep", "stopped"}
    /\ permits \in 0 .. MAX_CONNECTIONS
    /\ pc \in [Conns -> {"unused", "backlog", "handshake", "registered", "activated", "reading",
                          "echoing", "ending", "deactivated", "closed"}]
    /\ name \in [Conns -> Names \cup {NoName}]
    /\ reason \in [Conns -> Reasons \cup {NoReason}]
    /\ remote \in [Conns -> {"up", "silent", "stalled", "fin", "rst", "fin_rst"}]
    /\ read \in [Conns -> Nat]
    /\ seen \subseteq Names
    /\ session_active \in [Names -> {0, 1}]
    /\ sessions_total \in [Names -> Nat]
    /\ heartbeats_rx \in [Names -> Nat]
    /\ disconnects \in [Names -> [Reasons -> Nat]]
    /\ overlap \subseteq Names

\* Every permit is free or held by a connection whose task has not ended,
\* whichever of its early returns it takes: slots never leak and no more than
\* MAX_CONNECTIONS connections are served at once.
SlotsConserved == permits + Cardinality({c \in Conns : HoldsPermit(c)}) = MAX_CONNECTIONS

\* Label entries cannot be removed from the metrics, so only names that were
\* admitted by try_register get any, and there are at most
\* MAX_UNIQUE_SERVER_PEERS of those.
LabelsBounded ==
    /\ Cardinality(seen) <= MAX_UNIQUE_SERVER_PEERS
    /\ \A n \in Names \ seen :
          session_active[n] = 0 /\ sessions_total[n] = 0 /\ heartbeats_rx[n] = 0

\* For every name the sessions counted are those that left a disconnect
\* reason and those still on their way to leave one.
SessionAccounting ==
    \A n \in Names :
        sessions_total[n] =
            disconnects[n]["remote_close"] + disconnects[n]["connection_reset"]
            + disconnects[n]["timeout"] + disconnects[n]["local_error"]
            + Cardinality({c \in Conns : /\ name[c] = n
                                         /\ pc[c] \in {"reading", "echoing", "ending", "deactivated"}})

\* The gauge of a name is exact, unless two of its sessions have overlapped (a
\* client that reconnects before the server has noticed its old connection is
\* gone).  Even then it never stays at 1 without a session, in whatever order
\* the tasks of one name write.
GaugeExactUnlessOverlap ==
    \A n \in Names :
        /\ session_active[n] = 1 => LiveFor(n) # {}
        /\ n \notin overlap => (LiveFor(n) # {} => session_active[n] = 1)

-----------------------------------------------------------------------------
(***************************************************************************)
(* Action properties.                                                      *)
(***************************************************************************)

\* A peer that has once had a session can always have another: a complete
\* handshake that names it is never turned away, however many other names
\* have raced for the places left in the set since.
KnownPeerNeverRejected ==
    [][\A c \in Conns, n \in Names :
          sessions_total[n] > 0 /\ Handshake(c, n) => pc'[c] = "registered"]_vars

Pool == INSTANCE SlotPool WITH Slots <- MAX_CONNECTIONS, held <- {c \in Conns : HoldsPermit(c)}

\* The accept loop keeps the bound of a SlotPool: a task takes its slot once,
\* while one is free, and no step of it moves the slot of another.  That every
\* slot comes back, the other half of SlotPool, does not hold here: see
\* NoHeartbeatTimesOut.
ImplementsBoundedPool == Pool!Bounded

-----------------------------------------------------------------------------
(***************************************************************************)
(* What the documentation says and the code does not do.                   *)
(***************************************************************************)

\* README.md and metrics.rs on tcp_monitor_server_session_active: 1 while a
\* session is live with this peer.
GaugeShowsLiveSession ==
    \A n \in Names : (\E c \in LiveFor(n) : pc[c] # "activated") => session_active[n] = 1

\* config.rs on heartbeat_recv_timeout: a session without a heartbeat for
\* that long is timed out.  A session should therefore not stay for ever
\* between two heartbeats.
NoHeartbeatTimesOut == \A c \in Conns : (pc[c] = "echoing") ~> (pc[c] # "echoing")

=============================================================================
