-------------------------------- MODULE Link --------------------------------
(***************************************************************************)
(* One connection with both of its ends: the client of ClientSession and   *)
(* the server's drive_session, here with its receive timeout on the same   *)
(* clock, over a network that delivers in order, loses everything once     *)
(* wire is "dead", and carries the FIN or RST of the end that closes.  A   *)
(* device on the way may send a RST of its own to either end.              *)
(*                                                                         *)
(* heartbeats_sent and heartbeats_rx, counters of a client that connects   *)
(* once, are the heartbeats written to this connection and the echoes read *)
(* from it.                                                                *)
(***************************************************************************)
EXTENDS ClientSession

CONSTANTS
    heartbeat_recv_timeout, \* ServerConfig, in ticks
    MaxLag,                 \* bound: ticks in a row in which the network or the server is behind
    MaxBeats                \* bound: heartbeats of a session that is alive

ASSUME RecvTimeoutAssumption == heartbeat_recv_timeout \in Nat \ {0}
ASSUME LinkBoundsAssumption ==
    MaxLag \in Nat /\ MaxBeats \in Nat /\ MaxBeats <= MaxEchoes

VARIABLES      \* drive_session
    srv,        \* "none" (no handshake yet), "recv", "echo", "closed"
    srv_idle,   \* ticks since this call of recv_heartbeat
    read, echoed,
    srv_reason

VARIABLES      \* the network
    wire,       \* "up" or "dead"
    delivered,  \* heartbeats that have reached the server's host
    cli_sent,   \* what the client's host sent at the end: "none" yet, "fin", "rst", "fin_rst",
                \* or "gone", nothing for a connection that was reset
    srv_sent,   \* what the server's host sent at the end
    srv_path,   \* how the connection ended for the server, like path at the client
    lag,        \* ticks the network or the server has been behind
    reset_on_path \* history: a device on the way has reset the connection

srvVars == <<srv, srv_idle, read, echoed, srv_reason>>
netVars == <<wire, delivered, cli_sent, srv_sent, srv_path, lag, reset_on_path>>
linkVars == <<vars, srvVars, netVars>>

LinkInit ==
    /\ Init
    /\ srv = "none" /\ srv_idle = 0 /\ read = 0 /\ echoed = 0 /\ srv_reason = "none"
    /\ wire = "up" /\ delivered = 0
    /\ cli_sent = "none" /\ srv_sent = "none" /\ srv_path = "up" /\ lag = 0
    /\ reset_on_path = FALSE

HandshakeWritten == sessions_total > 0
ServerLive == srv \in {"recv", "echo"}
ClientOver == HandshakeWritten /\ ~InSession

\* Closing a socket with data unread sends a RST instead of a FIN, and closing
\* one that has been reset sends nothing (external).
Closing(seen, unread) ==
    CASE seen \in {"rst", "fin_rst"} -> "gone"
      [] seen \notin {"rst", "fin_rst"} /\ unread > 0 -> "rst"
      [] OTHER -> "fin"

-----------------------------------------------------------------------------
(***************************************************************************)
(* The client: the steps of its task are those of ClientSession, up to the *)
(* next connection.                                                        *)
(***************************************************************************)
ClientStep ==
    /\ \/ attempts = 0 /\ ConnectOk /\ wire = "up"
       \/ attempts = 0 /\ ConnectFails
       \/ BackoffOver \/ HandshakeFails \/ LocalError \/ Cancelled \/ RequestCancel
       \/ /\ SessionStep
          /\ pc = "sending" /\ WriteErrors = {} /\ wire = "up" /\ srv # "closed" =>
                heartbeats_sent < MaxBeats
    /\ cli_sent' = IF InSession /\ ~InSession' THEN Closing(path, Inbox) ELSE cli_sent
    /\ UNCHANGED <<srvVars, wire, delivered, srv_sent, srv_path, lag, reset_on_path>>

-----------------------------------------------------------------------------
(***************************************************************************)
(* The server: drive_session.                                              *)
(***************************************************************************)
ServerStarts ==
    /\ srv = "none"
    /\ HandshakeWritten
    /\ wire = "up"
    /\ srv' = "recv"
    /\ UNCHANGED <<vars, srv_idle, read, echoed, srv_reason, netVars>>

\* The connection is dropped before a session starts: there is no permit for
\* it, its handshake is late or broken, or its name is one too many.
ServerDeclines ==
    /\ srv = "none"
    /\ HandshakeWritten
    /\ srv' = "closed"
    /\ srv_sent' \in {"fin", "rst"}
    /\ UNCHANGED <<vars, srv_idle, read, echoed, srv_reason, wire, delivered, cli_sent, srv_path,
                   lag, reset_on_path>>

Return(reason) ==
    /\ srv' = "closed"
    /\ srv_reason' = reason
    /\ srv_idle' = 0
    /\ srv_sent' = Closing(srv_path, delivered - read)
    /\ UNCHANGED <<vars, read, echoed, wire, delivered, cli_sent, srv_path, lag, reset_on_path>>

\* Also of a connection that has been reset, which may be reported instead.
RecvHeartbeat ==
    /\ srv = "recv"
    /\ read < delivered
    /\ read' = read + 1
    /\ srv' = "echo"
    /\ UNCHANGED <<vars, srv_idle, echoed, srv_reason, netVars>>

EchoTwice == echoed + 2

EchoOnce == echoed + 1

\* The echo is written, and the next recv_heartbeat starts with a new timeout.
SendEcho ==
    /\ srv = "echo"
    /\ srv_path \notin {"rst", "fin_rst"}
    /\ echoed' = EchoOnce
    /\ srv_idle' = 0
    /\ srv' = "recv"
    /\ UNCHANGED <<vars, read, srv_reason, netVars>>

NoRecvTimeout == FALSE

RecvTimesOut == srv_idle = heartbeat_recv_timeout /\ read = delivered /\ srv_path = "up"

TimeoutAsClose == "remote_close"

TimeoutReason == "timeout"

SessionEnds ==
    \/ srv = "recv" /\ RecvTimesOut /\ Return(TimeoutReason)
    \/ srv = "recv" /\ srv_path = "rst" /\ Return("connection_reset")
    \/ srv = "recv" /\ srv_path \in {"fin", "fin_rst"} /\ read = delivered /\ Return("remote_close")
    \/ srv = "echo" /\ srv_path \in {"rst", "fin_rst"} /\ Return("connection_reset")

ServerError == ServerLive /\ Return("local_error")

ServerStep == ServerStarts \/ RecvHeartbeat \/ SendEcho \/ SessionEnds

-----------------------------------------------------------------------------
(***************************************************************************)
(* The network.                                                            *)
(***************************************************************************)

\* The answer of a closed socket to data.
Bounced(sent) ==
    CASE sent = "fin" -> "fin_rst"
      [] sent = "gone" -> "rst"
      [] OTHER -> sent

Deliver ==
    /\ wire = "up"
    /\ srv # "none"
    /\ delivered < heartbeats_sent
    /\ delivered' = delivered + 1
    /\ srv_sent' = Bounced(srv_sent)
    /\ UNCHANGED <<vars, srvVars, wire, cli_sent, srv_path, lag, reset_on_path>>

DeliverEcho ==
    /\ wire = "up"
    /\ InSession /\ path = "up"
    /\ arrived < echoed
    /\ arrived' = arrived + 1
    /\ UNCHANGED <<taskVars, cancelled, attempts, localVars, path, taken, beatVars, sessionVars,
                   clockVars, srvVars, netVars>>

\* An echo the client has not read is taken to be on its way still.
EchoBounces ==
    /\ wire = "up"
    /\ Bounced(cli_sent) # cli_sent
    /\ heartbeats_rx < echoed
    /\ cli_sent' = Bounced(cli_sent)
    /\ UNCHANGED <<vars, srvVars, wire, delivered, srv_sent, srv_path, lag, reset_on_path>>

\* How what the other end sent comes in: its FIN after its data, its RST at
\* any time.
Incoming(seen, sent, all_in) ==
    CASE seen = "up" /\ sent \in {"fin", "fin_rst"} /\ all_in -> "fin"
      [] seen = "up" /\ sent = "rst" -> "rst"
      [] seen = "fin" /\ sent = "fin_rst" -> "fin_rst"
      [] OTHER -> seen

AtServer == Incoming(srv_path, cli_sent, delivered = heartbeats_sent)
AtClient == Incoming(path, srv_sent, arrived = echoed)

DeliverEnd ==
    /\ wire = "up"
    /\ \/ /\ ServerLive
          /\ AtServer # srv_path
          /\ srv_path' = AtServer
          /\ UNCHANGED <<vars, wire, delivered, cli_sent, srv_sent>>
       \/ /\ InSession
          /\ AtClient # path
          /\ path' = AtClient
          /\ UNCHANGED <<taskVars, cancelled, attempts, localVars, arrived, taken, beatVars,
                         sessionVars, clockVars, wire, delivered, cli_sent, srv_sent, srv_path>>
    /\ UNCHANGED <<srvVars, lag, reset_on_path>>

\* A firewall or another device on the way ends the connection for one end by
\* a RST, and for the other by a second step or not at all.
Reset(seen) == IF seen = "up" THEN "rst" ELSE "fin_rst"

ResetOnPath ==
    /\ wire = "up"
    /\ \/ /\ ServerLive
          /\ srv_path \in {"up", "fin"}
          /\ srv_path' = Reset(srv_path)
          /\ UNCHANGED vars
       \/ /\ InSession
          /\ path \in {"up", "fin"}
          /\ path' = Reset(path)
          /\ UNCHANGED <<taskVars, cancelled, attempts, localVars, arrived, taken, beatVars,
                         sessionVars, clockVars, srv_path>>
    /\ reset_on_path' = TRUE
    /\ UNCHANGED <<srvVars, wire, delivered, cli_sent, srv_sent, lag>>

WireDies ==
    /\ wire = "up"
    /\ HandshakeWritten
    /\ wire' = "dead"
    /\ path' = IF InSession /\ path = "up" THEN "dead" ELSE path
    /\ UNCHANGED <<taskVars, cancelled, attempts, localVars, arrived, taken, beatVars, sessionVars,
                   clockVars, srvVars, delivered, cli_sent, srv_sent, srv_path, lag, reset_on_path>>

NetStep == Deliver \/ DeliverEcho \/ EchoBounces \/ DeliverEnd

-----------------------------------------------------------------------------
(***************************************************************************)
(* Time passes for both ends.                                              *)
(***************************************************************************)
InFlight ==
    /\ wire = "up"
    /\ \/ srv = "none" /\ HandshakeWritten
       \/ srv # "none" /\ delivered < heartbeats_sent
       \/ InSession /\ path = "up" /\ arrived < echoed
       \/ ServerLive /\ AtServer # srv_path
       \/ InSession /\ AtClient # path

ServerReady == srv = "echo" \/ (srv = "recv" /\ (read < delivered \/ srv_path # "up" \/ RecvTimesOut))

LinkTick ==
    /\ (InFlight \/ ServerReady) => lag < MaxLag
    /\ lag' = IF InFlight \/ ServerReady THEN lag + 1 ELSE 0
    /\ \/ Tick
       \/ pc \in {"connecting", "done"} /\ ServerLive /\ UNCHANGED vars
    /\ srv_idle' = IF srv = "recv" /\ srv_idle < heartbeat_recv_timeout THEN srv_idle + 1 ELSE srv_idle
    /\ UNCHANGED <<srv, read, echoed, srv_reason, wire, delivered, cli_sent, srv_sent, srv_path,
                   reset_on_path>>

LinkOver ==
    /\ pc = "done"
    /\ UNCHANGED linkVars

LinkNext ==
    \/ ClientStep
    \/ ServerStep \/ ServerDeclines \/ ServerError
    \/ NetStep \/ ResetOnPath \/ WireDies
    \/ LinkTick
    \/ LinkOver

(***************************************************************************)
(* Fairness: as in ClientSession at both ends; TCP delivers while the wire *)
(* is up.  The wire need not die, and no error or reset need happen.       *)
(***************************************************************************)
LinkFairness ==
    /\ WF_linkVars(ClientStep /\ (SessionStep \/ BackoffOver))
    /\ SF_linkVars(ClientStep /\ Cancelled)
    /\ WF_linkVars(ServerStep)
    /\ WF_linkVars(NetStep)
    /\ WF_linkVars(LinkTick)

LinkSpec == LinkInit /\ [][LinkNext]_linkVars /\ LinkFairness

-----------------------------------------------------------------------------
(***************************************************************************)
(* Properties.                                                             *)
(***************************************************************************)

\* Types.  Every heartbeat is delivered, read and echoed in its turn.
LinkTypeOK ==
    /\ srv \in {"none", "recv", "echo", "closed"}
    /\ srv_idle \in 0 .. heartbeat_recv_timeout
    /\ srv_reason \in {"none", "timeout", "remote_close", "connection_reset", "local_error"}
    /\ wire \in {"up", "dead"}
    /\ cli_sent \in {"none", "fin", "rst", "fin_rst", "gone"}
    /\ srv_sent \in {"none", "fin", "rst", "fin_rst", "gone"}
    /\ srv_path \in {"up", "fin", "rst", "fin_rst"}
    /\ lag \in 0 .. MaxLag
    /\ reset_on_path \in BOOLEAN
    /\ echoed \in 0 .. read
    /\ read \in 0 .. (IF echoed < delivered THEN echoed + 1 ELSE delivered)
    /\ delivered \in 0 .. heartbeats_sent

\* The server and the network are what ClientSession takes them to be: the
\* client never sees an echo of a heartbeat it has not sent, and its
\* connection ends in no other way than the ones allowed for there.
ImplementsClientSession == Init /\ [][Next]_vars

\* How long a server waits for a live client: two intervals, for a round that
\* was missed, and the delays on the way.  A heartbeat_recv_timeout above that
\* never drops a client the network can reach.
IdleBounded ==
    InSession /\ wire = "up" /\ srv = "recv" =>
        srv_idle <= 2 * heartbeat_interval + delays + MaxLag

\* The timings of one node against those of another: the server gives up
\* before the client has counted its misses and backed off.
TimingsSuit ==
    heartbeat_recv_timeout + 2 * MaxLag < (2 * MissLimit - 1) * heartbeat_interval + reconnect_delay

\* Then a client that timed out finds its old session gone when it connects
\* again, although no FIN of its could arrive: the two sessions, which share
\* one gauge at the server, do not overlap.
OldSessionGone ==
    TimingsSuit /\ disconnects["timeout"] > 0 /\ pc = "connecting" => ~ServerLive

Blames(reason) == reason \in {"remote_close", "connection_reset"}
ClientBlames == disconnects["remote_close"] + disconnects["connection_reset"] > 0
ServerBlames == Blames(srv_reason)

\* An end that counts a remote_close is right about the other: that one has
\* ended the session, for a reason of its own.  So is an end that counts a
\* connection_reset, unless the connection was reset on the way (README: a
\* firewall rule, or network device, can): then either of them, or both, may
\* put down to the other what neither has done.
OneEndKnows ==
    /\ srv_reason = "remote_close" => ClientOver /\ ~ClientBlames
    /\ disconnects["remote_close"] > 0 => srv = "closed" /\ ~ServerBlames
    /\ ~reset_on_path =>
          /\ ServerBlames => ClientOver /\ ~ClientBlames
          /\ ClientBlames => srv = "closed" /\ ~ServerBlames

\* Once the wire is dead, the connection was reset or one end has closed, both
\* ends do, although neither may hear of it.
BothEndsClose ==
    (wire = "dead" \/ reset_on_path \/ srv = "closed" \/ ClientOver) ~> (ClientOver /\ ~ServerLive)
=============================================================================
