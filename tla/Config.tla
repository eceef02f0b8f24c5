------------------------------- MODULE Config -------------------------------
(***************************************************************************)
(* config.rs: what becomes of a config file that an operator edits step by *)
(* step while the service starts and reloads.                              *)
(*                                                                         *)
(* A file is a record of sections; Absent stands for a key or section that *)
(* is not there, Mistyped for a value that does not fit the type of its    *)
(* key.  Of a key that is required, serde rejects both and Absent stands   *)
(* for either; of one that has a default, it rejects the latter only.      *)
(***************************************************************************)
EXTENDS Integers, SequencesExt

CONSTANTS
    Absent,    \* a key that is not in the file
    Mistyped,  \* a value of the wrong type
    Names,     \* non-empty names
    Ports,
    MaxPeers,  \* bound: [[peers]] entries
    MaxEdits   \* bound: edits

ASSUME AbsentAssumption == Absent \notin Names /\ Absent \notin Ports /\ Absent \notin Nat
ASSUME MistypedAssumption == Mistyped \notin Nat /\ Mistyped # Absent
ASSUME ShippedAssumption == Names # {} /\ {9700, 9701, 9702} \subseteq Ports
ASSUME BoundsAssumption == MaxPeers \in Nat /\ MaxEdits \in Nat

VARIABLES
    file,     \* the file as it is now
    running,  \* the config the process runs with, or Absent
    verdict,  \* of the last load, until the next edit: "ok" or the first error
    edits

vars == <<file, running, verdict, edits>>

MAX_SECONDS == 86400
default_heartbeat_interval == 30
default_max_misses == 3
default_reconnect_delay == 10
default_peer_heartbeat_port == 9700

\* The values of a key in seconds that the rules tell apart.
Seconds == {0, 1, MAX_SECONDS, MAX_SECONDS + 1}
ServerKeys == [
    bind |-> {"IP", "hostname"}, heartbeat_port |-> Ports, metrics_port |-> Ports,
    probe_port |-> Ports, heartbeat_recv_timeout |-> Seconds, probe_idle_timeout |-> Seconds]
ClientKeys == [heartbeat_interval |-> Seconds, max_misses |-> {0, 3}, reconnect_delay |-> Seconds]
PeerNames == Names \cup {"", Absent}
PeerHosts == {"host", "", Absent}
Peers == [name : PeerNames, host : PeerHosts, heartbeat_port : {9701, Absent, Mistyped}]

NoClient == [k \in {} |-> Absent]

-----------------------------------------------------------------------------
(***************************************************************************)
(* parse: serde, which rejects a value of the wrong type and a missing key *)
(* it has no default for, and validate, which returns the first rule the   *)
(* config breaks.                                                          *)
(***************************************************************************)
Deserializes(f) ==
    /\ f.node # Absent
    /\ \A k \in DOMAIN f.server : f.server[k] # Absent
    /\ \A k \in DOMAIN f.client : f.client[k] # Mistyped
    /\ \A i \in DOMAIN f.peers :
          /\ f.peers[i].name # Absent /\ f.peers[i].host # Absent
          /\ f.peers[i].heartbeat_port # Mistyped

OrDefault(v, default) == IF v = Absent THEN default ELSE v

PeerFrom(p) == [p EXCEPT !.heartbeat_port = OrDefault(@, default_peer_heartbeat_port)]

from_str(f) ==
    [f EXCEPT
        !.client = IF @ = NoClient THEN @ ELSE
            [heartbeat_interval |-> OrDefault(@.heartbeat_interval, default_heartbeat_interval),
             max_misses |-> OrDefault(@.max_misses, default_max_misses),
             reconnect_delay |-> OrDefault(@.reconnect_delay, default_reconnect_delay)],
        !.peers = [i \in DOMAIN @ |-> PeerFrom(@[i])]]

AdjacentPorts(s) == s.heartbeat_port = s.metrics_port \/ s.metrics_port = s.probe_port

SharedPort(s) ==
    \/ s.heartbeat_port = s.metrics_port \/ s.heartbeat_port = s.probe_port
    \/ s.metrics_port = s.probe_port

\* (field, value, minimum), in seconds.
Timings(c) ==
    <<[field |-> "server.heartbeat_recv_timeout", value |-> c.server.heartbeat_recv_timeout, min |-> 1],
      [field |-> "server.probe_idle_timeout", value |-> c.server.probe_idle_timeout, min |-> 0]>>
    \o IF c.client = NoClient THEN <<>> ELSE
    <<[field |-> "client.heartbeat_interval", value |-> c.client.heartbeat_interval, min |-> 1],
      [field |-> "client.reconnect_delay", value |-> c.client.reconnect_delay, min |-> 1]>>

\* The rules on the settings, in the order they are tried.
SettingRules(c) ==
    <<[error |-> "node.name", broken |-> c.node = ""],
      [error |-> "server.bind", broken |-> c.server.bind # "IP"],
      [error |-> "ports", broken |-> SharedPort(c.server)]>>
    \o [i \in DOMAIN Timings(c) |->
          LET t == Timings(c)[i]
          IN  [error |-> t.field, broken |-> t.value < t.min \/ t.value > MAX_SECONDS]]

\* The rules on entry i, those before it being seen.
PeerRules(peers, i) ==
    <<[error |-> "peer name", broken |-> peers[i].name = ""],
      [error |-> "peer host", broken |-> peers[i].host = ""],
      [error |-> "duplicate peer", broken |-> \E j \in 1 .. (i - 1) : peers[j].name = peers[i].name]>>

\* The first rule that is broken is the one that is reported.
FirstError(rules) ==
    LET broken == {i \in DOMAIN rules : rules[i].broken}
    IN  IF broken = {} THEN "ok" ELSE rules[Min(broken)].error

LastPeersError(peers) ==
    LET bad == {i \in DOMAIN peers : FirstError(PeerRules(peers, i)) # "ok"}
    IN  IF bad = {} THEN "ok" ELSE FirstError(PeerRules(peers, Max(bad)))

\* The loop over the entries ends at the first that breaks a rule.
PeersError(peers) ==
    LET bad == {i \in DOMAIN peers : FirstError(PeerRules(peers, i)) # "ok"}
    IN  IF bad = {} THEN "ok" ELSE FirstError(PeerRules(peers, Min(bad)))

validate(c) ==
    LET error == FirstError(SettingRules(c))
    IN  IF error # "ok" THEN error ELSE PeersError(c.peers)

load(f) ==
    CASE ~f.readable -> "read"
      [] f.readable /\ ~Deserializes(f) -> "parse"
      [] OTHER -> validate(from_str(f))

-----------------------------------------------------------------------------
Shipped ==
    [readable |-> TRUE, node |-> CHOOSE n \in Names : TRUE,
     server |-> [bind |-> "IP", heartbeat_port |-> 9700, metrics_port |-> 9701, probe_port |-> 9702,
                 heartbeat_recv_timeout |-> 1, probe_idle_timeout |-> 0],
     client |-> [k \in DOMAIN ClientKeys |-> Absent],
     peers |-> <<[name |-> CHOOSE n \in Names : TRUE, host |-> "host", heartbeat_port |-> Absent]>>]

Init == file = Shipped /\ running = Absent /\ verdict = Absent /\ edits = 0

(***************************************************************************)
(* The operator (external) changes one key or one entry at a time, or      *)
(* moves the file away.                                                    *)
(***************************************************************************)
Edits(f) ==
    {[f EXCEPT !.readable = ~@]}
    \cup {[f EXCEPT !.node = n] : n \in {"", Absent}}
    \cup (UNION {{[f EXCEPT !.server[k] = v] : v \in ServerKeys[k] \cup {Absent}} : k \in DOMAIN f.server})
    \cup (UNION {{[f EXCEPT !.client[k] = v] : v \in ClientKeys[k] \cup {Absent, Mistyped}} : k \in DOMAIN f.client})
    \cup {[f EXCEPT !.client = c] : c \in {NoClient, [k \in DOMAIN ClientKeys |-> Absent]}}
    \cup {[f EXCEPT !.peers = Append(@, p)] : p \in IF Len(f.peers) < MaxPeers THEN Peers ELSE {}}
    \cup {[f EXCEPT !.peers = RemoveAt(@, i)] : i \in DOMAIN f.peers}

Edit ==
    /\ edits < MaxEdits
    /\ file' \in Edits(file) \ {file}
    /\ edits' = edits + 1
    /\ verdict' = Absent
    /\ UNCHANGED running

\* main at its start, and watch_sighup later: a file that does not load
\* leaves what runs (at the start, nothing) as it is.
Load ==
    /\ verdict' = load(file)
    /\ running' = IF verdict' = "ok" THEN from_str(file) ELSE running
    /\ UNCHANGED <<file, edits>>

Exit ==
    /\ running # Absent
    /\ running' = Absent
    /\ verdict' = Absent
    /\ UNCHANGED <<file, edits>>

Next == Edit \/ Load \/ Exit

Spec == Init /\ [][Next]_vars

-----------------------------------------------------------------------------
(***************************************************************************)
(* Properties.                                                             *)
(***************************************************************************)

InDay(low, seconds) == low <= seconds /\ seconds <= MAX_SECONDS

\* What the rest of the program takes for granted, stated without the order
\* and the early returns of validate: sessions and reconnects never spin
\* (ClientSession, ServerSessions), timers do not overflow, three listeners
\* can be bound, and the map run_manager makes of the peers loses none
\* (ClientManager).
Sound(c) ==
    /\ c.node # "" /\ c.server.bind = "IP"
    /\ \A k, l \in {"heartbeat_port", "metrics_port", "probe_port"} :
          k # l => c.server[k] # c.server[l]
    /\ InDay(1, c.server.heartbeat_recv_timeout) /\ InDay(0, c.server.probe_idle_timeout)
    /\ c.client # NoClient =>
          InDay(1, c.client.heartbeat_interval) /\ InDay(1, c.client.reconnect_delay)
    /\ \A p \in ToSet(c.peers) : p.name # "" /\ p.host # ""
    /\ Cardinality({p.name : p \in ToSet(c.peers)}) = Len(c.peers)

\* Types.  What runs has a value for every key.
TypeOK ==
    /\ edits \in 0 .. MaxEdits
    /\ verdict \in {Absent, "ok", "read", "parse", "node.name", "server.bind", "ports", "peer name",
                    "peer host", "duplicate peer", "server.heartbeat_recv_timeout",
                    "server.probe_idle_timeout", "client.heartbeat_interval", "client.reconnect_delay"}
    /\ running # Absent =>
          /\ Deserializes(running)
          /\ \A k \in DOMAIN running.client : running.client[k] # Absent
          /\ \A p \in ToSet(running.peers) : p.heartbeat_port # Absent

\* Whatever edits and reloads follow each other, what runs is sound.
NeverRunsUnsound == running # Absent => Sound(running)

\* A sound file is never turned down, and of an unsound one the error names a
\* rule such that mending it and all before it is needed: the parts of the
\* file that are checked earlier are in order.
VerdictRight ==
    verdict # Absent /\ file.readable /\ Deserializes(file) =>
        LET c == from_str(file)
        IN  /\ verdict = "ok" <=> Sound(c)
            /\ verdict \notin {"ok", "node.name"} => c.node # ""
            /\ verdict \in {"peer name", "peer host", "duplicate peer"} => Sound([c EXCEPT !.peers = <<>>])
            /\ verdict = "duplicate peer" =>
                  \E i \in DOMAIN c.peers :
                      /\ \E j \in 1 .. (i - 1) : c.peers[j].name = c.peers[i].name
                      /\ Sound([c EXCEPT !.peers = SubSeq(@, 1, i - 1)])
=============================================================================
