# A TLA+ model of tcp-monitor

tcp-monitor runs on every node of a network. Each node keeps one TCP heartbeat
session open to each of its peers, echoes the heartbeats of the sessions opened
to it, and exports what it sees as Prometheus metrics. The product of the
program is its metrics: a gauge that shows a session that is not there, a miss
that is not counted or a disconnect that blames the wrong host is the kind of
error that matters. This directory models the parts that produce them.

Paths below are relative to the repository (`src/` of the crate).

## Inventory

| Part | State | Operations | Interacts with |
|---|---|---|---|
| Packet format (`protocol.rs`) | none | `encode_packet`, `decode_packet` | both ends of a session |
| Heartbeat reader (`protocol.rs`) | `buf`, `filled` | `recv`, which may be dropped at its await | the byte stream; the client's echo deadline |
| Peer task (`client.rs`, `run_peer_loop`, `run_session`) | schedule, deadline, misses, sequence number; client metrics | connect, handshake, send, read echoes, count misses, end, back off | the network; the manager's token; shared metrics |
| Client manager (`client.rs`, `run_manager`) | map of running tasks | reconcile with a config, stop, spawn, shut down | watch channel, peer tasks, token |
| Server sessions (`server.rs`) | semaphore, one task per connection; server metrics | accept, handshake, register, echo, end | clients; shared metrics; token |
| Peer registry (`metrics.rs`) | set of names | `try_register` | all server tasks, under a mutex |
| Handshake (`protocol.rs`) | none | length-prefixed name, sanitised | start of every session |
| Server supervision (`server.rs`, `run`, `watch_config`) | two timeouts | apply a reload, notice a task that ended | accept loops |
| Probe port (`server.rs`) | semaphore | banner, drain | Blackbox Exporter |
| Lifecycle (`main.rs`) | tasks, config sender, token | start, SIGHUP, early exit, shutdown | everything |
| Config (`config.rs`) | none | load, parse, validate | lifecycle, manager |
| Wall clock (`lib.rs`, `now_f64`) | none | read | RTT and timestamps of both ends |
| Metrics registry and endpoint | metric families | register, encode, serve | all tasks |

What is hard about it: peer tasks, the manager, and one task per inbound
connection run on a multi-threaded runtime and share metrics; most awaits are in
a `select!` with a cancellation; a read is abandoned by a deadline in the middle
of a packet; echoes come late, in bunches or not at all; a connection can die
with a FIN, a RST or silently; configs and signals arrive at any moment, also
during startup and shutdown, where tasks that end on purpose and tasks that fail
look alike; the two ends of a connection are configured on different nodes and
learn of its end at different times, or not at all. `PROJECT.json`
lists the hazards one by one, each at its line.

What makes the parts correct:

* reader: every heartbeat comes out whole, once and in order;
* peer task: sessions and heartbeats are accounted for exactly, silence is
  detected within a known time and never reported without silence, RTT is that
  of the right heartbeat, a cancelled task ends;
* manager: the running tasks are those of the config, never two for a peer,
  none left behind, unchanged peers undisturbed;
* server: slots and label entries are bounded and not leaked, sessions are
  accounted for, gauges never show a session that is gone;
* registry: the cap holds and known names always pass;
* probe port: slots are bounded and every one comes back;
* handshake: both ends agree where it ends, and the label is safe and comes from
  the name;
* config: what runs is always sound, and a sound file is never turned down;
* lifecycle: a caught SIGHUP takes effect, SIGTERM ends the process, a failed
  task leads to a restart and a shutdown is not taken for a failure;
* both ends together: a live client is not timed out, an end that blames the
  other is right as far as it can know, and neither end outlives the connection
  for ever.

## Modules

| Module | Models | |
|---|---|---|
| `Packet` | packet format | operators |
| `PacketChannel` | what a session expects of its reader | abstract |
| `HeartbeatReader` | `HeartbeatReader::recv` | implements `PacketChannel` |
| `HeartbeatReaderProofs` | theorems on it | |
| `PeerTask` | what the manager expects of a peer task | abstract |
| `ClientSession` | `run_peer_loop`, `run_session` | implements `PeerTask` |
| `ClientManager` | `run_manager`, `PeerTask::stop`, over `PeerTask`s | |
| `ClientManagerProofs` | theorems on it | |
| `SlotPool` | what an accept loop promises of its slots | abstract |
| `ServerSessions` | accept loop, sessions, peer registry | implements the bound of `SlotPool` |
| `ServerSessionsProofs` | theorems on it | |
| `Probe` | `probe_accept_loop` | implements `SlotPool` |
| `ProbeProofs` | theorems on it | |
| `Link` | one connection: `ClientSession` with a clocked `drive_session` and the network | extends and implements `ClientSession` |
| `LinkProofs` | theorems on `ClientSession`, and from them those on `Link` | |
| `Handshake` | `send_handshake`, `recv_handshake`, `sanitize_peer_name` | |
| `HandshakeProofs` | theorems on it | |
| `Config` | `load`, `parse`, `validate` | |
| `ConfigProofs` | theorems on it | |
| `Lifecycle` | `main`, `watch_sighup`, `server::run`, `watch_config`, systemd | |
| `LifecycleProofs` | theorems on it | |
| `MC*` | instances for TLC | |

The abstract modules are where components meet. `ClientSession` reads echoes
one by one because `HeartbeatReader` implements `PacketChannel`; `ClientManager`
runs `PeerTask`s because `ClientSession` implements `PeerTask`; `Lifecycle` sees
of the manager and the accept loops only that they run, end at the token or
fail. What `ClientSession` assumes of its peer is what `Link` shows of the
server; what it, `ServerSessions` and `ClientManager` assume of their settings
is what `Config` shows of every config that runs (`Sound`).

Operators such as `FreshReaderPerCall` or `OneMissTooFew` that stand directly
above a definition are faulty variants of it. No specification uses them; they
serve to test that the property named in `PROJECT.json` would notice.

### Packet and HeartbeatReader

A packet is two big-endian fields. Their size and the range of a byte are
constants, so that TLC can run through all packets of a small format; the proofs
hold for every format, that of the code (8 bytes, 256 values) included. A float
timestamp is its bits.

The stream grows byte by byte (`PeerWrites`) and may end anywhere. `Read(n)` is
what `recv` does when `stream.read` returns `n` bytes: store, and return the
packet when it is complete. `DropRecv` drops the future at the await. The
server's `recv_heartbeat` is a reader used for one call; the session ends if
that call is abandoned.

### ClientSession

`pc` is the await the task is at: connecting, handshake, waiting
(`sleep_until`), sending, awaiting (an echo), backoff. One action is everything
the task does from there to its next await, metrics included; metrics of a
client label are written by one task only, so no other step can fall in between
(`OneTaskPerPeer` in `ClientManager` shows that).

Instants are relative to now, in ticks. `Tick` ages them all. Time does not pass
a task that could run, except for `MaxDelay` ticks per session, which stand for
late scheduling and blocked writes; the timing properties carry that delay
(`delays`). The server echoes every heartbeat once and in order, so the echoes
that have arrived are a counter (`Link` discharges that assumption).
`timeout_at` polls the read before the clock, hence `DeadlinePassed` requires
that the read has nothing to return.

I/O errors are those of Linux: after a FIN a read ends and a write still
succeeds; the RST that answers it turns later writes into `BrokenPipe`; a RST
out of nowhere is `ConnectionReset`; `LocalError` is any other kind at any time.

The RTT is the one measurement on the wall clock. `send_age` follows that clock:
it starts when `send_ts` is read, before the write that may block, and
`ClockStepped` sets it forward or back while the write is blocked or an echo is
awaited. All timers are on the monotonic clock and are not touched.

Left out: timestamp and duration gauges, which only copy a clock, and logging.

### ClientManager

A config is its node name, its `[client]` section (absent, or a value that is
only compared) and an address per peer. `Reconcile` takes the config from the
channel and lists the tasks to stop, `StopTask` and `Stopped` are the two halves
of `PeerTask::stop`, `SpawnTask` starts the missing ones in any order, as a hash
map's iteration does. The branch without a `[client]` section is the same with
every task unwanted. The peer tasks step as in `PeerTask`, and their gauges are
shared per label. `last_client_cfg` only selects warnings and is left out.

### ServerSessions

Every connection has a task. Tasks run in parallel and share metrics, so the
updates of a session's beginning and end are separate steps. Handshakes either
yield a name or fail. `remote` is what the client has done: closed, reset,
vanished, or stopped reading. Timeouts have no clock: one may fire when the read
has nothing to return, and fairness makes it fire if that stays so.

### SlotPool and Probe

`SlotPool` is a set of holders with a bound, where each holder lets go in the
end. Both accept loops keep the bound. Only the probe port keeps the promise
that every slot comes back, since its timeout covers all the task does after the
banner; `server_stall` shows why the heartbeat port does not. A probe task is a
record; `timer` is what is left of the timeout around the drain, a copy of
`probe_idle_timeout` made at accept. `Drain` is a read that returned data.

### Link

One connection and both of its ends on one clock. The client's steps are the
actions of `ClientSession`, unchanged; the server is `drive_session` for one
connection, with its timeout counted in ticks; the network delivers in order
while `wire` is up. An end that closes sends a FIN, or a RST if data was unread,
or nothing if its connection had been reset; a closed socket answers data with a
RST. A FIN reaches the other end after the data, a RST at once. The server may
also drop the connection before a session starts (`ServerDeclines`: no permit, a
late or broken handshake, a name too many). `ResetOnPath` is a firewall or
another device on the way that sends a RST of its own, to one end or, in two
steps, to both. `lag` counts the ticks in a row in which a
message was under way or the server was ready and did not run; `MaxLag` bounds
it and thus stands for the largest delay of network and server.

`ImplementsClientSession` says that the server and the network do nothing that
`ClientSession` does not already allow for. `IdleBounded` and `OldSessionGone`
relate timings that two operators set on two nodes: a receive timeout above two
intervals plus delays never drops a live client (90 s for an interval of 30 s in
the example config), and one below `(2 * max_misses - 1) * heartbeat_interval +
reconnect_delay` minus twice the delay (here 160 s) is over before a client that
timed out comes back. The second bound is exact: in the instance checked, a
reconnect delay one tick shorter lets the sessions overlap, which is the case
that `server_gauge` is about.

`OneEndKnows` is about the disconnect reasons of the two ends. An end that counts
a `remote_close` is right: the other ended the session, for a reason of its own,
whatever the network did. Of a `connection_reset` that holds only if nothing on
the way has reset the connection (`reset_on_path`, a history variable). The
repository's README names firewall rules and network devices among the origins of
`connection_reset` and then takes that reason to point to a host; with
`ResetOnPath` either end, or both at once, counts one although neither has ended
the session.

### Handshake

A name is a sequence of characters, a character a fixed number of bytes, so that
a cut at a byte can split one. The client is a node with any name, or something
else that sends any prefix and any bytes. Reads return any part of what has
arrived. `from_utf8` gives the text that the bytes encode or, if there is none,
nothing.

### Config

A file is a record of sections and keys, any of which can be absent; one that has
a default can also have a value of the wrong type, which is rejected where its
absence is not. Values in seconds are those around the limits, with the real
limits and defaults.
`SettingRules` lists the checks of `validate` on settings in their order,
`PeerRules` those on one entry; `validate` returns the first broken rule of the
settings or of the first entry that breaks one. `Sound` says what the other
modules rely on, without any order. The operator changes one key or entry at a
time; loads happen in between, and one that fails leaves the running config
alone.

### Lifecycle

`main` is the statement main is at. Tasks run as soon as they are spawned, so
the server, its three children, the manager and `watch_sighup` interleave with
main's startup and shutdown. The watch channel is its value, a version and what
each receiver has seen. A signal without a handler kills the process, as the
kernel does; `hup` is one flag because signals merge until `recv` returns. Any
loop may fail (`TaskFails`), as may a bind or the installation of a handler,
within `MaxEvents`. systemd restarts a process that ended unless the service was
stopped. The two timeouts and the peers in force are remembered with the config
they came from (`in_force`).

## Runs

| Run | Shows |
|---|---|
| `heartbeat_reader` | order and codec round trip, on two-byte fields of four values, three packets |
| `client_session` | accounting, timing, echo draining, RTT while the wall clock is set; two connections |
| `server_sessions` | slots, labels, accounting, gauges; three connections, two names, two slots, one label entry; refinement of the bound of `SlotPool` |
| `client_manager` | reconciliation, one task per peer, gauges; every sequence of three configs out of eighteen; reloads are applied and the manager returns |
| `probe` | permits add up, the moment of the drop is fixed at accept; refinement of `SlotPool` with its fairness |
| `link` | refinement of `ClientSession`, and of `PeerTask` with its fairness; timings of two nodes; who is right about the end of a session, also when a device on the way resets the connection; both ends close |
| `handshake` | framing, labels; every name of up to five characters and every short foreign stream |
| `config` | accepted exactly if sound; every file three edits away from the example |
| `lifecycle` | no false alarm, exit codes; a caught SIGHUP takes effect; SIGTERM ends the process; a complete process runs again after failures |

`ImplementsPeerTask` is a property of `ClientSession`. It is checked in `link`,
where the peer and the network behave as the real ones do and the task goes
through all it can meet from them; its safety part is proved for any environment
that `ClientSession` allows. Each module's `TypeOK` documents its variables and is
proved.

Three runs end in a violation and document where the code departs from what the
repository says about it:

* `client_detection`: a dead connection takes `2 * max_misses - 1` intervals to
  be given up, because each miss resets the schedule by a full interval, and no
  TCP keepalive is enabled; the README promises detection faster than
  `max_misses` intervals. `SilenceBounded` states what does hold.
* `server_gauge`: sessions of one peer can overlap; when the old one ends, the
  gauge shows 0 while the new one is live. `GaugeExactUnlessOverlap` states what
  does hold.
* `server_stall`: the write of an echo has no timeout, so a session whose client
  does not read stays for ever.

### Other departures the models contain

These follow from the same definitions and have no run of their own. The passing
properties are worded so that they hold with them.

* A round in which only a late echo arrives is not counted as missed, although
  its own echo was not received in time (`RoundEndsLate`).
* The RTT is taken from the wall clock and is negative when that is set back
  during a round; `RttIsOfLastHeartbeat` bounds the error by what it was set.
* After a reload that renames the node, running tasks keep the old label: the
  `node` of a task is that of the config it was spawned under. `GaugeExact` is
  stated per label, old and new.
* `probe_idle_timeout` limits the whole drain, so a client that is not idle is
  dropped too (`DeadlineFixed`). That is what lets every slot come back.
* `connection_reset` need not come from a host: the third part of `OneEndKnows`
  excepts connections that a device on the way has reset.
* A long name cut inside a character is not truncated but replaced by `unknown`
  (`LabelIsOfName`).
* `watch_sighup` holds a clone of the config sender, so dropping main's own does
  not close the channel; `StopsWhenTold` shows that the token is enough.
* The handle of `watch_sighup` is dropped, so its end is not noticed, unlike that
  of the tasks `Recovers` speaks of (`Complete`).
* A `systemctl reload` before the SIGHUP handler is installed kills the process,
  which `Recovers` then has come back; hence `ReloadTakesEffect` speaks of a
  SIGHUP that was caught.
* An error of `ctrl_c()` counts as a Ctrl-C, the exception in `ExitCodeTells`.

### Bounds

Only the environment is bounded. `MaxAttempts` (connections), `MaxEchoes`
(echoes delivered per session), `MaxDelay`, `MaxSteps` (of the wall clock),
`MaxPackets`, `MaxHeartbeats`, `MaxReloads`, `MaxLag`, `MaxBeats` (heartbeats of
a connection that is alive), `MaxNameChars`, `MaxForeign`, `MaxPeers`,
`MaxEdits` and `MaxEvents` limit what the outside does; the program's own
counters follow. Two connections show what one session leaves for the next. With
`max_misses = 2` a session can miss, recover and miss again, or time out; with
two echoes one can be late and the other on time; an interval of two ticks lets
something happen inside it. Two names and one label entry make registrations
compete, three connections and two slots make slots run out while sessions of
one name overlap. Three configs cover change, removal and return of a peer with
one still being stopped. A name of five characters of one or two bytes is
shorter than, equal to or longer than a limit of four bytes, and split by it or
not. Three edits are enough for a duplicate that is not a neighbour or for two
rules broken at once. In `Link` a lag of two ticks makes an echo late by a whole
interval, so that a miss happens over a wire that is up and is followed by
another heartbeat. Two faults let a task fail while another is being replaced or
a shutdown is under way, and two SIGHUPs around one edit merge or follow each
other: the three events of `lifecycle` allow for each of these, in any mix. Its
first config file is any valid one or none, which loses nothing since configs
are only told apart. The theorems hold for every value of these bounds, and of
the program's own limits and settings.

`server_sessions` uses the symmetry of connections; it checks no liveness. The
specifications stop only in states they name (`Finished`, `SessionOver`,
`LinkOver`, `ServiceStopped`), so deadlock is checked throughout.

### Fairness

* A task that is ready is polled, and clocks advance: weak fairness of the
  task's own steps and of `Tick`. In `ServerSessions` that includes timeouts.
* `select!` without `biased` picks among ready branches at random. A cancel
  branch that is ready at every turn of a loop is thus taken eventually, though
  not at the first turn: strong fairness of `Cancelled`, `StopAccepting`, `Quit`.
* systemd restarts the service (`Restart=always`).
* In `Link`, TCP delivers what was sent while the wire is up.
* Otherwise nothing is assumed of peers, clients, the network, the operator, or
  of errors.

`PeerTask` asks for weak fairness of `Finish`, which `ClientSession` is shown to
provide and `ClientManager` uses.

## Proofs

The module of each component has its theorems in a `Proofs` module,
`ClientSession` in the first part of `LinkProofs`. Each has an inductive
invariant, called `IInv` (`LinkInv` in `Link`), from which the theorems follow;
where an invariant of a run is not inductive by itself, the conjuncts that make
it so are named below.

Assumptions, which are the `ASSUME`s of the modules: interval, reconnect delay
and receive timeout are positive (`validate` rejects 0), `max_misses` is any
natural number, fields and packets are not empty, the limits on names are
positive and a character has one to four bytes (constants of the code and
UTF-8), a config has a `[client]` section or none and lists peers by name, bounds
are natural numbers, the set of connections is finite. In `Link` the client's
environment may deliver at least as many echoes as the client sends heartbeats
(`MaxBeats <= MaxEchoes`, a condition on `Link`'s own bound), so that the bound
of one module does not cut off the other; its client connects once, which is a
guard of its steps. In `Config` the mark for a missing key is no name, port or
number, that for a value of the wrong type is another and no number, there is a
name, and the ports of the shipped file are ports.

### What is proved, and along which argument

`HeartbeatReaderProofs`: `TypeOK` and `Aligned` are together inductive. The step
that matters is the read that completes a packet: by `Aligned` the bytes before
`filled` are those of the packet being received, by the index arithmetic of the
stream the new ones are its rest, so the buffer is exactly that packet and
`decode_packet` returns what was sent (`ImplementsChannel`). `CodecIsInverse`:
after i bytes the decoder holds the number without its other, less significant
ones (`FieldRoundTrip`).

`LinkProofs`, first part, on `ClientSession`: the inductive invariant `IInv` is
`TypeOK`, `Accounting` and `Timing`.

* `Accounting` adds to the two accounting invariants that outside a session its
  locals have their initial values (`Idle`); otherwise a session could begin
  with another's misses or echoes.
* `Timing` ties `silence`, `next_send`, `deadline` and `delays` together at each
  await. `SilenceBounded` alone is not inductive: that a miss may follow is only
  safe because the silence so far is exactly two intervals per miss counted
  (`Missed`), plus what the current wait has used up, plus delays. The same
  facts, read the other way, give `TimeoutMeansSilence`, and that `next_send`
  is never further behind than `delays` gives `ScheduleKept`.
* `RoundTrip` is inductive on top of `TypeOK`: while an echo is awaited, the
  clock since `send_ts` and what is left of the deadline add up to an interval,
  give or take delays and clock steps. It gives `RttIsOfLastHeartbeat`.

`RefinesPeerTask` is the safety part of the refinement.

`ServerSessionsProofs`: the four invariants of the run are inductive with two
more. `Known`: a task between registration and end has its name in the registry,
so that its writes touch an entry that exists. `SingleUnlessOverlap`: a name not
marked as overlapping has at most one live session, so the one that ends may
clear the gauge. Counting permits and sessions goes through the cardinality of
the set of tasks that hold one, and each action adds or removes one task.
`KnownPeersPass` and the bound of `SlotPool` follow step by step.

`ProbeProofs`: `SlotsConserved` is inductive through the same counting;
`DeadlineFixed` needs that a connection does not age before its drain begins
(`FreshUntilDrain`). `BoundedPool` is the safety part of the refinement.

`ClientManagerProofs`: `Owned` says that a running task is the map's entry of its
peer or the one being awaited, and that an entry is not cancelled; it gives
`OneTaskPerPeer`, and with that a gauge has one writer per label
(`GaugeExact`). `Planned` says, for each place in `run_manager`, how the map, the
list of tasks to stop and the config compare; it is what makes `Reconciliation`
hold when the loop is back at its `select!`, and `UnchangedPeersUndisturbed` when
a task is stopped. `ReturnsAlone` is the safety half of `ManagerReturns`.

`LifecycleProofs`: `NoFalseAlarm` depends on why a task can have ended.
`EndsMeanCancel`: before the token is cancelled a loop cannot have ended without
having failed, and the server only because a child of its own did. `Placed` says
what each statement of `main` has already done, `ReportedIsOver` that the task
reported has really ended. `ExitTells` carries the reason for the exit code.

`LinkProofs`, second part: each step of the composition is a
step of `ClientSession` or leaves it alone (`LinkRefinesClient`), so that all
theorems of the first part hold of the client in `Link`. On top of that, `OneSession` and
`Counted` make the numbers of heartbeats written, delivered, read and echoed,
and of echoes arrived and taken, a chain; `Ends` says that an end of stream at
one end was sent by the other, and a reset by the other or on the way. For
`OneEndKnows` it takes `FinIsOwn` too: an end that closes because of a reset sends
nothing, so that a FIN never comes from one that blames a live end for a reset,
and a `remote_close` cannot answer it. `Fed` gives `IdleBounded`: the server's
idle time and the client's time to its next heartbeat are bounded together,
since a bound on one alone is not kept by `Tick`. `Follows` gives
`OldSessionGone`: the server has been idle for as long as the client has been
without an echo, up to the delay, also after the client has given up; it leaves
out a client whose connection was reset, which ends the session for that and
never times out.

`HandshakeProofs`: the invariant says what the stream is made of, where the
server is in it, and that the label is what `sanitize_peer_name` makes of the
bytes received. The rest is about the operators. A text is spelled by a function
from the number of characters to the bytes so far (`Spells`); the first byte
after those of i characters is the first of character i + 1 (`NextByte`), so
texts whose bytes agree up to some point have the same characters up to there
(`CommonPrefix`). Hence bytes are of one text only, and a cut name decodes to
its whole characters or, if the cut is inside one, to nothing (`CutName`).

`ConfigProofs`: the inductive invariant says that the file is one an operator
can write (`FileType`), that a verdict not taken back is `load` of that file, and
that what runs is complete and sound. Every kind of edit keeps `FileType`; the
rest is about `validate`, for every config with numbers for its timings
(`ValidateRight`). A rule that is reported has the smallest index of the broken
ones (`ErrorIsFirst`, from the well-foundedness of `<`), so those before it are
kept; listing the rules of the settings and of an entry by index then gives both
directions, accepted if and only if sound, for the settings (`SettingsVerdict`)
and for each turn of the loop (`EntryVerdict`). `Sound` counts names where the
loop compares each with those before it. The two agree because the names are the
image of the indices, and a surjection of a finite set keeps its size exactly if
it is injective (`NamesCounted`). A duplicate is reported at the first bad entry,
so the entries before it are sound by themselves (`PeersVerdict`).

Induction over data goes through sets: `SetInduction` says that a set with 0
that is closed under successor has all numbers, from the well-foundedness of
`<`, and `PrimitiveRecursion` that a function defined by recursion exists. Both
are proved where they are used.

### Only model-checked

* Liveness: `ReloadApplied`, `ManagerReturns`, `ReloadTakesEffect`,
  `StopsWhenTold`, `Recovers`, `BothEndsClose`, and the fairness that
  `ImplementsPeerTask` and `ImplementsSlotPool` require. The prover has no rules
  for fairness.
* The three runs that end in a violation.

## Not modelled

Left out are the metrics registry, its text encoding and the HTTP endpoint, which
are library calls without a protocol of their own; logging, warnings about
settings that need a restart included; timestamp and duration gauges, which copy
a clock; TOML syntax and UTF-8 as such. A panic of a peer task has no step: no
code path to one is known, and nobody would notice it (`TODO.md` says so too).
