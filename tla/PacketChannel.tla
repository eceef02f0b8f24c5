---------------------------- MODULE PacketChannel ----------------------------
(***************************************************************************)
(* What a session relies on when it calls HeartbeatReader::recv: the n-th  *)
(* call that succeeds returns the n-th heartbeat the peer wrote, however   *)
(* TCP cut the bytes up and however many earlier calls were abandoned.     *)
(***************************************************************************)
EXTENDS Integers

CONSTANT Heartbeat(_) \* the n-th heartbeat written, from 0

VARIABLES
    received, \* number of heartbeats returned so far
    last      \* the heartbeat returned most recently (arbitrary before that)

Init == received = 0

Deliver ==
    /\ received' = received + 1
    /\ last' = Heartbeat(received)

Spec == Init /\ [][Deliver]_<<received, last>>
=============================================================================
