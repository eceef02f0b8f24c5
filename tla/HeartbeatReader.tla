--------------------------- MODULE HeartbeatReader ---------------------------
(***************************************************************************)
(* protocol.rs, struct HeartbeatReader: heartbeats are read from a TCP     *)
(* byte stream that hands over any number of bytes at a time, and the      *)
(* future returned by recv may be dropped at any await (the client's echo  *)
(* deadline does that).  The bytes received so far live in the reader, so  *)
(* the next call resumes in the middle of the packet.                      *)
(*                                                                         *)
(* The peer writes HeartbeatBytes(0), HeartbeatBytes(1), ... back to back. *)
(***************************************************************************)
EXTENDS Packet

CONSTANT MaxPackets \* bound: heartbeats the peer writes

ASSUME MaxPacketsAssumption == MaxPackets \in Nat

VARIABLES
    written,  \* bytes the peer has put on the stream
    closed,   \* the peer has closed its end
    consumed, \* bytes read from the stream
    buf,      \* HeartbeatReader::buf
    filled,   \* HeartbeatReader::filled
    reading,  \* a recv future is being awaited
    failed,   \* recv has returned UnexpectedEof
    received, \* calls of recv that returned a heartbeat
    last      \* what the last of them returned

vars == <<written, closed, consumed, buf, filled, reading, failed, received, last>>

\* What the receiver of the n-th heartbeat should be given.
Sent(n) == decode_packet(HeartbeatBytes(n))

Channel == INSTANCE PacketChannel WITH Heartbeat <- Sent

NoHeartbeat == [seq |-> -1, timestamp |-> -1]

\* The byte at position p of the stream.
StreamByte(p) == HeartbeatBytes(p \div PACKET_SIZE)[p % PACKET_SIZE]

Init ==
    /\ written = 0
    /\ closed = FALSE
    /\ consumed = 0
    /\ buf = [i \in Offsets |-> 0]
    /\ filled = 0
    /\ reading = FALSE
    /\ failed = FALSE
    /\ received = 0
    /\ last = NoHeartbeat

-----------------------------------------------------------------------------
(***************************************************************************)
(* The peer and the network (external).                                    *)
(***************************************************************************)
PeerWrites ==
    /\ ~closed
    /\ written < MaxPackets * PACKET_SIZE
    /\ written' = written + 1
    /\ UNCHANGED <<closed, consumed, buf, filled, reading, failed, received, last>>

\* The stream may end inside a packet.
PeerCloses ==
    /\ ~closed
    /\ closed' = TRUE
    /\ UNCHANGED <<written, consumed, buf, filled, reading, failed, received, last>>

-----------------------------------------------------------------------------
(***************************************************************************)
(* The owner of the reader.  A recv that failed ends the session, so the   *)
(* reader is not used again.                                               *)
(***************************************************************************)
CallRecv ==
    /\ ~reading
    /\ ~failed
    /\ reading' = TRUE
    /\ UNCHANGED <<written, closed, consumed, buf, filled, failed, received, last>>

\* filled lives in the reader, not in the future, so a dropped future leaves it.
FreshReaderPerCall == filled' = 0

KeepPartial == UNCHANGED filled

DropRecv ==
    /\ reading
    /\ reading' = FALSE
    /\ KeepPartial
    /\ UNCHANGED <<written, closed, consumed, buf, failed, received, last>>

-----------------------------------------------------------------------------
(***************************************************************************)
(* recv itself.  stream.read returned n bytes, at most what is unfilled.   *)
(***************************************************************************)
Stored(n) ==
    [i \in Offsets |-> IF i >= filled /\ i < filled + n
                       THEN StreamByte(consumed + (i - filled))
                       ELSE buf[i]]

FilledAfter(n) == IF filled + n < PACKET_SIZE THEN filled + n ELSE 0

Read(n) ==
    /\ reading
    /\ n <= PACKET_SIZE - filled
    /\ consumed + n <= written
    /\ consumed' = consumed + n
    /\ buf' = Stored(n)
    /\ filled' = FilledAfter(n)
    /\ IF filled + n < PACKET_SIZE
       THEN UNCHANGED <<reading, received, last>>
       ELSE /\ reading' = FALSE
            /\ received' = received + 1
            /\ last' = decode_packet(Stored(n))
    /\ UNCHANGED <<written, closed, failed>>

\* stream.read returned 0.
ReadEof ==
    /\ reading
    /\ closed
    /\ consumed = written
    /\ reading' = FALSE
    /\ failed' = TRUE
    /\ UNCHANGED <<written, closed, consumed, buf, filled, received, last>>

\* The session is over: nobody calls recv again.
SessionOver ==
    /\ failed
    /\ UNCHANGED vars

Next ==
    \/ PeerWrites
    \/ PeerCloses
    \/ CallRecv
    \/ DropRecv
    \/ \E n \in 1 .. PACKET_SIZE : Read(n)
    \/ ReadEof
    \/ SessionOver

Spec == Init /\ [][Next]_vars

-----------------------------------------------------------------------------
(***************************************************************************)
(* Properties.                                                             *)
(***************************************************************************)

\* Types: the counters are naturals and a packet is never left complete in
\* the buffer between two steps (recv returns it in the step that fills it).
TypeOK ==
    /\ written \in Nat
    /\ closed \in BOOLEAN
    /\ consumed \in Nat
    /\ consumed <= written
    /\ filled \in 0 .. (PACKET_SIZE - 1)
    /\ reading \in BOOLEAN
    /\ failed \in BOOLEAN
    /\ received \in Nat
    /\ DOMAIN buf = Offsets

\* The stream never falls out of alignment (HeartbeatReader's doc comment):
\* every byte taken from the stream is either in a packet already returned or
\* at its own place in the buffer.
Aligned ==
    /\ consumed = received * PACKET_SIZE + filled
    /\ \A i \in Offsets : i < filled => buf[i] = HeartbeatBytes(received)[i]

\* The reader implements the packet channel: the n-th heartbeat returned is
\* the n-th one written, whatever calls were dropped in between.
DeliversInOrder == Channel!Spec

\* decode_packet undoes encode_packet for every sequence number and every
\* timestamp the format can hold.
CodecRoundTrip ==
    \A s, t \in FieldValues :
        decode_packet(encode_packet(s, t)) = [seq |-> s, timestamp |-> t]

=============================================================================
