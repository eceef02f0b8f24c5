------------------------------- MODULE Packet -------------------------------
(***************************************************************************)
(* The heartbeat wire format of protocol.rs: two unsigned fields of        *)
(* FIELD_SIZE bytes each, the sequence number and the bits of the          *)
(* timestamp, most significant byte first.  The code has FIELD_SIZE = 8    *)
(* and BYTE = 256; both are parameters so that TLC can enumerate every     *)
(* packet of a small format.                                               *)
(***************************************************************************)
EXTENDS Integers

CONSTANTS
    FIELD_SIZE, \* bytes in one field
    BYTE        \* number of values a byte can hold

ASSUME FieldSizeAssumption == FIELD_SIZE \in Nat \ {0}
ASSUME ByteAssumption == BYTE \in Nat \ {0, 1}

PACKET_SIZE == 2 * FIELD_SIZE

\* Positions inside a packet buffer (Rust arrays count from 0).
Offsets == 0 .. (PACKET_SIZE - 1)

\* What a byte counts that has k less significant ones.
PlaceValue[k \in 0 .. FIELD_SIZE] == IF k = 0 THEN 1 ELSE PlaceValue[k - 1] * BYTE

\* The values an unsigned field can hold (u64 in the code).
FieldValues == 0 .. (PlaceValue[FIELD_SIZE] - 1)

(***************************************************************************)
(* u64::to_be_bytes and u64::from_be_bytes.                                *)
(***************************************************************************)
to_be_bytes(n) ==
    [i \in 0 .. (FIELD_SIZE - 1) |-> (n \div PlaceValue[FIELD_SIZE - 1 - i]) % BYTE]

from_be_bytes(bytes) ==
    LET value[i \in 0 .. FIELD_SIZE] ==
            IF i = 0 THEN 0 ELSE value[i - 1] * BYTE + bytes[i - 1]
    IN  value[FIELD_SIZE]

(***************************************************************************)
(* encode_packet chains the bytes of both fields into one buffer;          *)
(* decode_packet splits the buffer at the field boundary again.            *)
(***************************************************************************)
encode_packet(seq, timestamp) ==
    [i \in Offsets |-> IF i < FIELD_SIZE
                       THEN to_be_bytes(seq)[i]
                       ELSE to_be_bytes(timestamp)[i - FIELD_SIZE]]

DecodeLittleEndian(buf) ==
    [seq       |-> from_be_bytes([i \in 0 .. (FIELD_SIZE - 1) |-> buf[FIELD_SIZE - 1 - i]]),
     timestamp |-> from_be_bytes([i \in 0 .. (FIELD_SIZE - 1) |-> buf[PACKET_SIZE - 1 - i]])]

decode_packet(buf) ==
    [seq       |-> from_be_bytes([i \in 0 .. (FIELD_SIZE - 1) |-> buf[i]]),
     timestamp |-> from_be_bytes([i \in 0 .. (FIELD_SIZE - 1) |-> buf[FIELD_SIZE + i]])]

\* The n-th heartbeat (from 0) of a session carries sequence number n and the
\* reading of a clock that never stands still between two heartbeats.
HeartbeatBytes(n) == encode_packet(n, 2 * n + 1)
=============================================================================
