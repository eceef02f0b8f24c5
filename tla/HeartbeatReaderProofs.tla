------------------------ MODULE HeartbeatReaderProofs ------------------------
(***************************************************************************)
(* For every packet size, every byte range and any number of packets: the  *)
(* reader stays aligned with the stream and delivers the packets in order. *)
(***************************************************************************)
EXTENDS HeartbeatReader, WellFoundedInduction, TLAPS

USE FieldSizeAssumption, ByteAssumption, MaxPacketsAssumption
USE DEF KeepPartial, FilledAfter

\* A packet has at least two bytes.
LEMMA PacketSize == PACKET_SIZE \in Nat /\ PACKET_SIZE > 1
BY DEF PACKET_SIZE

\* Byte j of packet k is at position k * PACKET_SIZE + j of the stream.
LEMMA Position ==
    ASSUME NEW k \in Nat, NEW j \in Offsets
    PROVE  StreamByte(k * PACKET_SIZE + j) = HeartbeatBytes(k)[j]
<1> DEFINE p == k * PACKET_SIZE + j
<1>1. j \in Nat /\ j < PACKET_SIZE
  BY PacketSize DEF Offsets
<1>2. p \div PACKET_SIZE = k /\ p % PACKET_SIZE = j
  BY <1>1, PacketSize
<1>3. QED
  BY <1>2 DEF StreamByte

-----------------------------------------------------------------------------
(***************************************************************************)
(* The invariant.                                                          *)
(***************************************************************************)
IInv == TypeOK /\ Aligned

LEMMA InitIInv == Init => IInv
<1> SUFFICES ASSUME Init
             PROVE  IInv
  OBVIOUS
<1>1. TypeOK
  <2>1. closed \in BOOLEAN /\ reading \in BOOLEAN /\ failed \in BOOLEAN /\ DOMAIN buf = Offsets
    BY DEF Init
  <2>2. 0 \in 0 .. (PACKET_SIZE - 1)
    BY PacketSize
  <2>3. /\ written \in Nat /\ consumed \in Nat /\ consumed <= written /\ received \in Nat
        /\ filled \in 0 .. (PACKET_SIZE - 1)
    BY <2>2 DEF Init
  <2>4. QED
    BY <2>1, <2>3 DEF TypeOK
<1>2. consumed = received * PACKET_SIZE + filled
  BY PacketSize DEF Init
<1>3. \A i \in Offsets : ~ (i < filled)
  BY PacketSize DEF Init, Offsets
<1>4. QED
  BY <1>1, <1>2, <1>3 DEF IInv, Aligned

\* A read of n bytes puts them where their packet has them.
LEMMA StoredBytes ==
    ASSUME IInv, NEW n \in 1 .. PACKET_SIZE, n <= PACKET_SIZE - filled
    PROVE  /\ DOMAIN Stored(n) = Offsets
           /\ \A i \in Offsets : i < filled + n => Stored(n)[i] = HeartbeatBytes(received)[i]
<1>1. DOMAIN Stored(n) = Offsets
  BY DEF Stored
<1>2. ASSUME NEW i \in Offsets, i < filled + n
      PROVE  Stored(n)[i] = HeartbeatBytes(received)[i]
  <2>1. i \in Nat /\ filled \in Nat /\ received \in Nat /\ PACKET_SIZE \in Nat
    BY PacketSize DEF IInv, TypeOK, Offsets
  <2>2. CASE i < filled
    BY <2>1, <2>2 DEF IInv, Aligned, Stored
  <2>3. CASE i >= filled
    <3>1. Stored(n)[i] = StreamByte(consumed + (i - filled))
      BY <1>2, <2>1, <2>3 DEF Stored
    <3>2. consumed + (i - filled) = received * PACKET_SIZE + i
      BY <2>1 DEF IInv, Aligned
    <3>3. QED
      BY <3>1, <3>2, <2>1, Position
  <2>4. QED
    BY <2>1, <2>2, <2>3
<1>3. QED
  BY <1>1, <1>2

\* A read that completes the packet leaves exactly that packet in the buffer.
LEMMA StoredPacket ==
    ASSUME IInv, NEW n \in 1 .. PACKET_SIZE, filled + n = PACKET_SIZE
    PROVE  Stored(n) = HeartbeatBytes(received)
<1>1. filled \in Nat /\ PACKET_SIZE \in Nat
  BY PacketSize DEF IInv, TypeOK
<1>2. \A i \in Offsets : Stored(n)[i] = HeartbeatBytes(received)[i]
  BY <1>1, StoredBytes DEF Offsets
<1>3. QED
  BY <1>2 DEF Stored, HeartbeatBytes, encode_packet

LEMMA ReadPreservesIInv ==
    ASSUME IInv, NEW n \in 1 .. PACKET_SIZE, Read(n)
    PROVE  IInv'
<1>1. /\ filled \in Nat /\ n \in Nat \ {0} /\ received \in Nat /\ consumed \in Nat
      /\ filled < PACKET_SIZE /\ PACKET_SIZE \in Nat
      /\ filled + n <= PACKET_SIZE
      /\ consumed = received * PACKET_SIZE + filled
  BY PacketSize DEF IInv, TypeOK, Aligned, Read
<1>2. CASE filled + n < PACKET_SIZE
  <2>1. /\ consumed' = consumed + n /\ filled' = filled + n /\ received' = received
        /\ buf' = Stored(n)
    BY <1>2 DEF Read
  <2>2. TypeOK'
    BY <1>1, <1>2, <2>1, StoredBytes DEF Read, IInv, TypeOK
  <2>3. consumed' = received' * PACKET_SIZE + filled'
    BY <1>1, <2>1
  <2>4. \A i \in Offsets : i < filled' => buf'[i] = HeartbeatBytes(received')[i]
    BY <1>1, <2>1, StoredBytes
  <2>5. QED
    BY <2>2, <2>3, <2>4 DEF IInv, Aligned, HeartbeatBytes, encode_packet, Offsets, to_be_bytes
<1>3. CASE filled + n = PACKET_SIZE
  <2> ~ (filled + n < PACKET_SIZE)
    BY <1>1, <1>3
  <2>1. /\ consumed' = consumed + n /\ filled' = 0 /\ received' = received + 1
        /\ buf' = Stored(n) /\ reading' = FALSE
        /\ UNCHANGED <<written, closed, failed>> /\ consumed + n <= written
    BY DEF Read
  <2>2. TypeOK'
    <3>1. DOMAIN buf' = Offsets
      BY <1>1, <2>1, StoredBytes
    <3>2. closed' \in BOOLEAN /\ reading' \in BOOLEAN /\ failed' \in BOOLEAN
      BY <2>1 DEF IInv, TypeOK
    <3>3. /\ written' \in Nat /\ consumed' \in Nat /\ consumed' <= written'
          /\ received' \in Nat /\ filled' \in 0 .. (PACKET_SIZE - 1)
      BY <1>1, <2>1, PacketSize DEF IInv, TypeOK
    <3>4. QED
      BY <3>1, <3>2, <3>3 DEF TypeOK
  <2>3. consumed' = received' * PACKET_SIZE + filled'
    BY <1>1, <1>3, <2>1
  <2>4. \A i \in Offsets : ~ (i < filled')
    BY <2>1, PacketSize DEF Offsets
  <2>5. QED
    BY <2>2, <2>3, <2>4 DEF IInv, Aligned
<1>4. QED
  BY <1>1, <1>2, <1>3

LEMMA NextIInv == IInv /\ [Next]_vars => IInv'
<1> SUFFICES ASSUME IInv, [Next]_vars
             PROVE  IInv'
  OBVIOUS
<1>1. CASE PeerWrites
  BY <1>1, PacketSize DEF PeerWrites, IInv, TypeOK, Aligned
<1>2. CASE PeerCloses
  BY <1>2 DEF PeerCloses, IInv, TypeOK, Aligned
<1>3. CASE CallRecv
  BY <1>3 DEF CallRecv, IInv, TypeOK, Aligned
<1>4. CASE DropRecv
  BY <1>4 DEF DropRecv, IInv, TypeOK, Aligned
<1>5. ASSUME NEW n \in 1 .. PACKET_SIZE, Read(n)
      PROVE  IInv'
  BY <1>5, ReadPreservesIInv
<1>6. CASE ReadEof
  BY <1>6 DEF ReadEof, IInv, TypeOK, Aligned
<1>7. CASE UNCHANGED vars
  BY <1>7 DEF vars, IInv, TypeOK, Aligned
<1>8. QED
  BY <1>1, <1>2, <1>3, <1>4, <1>5, <1>6, <1>7 DEF Next, SessionOver

LEMMA InductiveInvariant == Spec => []IInv
BY InitIInv, NextIInv, PTL DEF Spec

-----------------------------------------------------------------------------
(***************************************************************************)
(* Theorems.                                                               *)
(***************************************************************************)

\* Types of the reader's state, and no complete packet is left in the buffer.
THEOREM TypeCorrect == Spec => []TypeOK
BY InductiveInvariant, PTL DEF IInv

\* HeartbeatReader never falls out of alignment with the stream, however the
\* bytes arrive and whichever recv futures are dropped.
THEOREM StaysAligned == Spec => []Aligned
BY InductiveInvariant, PTL DEF IInv

\* The n-th heartbeat HeartbeatReader::recv returns is the n-th one written.
THEOREM ImplementsChannel == Spec => DeliversInOrder
<1>1. Init => Channel!Init
  BY DEF Init, Channel!Init
<1>2. ASSUME IInv, [Next]_vars
      PROVE  [Channel!Deliver]_<<received, last>>
  <2>1. ASSUME NEW n \in 1 .. PACKET_SIZE, Read(n)
        PROVE  [Channel!Deliver]_<<received, last>>
    <3>1. CASE filled + n < PACKET_SIZE
      BY <2>1, <3>1 DEF Read
    <3>2. CASE ~ (filled + n < PACKET_SIZE)
      <4>1. filled + n = PACKET_SIZE
        BY <1>2, <2>1, <3>2, PacketSize DEF Read, IInv, TypeOK
      <4>2. received' = received + 1 /\ last' = decode_packet(Stored(n))
        BY <2>1, <3>2 DEF Read
      <4>3. QED
        BY <4>1, <4>2, StoredPacket, <1>2, <2>1 DEF Channel!Deliver, Sent
    <3>3. QED
      BY <3>1, <3>2
  <2>2. CASE PeerWrites \/ PeerCloses \/ CallRecv \/ DropRecv \/ ReadEof \/ UNCHANGED vars
    BY <2>2 DEF PeerWrites, PeerCloses, CallRecv, DropRecv, ReadEof, vars
  <2>3. QED
    BY <1>2, <2>1, <2>2 DEF Next, SessionOver
<1>3. QED
  BY <1>1, <1>2, InductiveInvariant, PTL DEF Spec, DeliversInOrder, Channel!Spec

-----------------------------------------------------------------------------
(***************************************************************************)
(* The codec.  What a recursive function computes is shown by induction in *)
(* the form the provers can use: about a set, from the fact that < is well *)
(* founded on Nat.                                                         *)
(***************************************************************************)

\* A set with 0 that is closed under successor has every natural number.
LEMMA SetInduction ==
    ASSUME NEW S, 0 \in S, \A n \in Nat : n \in S => n + 1 \in S
    PROVE  \A n \in Nat : n \in S
<1> DEFINE Less == {p \in Nat \X Nat : p[1] < p[2]}
           Rest == {n \in Nat : n \notin S}
<1>1. IsWellFoundedOn(Less, Nat)
  <2>1. OpToRel(<, Nat) = Less
    BY DEF OpToRel
  <2>2. QED
    BY <2>1, NatLessThanWellFounded
<1>2. SUFFICES ASSUME Rest # {}
               PROVE  FALSE
  OBVIOUS
<1>3. PICK x \in Rest : \A y \in Rest : ~ (<<y, x>> \in Less)
  <2>1. Rest \subseteq Nat
    OBVIOUS
  <2> HIDE DEF Less, Rest
  <2>2. QED
    BY <1>1, <1>2, <2>1, WFMin
<1>4. x \in Nat /\ x - 1 \in Nat
  OBVIOUS
<1>5. <<x - 1, x>> \in Less
  BY <1>4
<1>6. (x - 1) + 1 \in S
  BY <1>3, <1>4, <1>5
<1>7. QED
  BY <1>4, <1>6

\* f starts with a and goes on by step.
Iterates(f, n, a, step) == f[0] = a /\ \A i \in 1 .. n : f[i] = step[i][f[i - 1]]

\* There is such a function for every start and every step.
LEMMA PrimitiveRecursion ==
    ASSUME NEW n \in Nat, NEW S, NEW a \in S, NEW step \in [1 .. n -> [S -> S]]
    PROVE  \E f \in [0 .. n -> S] : Iterates(f, n, a, step)
<1> USE DEF Iterates
<1> DEFINE Good == {m \in Nat : m <= n => \E f \in [0 .. m -> S] : Iterates(f, m, a, step)}
<1>1. 0 \in Good
  <2> DEFINE f == [i \in 0 .. 0 |-> a]
  <2>1. f \in [0 .. 0 -> S] /\ Iterates(f, 0, a, step)
    OBVIOUS
  <2>2. QED
    BY <2>1
<1>2. ASSUME NEW m \in Nat, m \in Good
      PROVE  m + 1 \in Good
  <2> SUFFICES ASSUME m + 1 <= n
               PROVE  \E f \in [0 .. (m + 1) -> S] : Iterates(f, m + 1, a, step)
    OBVIOUS
  <2>1. PICK f \in [0 .. m -> S] : Iterates(f, m, a, step)
    BY <1>2
  <2> DEFINE g == [i \in 0 .. (m + 1) |-> IF i <= m THEN f[i] ELSE step[m + 1][f[m]]]
  <2>2. f[m] \in S /\ m + 1 \in 1 .. n /\ step[m + 1][f[m]] \in S
    OBVIOUS
  <2>3. g \in [0 .. (m + 1) -> S]
    BY <2>2
  <2>4. g[0] = a
    BY <2>1
  <2>5. ASSUME NEW i \in 1 .. (m + 1)
        PROVE  g[i] = step[i][g[i - 1]]
    <3>1. CASE i <= m
      BY <2>1, <3>1
    <3>2. CASE i = m + 1
      BY <3>2
    <3>3. QED
      BY <3>1, <3>2
  <2> HIDE DEF g
  <2>6. QED
    BY <2>3, <2>4, <2>5
<1>3. \A m \in Nat : m \in Good
  <2> HIDE DEF Good, Iterates
  <2>1. QED
    BY <1>1, <1>2, SetInduction
<1>4. QED
  BY <1>3

\* PlaceValue is what its definition says.
LEMMA PlaceValues ==
    /\ \A k \in 0 .. FIELD_SIZE : PlaceValue[k] \in Nat \ {0}
    /\ PlaceValue[0] = 1
    /\ \A k \in 1 .. FIELD_SIZE : PlaceValue[k] = PlaceValue[k - 1] * BYTE
<1> DEFINE P(g) == g = [k \in 0 .. FIELD_SIZE |-> IF k = 0 THEN 1 ELSE g[k - 1] * BYTE]
           Pos == Nat \ {0}
           step == [i \in 1 .. FIELD_SIZE |-> [v \in Pos |-> v * BYTE]]
<1>1. step \in [1 .. FIELD_SIZE -> [Pos -> Pos]] /\ 1 \in Pos /\ FIELD_SIZE \in Nat
  OBVIOUS
<1>2. PICK f \in [0 .. FIELD_SIZE -> Pos] : Iterates(f, FIELD_SIZE, 1, step)
  <2> HIDE DEF step, Pos
  <2>1. QED
    BY <1>1, PrimitiveRecursion
<1>3. ASSUME NEW i \in 1 .. FIELD_SIZE
      PROVE  f[i] = f[i - 1] * BYTE
  <2>1. f[i - 1] \in Pos
    OBVIOUS
  <2>2. QED
    BY <1>2, <2>1 DEF Iterates
<1>4. P(f)
  BY <1>2, <1>3 DEF Iterates
<1>5. P(PlaceValue)
  <2>1. PlaceValue = CHOOSE g : P(g)
    BY DEF PlaceValue
  <2> HIDE DEF P
  <2>2. QED
    BY <1>4, <2>1
<1>6. /\ PlaceValue[0] = 1
      /\ \A k \in 1 .. FIELD_SIZE : PlaceValue[k] = PlaceValue[k - 1] * BYTE
  <2>1. ASSUME NEW g, P(g)
        PROVE  g[0] = 1 /\ \A k \in 1 .. FIELD_SIZE : g[k] = g[k - 1] * BYTE
    <3>1. \A k \in 0 .. FIELD_SIZE : g[k] = IF k = 0 THEN 1 ELSE g[k - 1] * BYTE
      BY <2>1, Zenon
    <3>2. QED
      BY <3>1
  <2>2. QED
    BY <1>5, <2>1
<1>7. \A k \in Nat : k <= FIELD_SIZE => PlaceValue[k] \in Nat \ {0}
  <2> DEFINE T == {k \in Nat : k <= FIELD_SIZE => PlaceValue[k] \in Nat \ {0}}
  <2>1. 0 \in T
    BY <1>6
  <2>2. ASSUME NEW k \in Nat, k \in T
        PROVE  k + 1 \in T
    <3>1. k + 1 <= FIELD_SIZE => PlaceValue[k + 1] = PlaceValue[k] * BYTE
      BY <1>6
    <3>2. QED
      BY <2>2, <3>1
  <2>3. \A k \in Nat : k \in T
    <3> HIDE DEF T
    <3>1. QED
      BY <2>1, <2>2, SetInduction
  <2>4. QED
    BY <2>3
<1>8. QED
  BY <1>6, <1>7

\* The digits of n put together again are n: the first i bytes are n without
\* its FIELD_SIZE - i least significant ones.
LEMMA FieldRoundTrip ==
    ASSUME NEW n \in FieldValues, NEW bytes,
           \A i \in 0 .. (FIELD_SIZE - 1) : bytes[i] = to_be_bytes(n)[i]
    PROVE  from_be_bytes(bytes) = n
<1> DEFINE P(g) == g = [i \in 0 .. FIELD_SIZE |->
                          IF i = 0 THEN 0 ELSE g[i - 1] * BYTE + bytes[i - 1]]
           Upper(i) == n \div PlaceValue[FIELD_SIZE - i]
           upper == [i \in 0 .. FIELD_SIZE |-> Upper(i)]
           value == CHOOSE g : P(g)
<1>1. n \in Nat /\ n < PlaceValue[FIELD_SIZE]
  BY PlaceValues DEF FieldValues
<1>2. Upper(0) = 0
  <2>1. ASSUME NEW m \in Nat, NEW d \in Nat \ {0}, m < d
        PROVE  m \div d = 0
    BY <2>1
  <2>2. PlaceValue[FIELD_SIZE - 0] \in Nat \ {0} /\ n < PlaceValue[FIELD_SIZE - 0]
    BY <1>1, PlaceValues
  <2>3. QED
    BY <1>1, <2>1, <2>2
<1>3. Upper(FIELD_SIZE) = n
  BY <1>1, PlaceValues
<1>4. ASSUME NEW i \in 1 .. FIELD_SIZE
      PROVE  Upper(i) = Upper(i - 1) * BYTE + bytes[i - 1]
  <2>1. PICK d \in Nat \ {0} : d = PlaceValue[FIELD_SIZE - i]
    BY PlaceValues
  <2>2. PlaceValue[FIELD_SIZE - (i - 1)] = d * BYTE
    <3>1. FIELD_SIZE - (i - 1) \in 1 .. FIELD_SIZE /\ (FIELD_SIZE - (i - 1)) - 1 = FIELD_SIZE - i
      OBVIOUS
    <3>2. QED
      BY <2>1, <3>1, PlaceValues
  <2>3. bytes[i - 1] = (n \div d) % BYTE
    <3>1. i - 1 \in 0 .. (FIELD_SIZE - 1) /\ FIELD_SIZE - 1 - (i - 1) = FIELD_SIZE - i
      OBVIOUS
    <3>2. to_be_bytes(n)[i - 1] = (n \div PlaceValue[FIELD_SIZE - 1 - (i - 1)]) % BYTE
      BY <3>1 DEF to_be_bytes
    <3>3. QED
      BY <2>1, <3>1, <3>2
  <2>4. ASSUME NEW m \in Nat, NEW b \in Nat \ {0}
        PROVE  m \div d = (m \div (d * b)) * b + ((m \div d) % b)
    <3>1. m \div (d * b) = (m \div d) \div b
      OBVIOUS
    <3>2. m \div d \in Nat
      OBVIOUS
    <3>3. ASSUME NEW x \in Nat
          PROVE  x = (x \div b) * b + (x % b)
      OBVIOUS
    <3>4. QED
      BY <3>1, <3>2, <3>3
  <2>5. QED
    BY <1>1, <2>1, <2>2, <2>3, <2>4
<1>5. P(upper)
  <2>1. ASSUME NEW i \in 0 .. FIELD_SIZE
        PROVE  upper[i] = IF i = 0 THEN 0 ELSE upper[i - 1] * BYTE + bytes[i - 1]
    <3> HIDE DEF Upper
    <3>1. CASE i = 0
      BY <1>2, <3>1
    <3>2. CASE i # 0
      <4>1. i \in 1 .. FIELD_SIZE /\ i - 1 \in 0 .. FIELD_SIZE
        BY <3>2
      <4>2. QED
        BY <1>4, <3>2, <4>1
    <3>3. QED
      BY <3>1, <3>2
  <2>2. upper = [i \in 0 .. FIELD_SIZE |-> upper[i]]
    BY Zenon
  <2> HIDE DEF upper
  <2>3. QED
    BY <2>1, <2>2, Zenon
<1>6. P(value)
  <2> HIDE DEF P, upper
  <2>1. QED
    BY <1>5
<1>7. value[0] = 0 /\ \A i \in 1 .. FIELD_SIZE : value[i] = value[i - 1] * BYTE + bytes[i - 1]
  <2>1. ASSUME NEW g, P(g)
        PROVE  g[0] = 0 /\ \A i \in 1 .. FIELD_SIZE : g[i] = g[i - 1] * BYTE + bytes[i - 1]
    <3>1. \A i \in 0 .. FIELD_SIZE : g[i] = IF i = 0 THEN 0 ELSE g[i - 1] * BYTE + bytes[i - 1]
      BY <2>1, Zenon
    <3>2. QED
      BY <3>1
  <2> HIDE DEF P
  <2>2. QED
    BY <1>6, <2>1
<1>8. value[FIELD_SIZE] = Upper(FIELD_SIZE)
  <2> HIDE DEF value, Upper
  <2> DEFINE T == {i \in Nat : i <= FIELD_SIZE => value[i] = Upper(i)}
  <2>1. 0 \in T
    BY <1>2, <1>7
  <2>2. ASSUME NEW i \in Nat, i \in T
        PROVE  i + 1 \in T
    <3> SUFFICES ASSUME i + 1 <= FIELD_SIZE
                 PROVE  value[i + 1] = Upper(i + 1)
      OBVIOUS
    <3>1. i + 1 \in 1 .. FIELD_SIZE /\ (i + 1) - 1 = i /\ value[i] = Upper(i)
      BY <2>2
    <3>2. /\ value[i + 1] = value[i] * BYTE + bytes[i]
          /\ Upper(i + 1) = Upper(i) * BYTE + bytes[i]
      BY <1>4, <1>7, <3>1
    <3>3. QED
      BY <3>1, <3>2
  <2>3. \A i \in Nat : i \in T
    <3> HIDE DEF T
    <3>1. QED
      BY <2>1, <2>2, SetInduction
  <2>4. QED
    BY <2>3
<1>9. from_be_bytes(bytes) = value[FIELD_SIZE]
  BY DEF from_be_bytes
<1>10. QED
  BY <1>3, <1>8, <1>9

\* decode_packet undoes encode_packet for every format, every sequence number
\* and every timestamp.
THEOREM CodecIsInverse == Spec => []CodecRoundTrip
<1>1. ASSUME NEW s \in FieldValues, NEW t \in FieldValues
      PROVE  decode_packet(encode_packet(s, t)) = [seq |-> s, timestamp |-> t]
  <2> DEFINE buf0 == encode_packet(s, t)
             first == [i \in 0 .. (FIELD_SIZE - 1) |-> buf0[i]]
             second == [i \in 0 .. (FIELD_SIZE - 1) |-> buf0[FIELD_SIZE + i]]
  <2>1. \A i \in 0 .. (FIELD_SIZE - 1) : first[i] = to_be_bytes(s)[i]
    BY DEF encode_packet, Offsets, PACKET_SIZE
  <2>2. ASSUME NEW i \in 0 .. (FIELD_SIZE - 1)
        PROVE  second[i] = to_be_bytes(t)[i]
    <3>1. /\ FIELD_SIZE + i \in Offsets /\ ~ (FIELD_SIZE + i < FIELD_SIZE)
          /\ (FIELD_SIZE + i) - FIELD_SIZE = i
      BY DEF Offsets, PACKET_SIZE
    <3>2. QED
      BY <3>1 DEF encode_packet
  <2>3. from_be_bytes(first) = s /\ from_be_bytes(second) = t
    <3> HIDE DEF first, second
    <3>1. QED
      BY <2>1, <2>2, FieldRoundTrip
  <2>4. QED
    BY <2>3 DEF decode_packet
<1>2. CodecRoundTrip
  BY <1>1 DEF CodecRoundTrip
<1>3. QED
  BY <1>2, PTL

=============================================================================
