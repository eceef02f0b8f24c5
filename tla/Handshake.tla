------------------------------ MODULE Handshake ------------------------------
(***************************************************************************)
(* protocol.rs, send_handshake, recv_handshake, read_handshake and         *)
(* sanitize_peer_name: how a node name becomes the label the other end     *)
(* files its session under.                                                *)
(*                                                                         *)
(* A name is a sequence of characters; a character c is Width[c] bytes,    *)
(* the pairs <<c, 1>> to <<c, Width[c]>>.  A connection is the length      *)
(* prefix, the bytes of the name and then heartbeats.                      *)
(***************************************************************************)
EXTENDS Naturals, SequencesExt

CONSTANTS
    Width,                   \* bytes of each character
    SafeChars,               \* is_alphanumeric, '-', '_' and '.'
    MAX_HANDSHAKE_NAME_LEN,  \* bytes
    MAX_PEER_NAME_CHARS,
    MaxNameChars,            \* bound: characters of a node name
    MaxForeign               \* bound: bytes of a client that is not tcp-monitor

Chars == DOMAIN Width
ByteSet == UNION {{c} \X (1 .. Width[c]) : c \in Chars}

ASSUME WidthAssumption == Width \in [Chars -> 1 .. 4] /\ SafeChars \subseteq Chars
ASSUME LimitsAssumption == MAX_HANDSHAKE_NAME_LEN \in Nat \ {0} /\ MAX_PEER_NAME_CHARS \in Nat \ {0}
ASSUME BoundsAssumption == MaxNameChars \in Nat /\ MaxForeign \in Nat

VARIABLES
    client,     \* the name of a tcp-monitor client, or what another client sends
    stream,     \* what the client has written or will write
    delivered,  \* how much of it has arrived
    closed,     \* the rest will not arrive
    consumed,   \* how much the server has read
    pc,         \* the server: "length", "name", "session", or why it gave up
    label       \* the peer name it ends up with

vars == <<client, stream, delivered, closed, consumed, pc, label>>

NoLabel == <<>>
Unknown == <<"unknown">>
Heartbeat == <<"heartbeat", 0>>

CharBytes(c) == [k \in 1 .. Width[c] |-> <<c, k>>]

BytesOf(s) == FlattenSeq([i \in DOMAIN s |-> CharBytes(s[i])])

UpTo(n, s) == IF Len(s) < n THEN s ELSE SubSeq(s, 1, n)

-----------------------------------------------------------------------------
(***************************************************************************)
(* send_handshake, and what another client may send instead.               *)
(***************************************************************************)
NameUncut(name) == BytesOf(name)

\* bytes.get(..MAX_HANDSHAKE_NAME_LEN).unwrap_or(bytes)
NameBytes(name) == UpTo(MAX_HANDSHAKE_NAME_LEN, BytesOf(name))

\* The prefix counts the bytes as cut.
send_handshake(name) ==
    <<<<"length", Len(UpTo(MAX_HANDSHAKE_NAME_LEN, BytesOf(name)))>>>> \o NameBytes(name)

NodeNames == BoundedSeq(Chars, MaxNameChars) \ {<<>>}
Foreign == BoundedSeq(ByteSet, MaxForeign)

Init ==
    /\ \/ \E name \in NodeNames :
             client = name /\ stream = send_handshake(name) \o <<Heartbeat>>
       \/ \E n \in 0 .. (MAX_HANDSHAKE_NAME_LEN + 1), bytes \in Foreign :
             client = NoLabel /\ stream = <<<<"length", n>>>> \o bytes
    /\ delivered = 0 /\ closed = FALSE /\ consumed = 0
    /\ pc = "length"
    /\ label = NoLabel

IsNode == client # NoLabel

\* The network (external): any cut of the stream into segments, and its end.
Deliver ==
    /\ ~closed
    /\ delivered' \in (delivered + 1) .. Len(stream)
    /\ UNCHANGED <<client, stream, closed, consumed, pc, label>>

CloseStream ==
    /\ ~closed
    /\ closed' = TRUE
    /\ UNCHANGED <<client, stream, delivered, consumed, pc, label>>

-----------------------------------------------------------------------------
(***************************************************************************)
(* read_handshake.                                                         *)
(***************************************************************************)
ValidLength(n) == n # 0 /\ n <= MAX_HANDSHAKE_NAME_LEN

NameLen == stream[1][2]

\* The prefix and the name.
NameEnd == NameLen + 1

ReadLength ==
    /\ pc = "length"
    /\ delivered > 0
    /\ consumed' = 1
    /\ pc' = IF ValidLength(NameLen) THEN "name" ELSE "invalid"
    /\ UNCHANGED <<client, stream, delivered, closed, label>>

\* String::from_utf8(bytes).unwrap_or_default(): the text these bytes encode,
\* or nothing if there is none.
from_utf8(bytes) ==
    LET texts == {s \in BoundedSeq(Chars, Len(bytes)) : BytesOf(s) = bytes}
    IN  IF texts = {} THEN <<>> ELSE CHOOSE s \in texts : TRUE

\* chars().filter()
Filtered(s) ==
    LET kept[i \in 0 .. Len(s)] ==
            IF i = 0 THEN <<>>
            ELSE IF s[i] \in SafeChars THEN Append(kept[i - 1], s[i]) ELSE kept[i - 1]
    IN  kept[Len(s)]

SanitizeCutFirst(name) ==
    LET s == Filtered(UpTo(MAX_PEER_NAME_CHARS, name))
    IN  IF s = <<>> THEN Unknown ELSE s

SanitizeMayBeEmpty(name) ==
    UpTo(MAX_PEER_NAME_CHARS, Filtered(name))

sanitize_peer_name(name) ==
    LET s == UpTo(MAX_PEER_NAME_CHARS, Filtered(name))
    IN  IF s = <<>> THEN Unknown ELSE s

\* read_exact takes what there is; once it has the whole name, so has the
\* server.
ReadName ==
    /\ pc = "name"
    /\ consumed < delivered
    /\ \E upto \in (consumed + 1) .. delivered :
          /\ upto <= NameEnd
          /\ consumed' = upto
          /\ IF upto = NameEnd
             THEN pc' = "session" /\ label' = sanitize_peer_name(from_utf8(SubSeq(stream, 2, NameLen + 1)))
             ELSE UNCHANGED <<pc, label>>
    /\ UNCHANGED <<client, stream, delivered, closed>>

ReadEof ==
    /\ pc \in {"length", "name"}
    /\ closed
    /\ consumed = delivered
    /\ pc' = "eof"
    /\ UNCHANGED <<client, stream, delivered, closed, consumed, label>>

\* recv_handshake: one timeout over the whole read.
TimedOut ==
    /\ pc \in {"length", "name"}
    /\ pc' = "timed out"
    /\ UNCHANGED <<client, stream, delivered, closed, consumed, label>>

Finished ==
    /\ pc \notin {"length", "name"}
    /\ UNCHANGED vars

Next == Deliver \/ CloseStream \/ ReadLength \/ ReadName \/ ReadEof \/ TimedOut \/ Finished

\* The read ends in any case, if only by its timeout.
Spec == Init /\ [][Next]_vars /\ WF_vars(ReadLength \/ ReadName \/ ReadEof \/ TimedOut)

-----------------------------------------------------------------------------
(***************************************************************************)
(* Properties.                                                             *)
(***************************************************************************)

\* Types.  The server reads only what has arrived, and nothing beyond the name.
TypeOK ==
    /\ delivered \in 0 .. Len(stream)
    /\ consumed \in 0 .. delivered
    /\ closed \in BOOLEAN
    /\ pc \in {"length", "name", "session", "invalid", "eof", "timed out"}
    /\ consumed <= 1 + NameLen

\* Whatever a client sends, a session that starts has a label that is safe in
\* metrics and logs: not empty, not too long, nothing but safe characters.
LabelSafe ==
    IF pc = "session"
    THEN /\ Len(label) \in 1 .. MAX_PEER_NAME_CHARS
         /\ label = Unknown \/ \A i \in DOMAIN label : label[i] \in SafeChars
    ELSE label = NoLabel

\* Both ends agree where the handshake ends, for every name however long: the
\* next bytes the server reads are those of the first heartbeat, and no node is
\* turned away for its name.
FramingKept ==
    IsNode => /\ pc # "invalid"
              /\ pc = "session" => SubSeq(stream, consumed + 1, Len(stream)) = <<Heartbeat>>

\* The longest run of whole characters that fits.
Fitting(name) ==
    LET fit == {n \in 0 .. Len(name) : Len(BytesOf(SubSeq(name, 1, n))) <= MAX_HANDSHAKE_NAME_LEN}
    IN  SubSeq(name, 1, CHOOSE n \in fit : \A m \in fit : m <= n)

\* A node is filed under the safe characters of its name, in order and up to
\* the limit, unless the cut at MAX_HANDSHAKE_NAME_LEN splits a character:
\* then it is filed as unknown.
LabelIsOfName ==
    IsNode /\ pc = "session" =>
        LET safe == Filtered(Fitting(client))
            split == Len(BytesOf(Fitting(client))) < Len(NameBytes(client))
        IN  label = IF split \/ Len(safe) = 0
                    THEN Unknown
                    ELSE [i \in 1 .. (IF Len(safe) < MAX_PEER_NAME_CHARS
                                      THEN Len(safe) ELSE MAX_PEER_NAME_CHARS) |-> safe[i]]
=============================================================================
