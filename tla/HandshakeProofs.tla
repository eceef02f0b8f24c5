--------------------------- MODULE HandshakeProofs ---------------------------
(***************************************************************************)
(* The handshake for every character set, every name and everything a      *)
(* client may send: both ends agree where it ends, and the label is safe   *)
(* and comes from the name.                                                *)
(***************************************************************************)
EXTENDS Handshake, WellFoundedInduction, TLAPS

(***************************************************************************)
(* Induction, about a set as the provers need it, and recursion.           *)
(***************************************************************************)

\* A set with 0 that is closed under successor has every natural number.
LEMMA SetInduction ==
    ASSUME NEW S, 0 \in S, \A n \in Nat : n \in S => n + 1 \in S
    PROVE  \A n \in Nat : n \in S
<1> DEFINE Less == {p \in Nat \X Nat : p[1] < p[2]}
           Rest == {n \in Nat : n \notin S}
<1>1. IsWellFoundedOn(Less, Nat)
  <2>1. OpToRel(<, Nat) = Less
    BY DEF OpToRel
  <2>2. QED
    BY <2>1, NatLessThanWellFounded
<1>2. SUFFICES ASSUME Rest # {}
               PROVE  FALSE
  OBVIOUS
<1>3. PICK x \in Rest : \A y \in Rest : ~ (<<y, x>> \in Less)
  <2>1. Rest \subseteq Nat
    OBVIOUS
  <2> HIDE DEF Less, Rest
  <2>2. QED
    BY <1>1, <1>2, <2>1, WFMin
<1>4. x \in Nat /\ x - 1 \in Nat
  OBVIOUS
<1>5. <<x - 1, x>> \in Less
  BY <1>4
<1>6. (x - 1) + 1 \in S
  BY <1>3, <1>4, <1>5
<1>7. QED
  BY <1>4, <1>6

\* f starts with a and goes on by step.
Iterates(f, n, a, step) == f[0] = a /\ \A i \in 1 .. n : f[i] = step[i][f[i - 1]]

\* There is such a function for every start and every step.
LEMMA PrimitiveRecursion ==
    ASSUME NEW n \in Nat, NEW S, NEW a \in S, NEW step \in [1 .. n -> [S -> S]]
    PROVE  \E f \in [0 .. n -> S] : Iterates(f, n, a, step)
<1> USE DEF Iterates
<1> DEFINE Good == {m \in Nat : m <= n => \E f \in [0 .. m -> S] : Iterates(f, m, a, step)}
<1>1. 0 \in Good
  <2> DEFINE f == [i \in 0 .. 0 |-> a]
  <2>1. f \in [0 .. 0 -> S] /\ Iterates(f, 0, a, step)
    OBVIOUS
  <2>2. QED
    BY <2>1
<1>2. ASSUME NEW m \in Nat, m \in Good
      PROVE  m + 1 \in Good
  <2> SUFFICES ASSUME m + 1 <= n
               PROVE  \E f \in [0 .. (m + 1) -> S] : Iterates(f, m + 1, a, step)
    OBVIOUS
  <2>1. PICK f \in [0 .. m -> S] : Iterates(f, m, a, step)
    BY <1>2
  <2> DEFINE g == [i \in 0 .. (m + 1) |-> IF i <= m THEN f[i] ELSE step[m + 1][f[m]]]
  <2>2. f[m] \in S /\ m + 1 \in 1 .. n /\ step[m + 1][f[m]] \in S
    OBVIOUS
  <2>3. g \in [0 .. (m + 1) -> S]
    BY <2>2
  <2>4. g[0] = a
    BY <2>1
  <2>5. ASSUME NEW i \in 1 .. (m + 1)
        PROVE  g[i] = step[i][g[i - 1]]
    <3>1. CASE i <= m
      BY <2>1, <3>1
    <3>2. CASE i = m + 1
      BY <3>2
    <3>3. QED
      BY <3>1, <3>2
  <2> HIDE DEF g
  <2>6. QED
    BY <2>3, <2>4, <2>5
<1>3. \A m \in Nat : m \in Good
  <2> HIDE DEF Good, Iterates
  <2>1. QED
    BY <1>1, <1>2, SetInduction
<1>4. QED
  BY <1>3

-----------------------------------------------------------------------------
(***************************************************************************)
(* What the recursive operators compute.                                   *)
(***************************************************************************)

\* f[i] is the first i of the sequences ss, one after the other.
Concatenates(f, n, ss) == f[0] = <<>> /\ \A i \in 0 .. (n - 1) : f[i + 1] = f[i] \o ss[i + 1]

\* FlattenSeq concatenates.
LEMMA Flattening ==
    ASSUME NEW X, NEW n \in Nat, NEW ss \in [1 .. n -> Seq(X)]
    PROVE  \E f \in [0 .. n -> Seq(X)] : Concatenates(f, n, ss) /\ FlattenSeq(ss) = f[n]
<1> DEFINE step == [i \in 1 .. n |-> [v \in Seq(X) |-> v \o ss[i]]]
           P(g) == g = [i \in 1 .. Len(ss) |-> IF i = 1 THEN ss[i] ELSE g[i - 1] \o ss[i]]
<1>1. step \in [1 .. n -> [Seq(X) -> Seq(X)]] /\ <<>> \in Seq(X)
  OBVIOUS
<1>2. PICK f \in [0 .. n -> Seq(X)] : Iterates(f, n, <<>>, step)
  <2> HIDE DEF step
  <2>1. QED
    BY <1>1, PrimitiveRecursion
<1>3. f[0] = <<>>
  BY <1>2 DEF Iterates
<1>4. ASSUME NEW i \in 0 .. (n - 1)
      PROVE  /\ i + 1 \in 1 .. n /\ f[i] \in Seq(X) /\ ss[i + 1] \in Seq(X)
             /\ f[i + 1] = f[i] \o ss[i + 1]
  <2>1. i + 1 \in 1 .. n /\ (i + 1) - 1 = i /\ f[i] \in Seq(X) /\ ss[i + 1] \in Seq(X)
    OBVIOUS
  <2>2. f[i + 1] = step[i + 1][f[(i + 1) - 1]]
    <3> HIDE DEF step
    <3>1. QED
      BY <1>2, <2>1 DEF Iterates
  <2>3. QED
    BY <2>1, <2>2
<1>5. Concatenates(f, n, ss)
  BY <1>3, <1>4 DEF Concatenates
<1>6. Len(ss) = n
  OBVIOUS
<1>7. CASE n = 0
  BY <1>3, <1>5, <1>6, <1>7 DEF FlattenSeq
<1>8. CASE n # 0
  <2> DEFINE h == [i \in 1 .. n |-> f[i]]
             value == CHOOSE g : P(g)
  <2> f[1] = ss[1]
    <3> HIDE DEF P, step
    <3>1. \A q \in Seq(X) : <<>> \o q = q
      OBVIOUS
    <3>2. PICK i \in 0 .. (n - 1) : i = 0 /\ i + 1 = 1
      BY <1>8
    <3>3. f[1] = <<>> \o ss[1] /\ ss[1] \in Seq(X)
      BY <1>3, <1>4, <3>2
    <3>4. QED
      BY <3>1, <3>3
  <2>1. P(h)
    <3>1. ASSUME NEW i \in 1 .. n
          PROVE  f[i] = IF i = 1 THEN ss[i] ELSE h[i - 1] \o ss[i]
      <4>1. PICK j \in 0 .. (n - 1) : i = j + 1 /\ i - 1 = j
        OBVIOUS
      <4>2. CASE j = 0
        BY <4>1, <4>2
      <4>3. CASE j # 0
        <5>1. h[j] = f[j]
          BY <4>1, <4>3
        <5>2. f[j + 1] = f[j] \o ss[j + 1]
          BY <1>4, Zenon
        <5>3. i # 1
          BY <4>1, <4>3
        <5>4. QED
          BY <4>1, <5>1, <5>2, <5>3, Zenon
      <4>4. QED
        BY <4>2, <4>3
    <3>2. h = [i \in 1 .. n |-> IF i = 1 THEN ss[i] ELSE h[i - 1] \o ss[i]]
      BY <3>1, Zenon
    <3>3. QED
      BY <1>6, <3>2, Zenon
  <2>2. P(value)
    <3> HIDE DEF P, h
    <3>1. QED
      BY <2>1
  <2>3. \A i \in 1 .. n : value[i] = IF i = 1 THEN ss[i] ELSE value[i - 1] \o ss[i]
    <3>1. ASSUME NEW g, P(g)
          PROVE  \A i \in 1 .. Len(ss) : g[i] = IF i = 1 THEN ss[i] ELSE g[i - 1] \o ss[i]
      BY <3>1, Zenon
    <3> HIDE DEF P
    <3>2. QED
      BY <1>6, <2>2, <3>1
  <2> HIDE DEF value
  <2>4. \A i \in Nat : i \in 1 .. n => value[i] = f[i]
    <3> DEFINE T == {i \in Nat : i \in 1 .. n => value[i] = f[i]}
    <3>1. 0 \in T
      OBVIOUS
    <3>2. ASSUME NEW i \in Nat, i \in T
          PROVE  i + 1 \in T
      <4> SUFFICES ASSUME i \in 0 .. (n - 1)
                   PROVE  value[i + 1] = f[i + 1]
        OBVIOUS
      <4>1. value[i + 1] = IF i = 0 THEN ss[i + 1] ELSE value[i] \o ss[i + 1]
        <5>1. (i + 1) - 1 = i /\ i + 1 \in 1 .. n /\ (i + 1 = 1 <=> i = 0)
          OBVIOUS
        <5>2. QED
          BY <2>3, <5>1
      <4>2. CASE i = 0
        BY <4>1, <4>2
      <4>3. CASE i # 0
        <5>1. value[i] = f[i]
          BY <3>2, <4>3
        <5>2. QED
          BY <1>4, <4>1, <4>3, <5>1
      <4>4. QED
        BY <4>2, <4>3
    <3>3. \A i \in Nat : i \in T
      <4> HIDE DEF T
      <4>1. QED
        BY <3>1, <3>2, SetInduction
    <3>4. QED
      BY <3>3
  <2>5. value[n] = f[n]
    BY <1>8, <2>4
  <2>6. FlattenSeq(ss) = value[n]
    BY <1>6, <1>8 DEF FlattenSeq, value
  <2>7. QED
    BY <1>5, <2>5, <2>6
<1>9. QED
  BY <1>7, <1>8

\* The filter leaves safe characters only, and of nothing it leaves nothing.
LEMMA Filtering ==
    ASSUME NEW s \in Seq(Chars)
    PROVE  Filtered(s) \in Seq(SafeChars) /\ (s = <<>> => Filtered(s) = <<>>)
<1> DEFINE n == Len(s)
           Step(i, v) == IF s[i] \in SafeChars THEN Append(v, s[i]) ELSE v
           step == [i \in 1 .. n |-> [v \in Seq(SafeChars) |-> Step(i, v)]]
           P(g) == g = [i \in 0 .. n |-> IF i = 0 THEN <<>> ELSE Step(i, g[i - 1])]
           kept == CHOOSE g : P(g)
<1>1. n \in Nat
  OBVIOUS
<1>2. \A i \in 1 .. n, v \in Seq(SafeChars) : Step(i, v) \in Seq(SafeChars)
  OBVIOUS
<1>3. Filtered(s) = kept[n]
  BY Zenon DEF Filtered
<1> HIDE DEF n, Step
<1>4. step \in [1 .. n -> [Seq(SafeChars) -> Seq(SafeChars)]] /\ <<>> \in Seq(SafeChars)
  BY <1>2
<1>5. PICK f \in [0 .. n -> Seq(SafeChars)] : Iterates(f, n, <<>>, step)
  <2> HIDE DEF step
  <2>1. QED
    BY <1>1, <1>4, PrimitiveRecursion
<1>6. P(f)
  <2>1. ASSUME NEW i \in 0 .. n
        PROVE  f[i] = IF i = 0 THEN <<>> ELSE Step(i, f[i - 1])
    <3>1. CASE i = 0
      BY <1>5, <3>1 DEF Iterates
    <3>2. CASE i # 0
      <4>1. i \in 1 .. n /\ f[i - 1] \in Seq(SafeChars)
        BY <1>1, <3>2
      <4>2. f[i] = step[i][f[i - 1]]
        <5> HIDE DEF step
        <5>1. QED
          BY <1>5, <4>1 DEF Iterates
      <4>3. QED
        BY <3>2, <4>1, <4>2
    <3>3. QED
      BY <3>1, <3>2
  <2>2. f = [i \in 0 .. n |-> f[i]]
    BY Zenon
  <2>3. QED
    BY <2>1, <2>2, Zenon
<1>7. P(kept)
  <2> HIDE DEF P
  <2>1. QED
    BY <1>6
<1>8. \A i \in 0 .. n : kept[i] = IF i = 0 THEN <<>> ELSE Step(i, kept[i - 1])
  <2>1. ASSUME NEW g, P(g)
        PROVE  \A i \in 0 .. n : g[i] = IF i = 0 THEN <<>> ELSE Step(i, g[i - 1])
    BY <2>1, Zenon
  <2> HIDE DEF P
  <2>2. QED
    BY <1>7, <2>1
<1> HIDE DEF kept
<1>9. \A i \in Nat : i <= n => kept[i] \in Seq(SafeChars)
  <2> DEFINE T == {i \in Nat : i <= n => kept[i] \in Seq(SafeChars)}
  <2>1. 0 \in T
    <3>1. kept[0] = <<>> /\ <<>> \in Seq(SafeChars)
      BY <1>1, <1>8
    <3>2. QED
      BY <3>1
  <2>2. ASSUME NEW i \in Nat, i \in T
        PROVE  i + 1 \in T
    <3> SUFFICES ASSUME i + 1 <= n
                 PROVE  kept[i + 1] \in Seq(SafeChars)
      OBVIOUS
    <3>1. i + 1 \in 1 .. n /\ i + 1 \in 0 .. n /\ (i + 1) - 1 = i /\ i + 1 # 0
      BY <1>1
    <3>2. kept[i] \in Seq(SafeChars)
      BY <1>1, <2>2
    <3>3. kept[i + 1] = Step(i + 1, kept[i])
      BY <1>8, <3>1
    <3>4. QED
      BY <1>2, <3>1, <3>2, <3>3
  <2>3. \A i \in Nat : i \in T
    <3> HIDE DEF T
    <3>1. QED
      BY <2>1, <2>2, SetInduction
  <2>4. QED
    BY <2>3
<1>10. n = 0 => kept[n] = <<>>
  BY <1>1, <1>8
<1>11. s = <<>> => n = 0
  BY DEF n
<1>12. QED
  BY <1>1, <1>3, <1>9, <1>10, <1>11

\* A label is never empty, never too long, and safe unless it is "unknown".
LEMMA Sanitizing ==
    ASSUME NEW s \in Seq(Chars)
    PROVE  /\ Len(sanitize_peer_name(s)) \in 1 .. MAX_PEER_NAME_CHARS
           /\ \/ sanitize_peer_name(s) = Unknown
              \/ \A i \in DOMAIN sanitize_peer_name(s) : sanitize_peer_name(s)[i] \in SafeChars
<1> DEFINE l == UpTo(MAX_PEER_NAME_CHARS, Filtered(s))
<1>1. l \in Seq(SafeChars) /\ Len(l) <= MAX_PEER_NAME_CHARS
  <2>1. PICK t \in Seq(SafeChars) : t = Filtered(s)
    BY Filtering
  <2>2. UpTo(MAX_PEER_NAME_CHARS, t) \in Seq(SafeChars)
        /\ Len(UpTo(MAX_PEER_NAME_CHARS, t)) <= MAX_PEER_NAME_CHARS
    BY LimitsAssumption DEF UpTo
  <2>3. QED
    BY <2>1, <2>2
<1>2. CASE l = <<>>
  <2>1. sanitize_peer_name(s) = Unknown
    BY <1>2 DEF sanitize_peer_name
  <2>2. Len(Unknown) = 1
    BY DEF Unknown
  <2>3. QED
    BY <2>1, <2>2, LimitsAssumption
<1>3. CASE l # <<>>
  <2>1. sanitize_peer_name(s) = l
    BY <1>3 DEF sanitize_peer_name
  <2> HIDE DEF l
  <2>2. Len(l) \in 1 .. MAX_PEER_NAME_CHARS /\ \A i \in DOMAIN l : l[i] \in SafeChars
    BY <1>1, <1>3, LimitsAssumption
  <2>3. QED
    BY <2>1, <2>2
<1>4. QED
  BY <1>2, <1>3

\* from_utf8 returns a text, whatever the bytes are.
LEMMA Decoding ==
    ASSUME NEW bytes, Len(bytes) \in Nat
    PROVE  from_utf8(bytes) \in Seq(Chars)
<1> DEFINE texts == {s \in BoundedSeq(Chars, Len(bytes)) : BytesOf(s) = bytes}
<1>1. \A s \in texts : s \in Seq(Chars)
  BY DEF BoundedSeq, SeqOf
<1>2. CASE texts = {}
  BY <1>2 DEF from_utf8
<1>3. CASE texts # {}
  <2>1. from_utf8(bytes) = CHOOSE s \in texts : TRUE
    BY <1>3, Zenon DEF from_utf8
  <2> HIDE DEF texts
  <2>2. QED
    BY <1>1, <1>3, <2>1
<1>4. QED
  BY <1>2, <1>3

\* f[i] is the bytes of the first i characters of s.
Spells(f, s) ==
    /\ f \in [0 .. Len(s) -> Seq(ByteSet)]
    /\ f[0] = <<>>
    /\ \A i \in 0 .. (Len(s) - 1) : f[i + 1] = f[i] \o CharBytes(s[i + 1])

\* The bytes of a character.
LEMMA CharacterBytes ==
    ASSUME NEW c \in Chars
    PROVE  /\ CharBytes(c) \in Seq(ByteSet) /\ Len(CharBytes(c)) = Width[c]
           /\ Width[c] \in Nat /\ Width[c] > 0 /\ CharBytes(c)[1] = <<c, 1>>
<1>1. Width[c] \in 1 .. 4
  BY WidthAssumption
<1>2. \A k \in 1 .. Width[c] : <<c, k>> \in ByteSet
  BY DEF ByteSet
<1>3. QED
  BY <1>1, <1>2 DEF CharBytes

\* BytesOf spells its argument.
LEMMA Spelling ==
    ASSUME NEW s \in Seq(Chars)
    PROVE  \E f : Spells(f, s) /\ BytesOf(s) = f[Len(s)]
<1> DEFINE ss == [i \in DOMAIN s |-> CharBytes(s[i])]
<1>1. Len(s) \in Nat /\ DOMAIN s = 1 .. Len(s) /\ \A i \in 1 .. Len(s) : s[i] \in Chars
  OBVIOUS
<1>2. ss \in [1 .. Len(s) -> Seq(ByteSet)]
  BY <1>1, CharacterBytes
<1>3. PICK f \in [0 .. Len(s) -> Seq(ByteSet)] :
              Concatenates(f, Len(s), ss) /\ FlattenSeq(ss) = f[Len(s)]
  <2> HIDE DEF ss
  <2>1. QED
    BY <1>1, <1>2, Flattening
<1>4. ASSUME NEW i \in 0 .. (Len(s) - 1)
      PROVE  f[i + 1] = f[i] \o CharBytes(s[i + 1])
  <2>1. i + 1 \in DOMAIN s
    BY <1>1
  <2>2. f[i + 1] = f[i] \o ss[i + 1]
    BY <1>3, Zenon DEF Concatenates
  <2>3. ss[i + 1] = CharBytes(s[i + 1])
    BY <2>1
  <2>4. QED
    BY <2>2, <2>3
<1>5. Spells(f, s)
  BY <1>3, <1>4, Zenon DEF Spells, Concatenates
<1>6. BytesOf(s) = f[Len(s)]
  BY <1>3, Zenon DEF BytesOf
<1>7. QED
  BY <1>5, <1>6

\* The bytes before one character are a prefix of those before a later one,
\* and the character's own first byte follows them.
LEMMA SpelledPrefix ==
    ASSUME NEW s \in Seq(Chars), NEW f, Spells(f, s), NEW i \in 0 .. Len(s), NEW j \in i .. Len(s)
    PROVE  /\ Len(f[i]) \in Nat /\ Len(f[j]) \in Nat
           /\ Len(f[i]) + (j - i) <= Len(f[j])
           /\ \A k \in 1 .. Len(f[i]) : f[j][k] = f[i][k]
<1>1. Len(s) \in Nat
  OBVIOUS
<1>2. ASSUME NEW m \in 0 .. Len(s)
      PROVE  f[m] \in Seq(ByteSet)
  BY Zenon DEF Spells
<1> DEFINE Extends(d, m) == /\ Len(f[i]) + d <= Len(f[m])
                            /\ \A k \in 1 .. Len(f[i]) : f[m][k] = f[i][k]
           T == {d \in Nat : i + d <= Len(s) => Extends(d, i + d)}
<1>3. 0 \in T
  BY <1>1, <1>2
<1>4. ASSUME NEW d \in Nat, d \in T
      PROVE  d + 1 \in T
  <2> SUFFICES ASSUME i + d \in 0 .. (Len(s) - 1)
               PROVE  Extends(d + 1, i + (d + 1))
    <3> HIDE DEF Extends
    <3>1. QED
      BY <1>1
  <2>1. PICK m \in 0 .. (Len(s) - 1) : m = i + d /\ i + (d + 1) = m + 1
    BY <1>1
  <2>2. PICK u \in Seq(ByteSet) : u = f[m]
    BY <1>1, <1>2
  <2>3. s[m + 1] \in Chars
    BY <1>1
  <2>4. PICK c \in Seq(ByteSet) : c = CharBytes(s[m + 1]) /\ Len(c) > 0
    BY <2>3, CharacterBytes
  <2>5. f[m + 1] = u \o c
    BY <2>2, <2>4, Zenon DEF Spells
  <2>6. PICK w \in Seq(ByteSet) : w = f[i]
    BY <1>2
  <2>7. Len(w) + d <= Len(u) /\ \A k \in 1 .. Len(w) : u[k] = w[k]
    BY <1>1, <1>4, <2>1, <2>2, <2>6
  <2>8. Len(w) + (d + 1) <= Len(u \o c) /\ \A k \in 1 .. Len(w) : (u \o c)[k] = w[k]
    BY <2>4, <2>7
  <2>9. QED
    BY <2>1, <2>5, <2>6, <2>8
<1>5. \A d \in Nat : d \in T
  <2> HIDE DEF T
  <2>1. QED
    BY <1>3, <1>4, SetInduction
<1>6. Extends(j - i, j)
  <2>1. j - i \in Nat /\ i + (j - i) = j /\ j <= Len(s)
    BY <1>1
  <2> HIDE DEF Extends
  <2>2. QED
    BY <1>5, <2>1
<1>7. QED
  BY <1>1, <1>2, <1>6

\* There is only one way to spell a text.
LEMMA SpellingUnique ==
    ASSUME NEW s \in Seq(Chars), NEW f, Spells(f, s)
    PROVE  BytesOf(s) = f[Len(s)]
<1>1. PICK g : Spells(g, s) /\ BytesOf(s) = g[Len(s)]
  BY Spelling
<1>2. Len(s) \in Nat
  OBVIOUS
<1> DEFINE T == {i \in Nat : i <= Len(s) => g[i] = f[i]}
<1>3. 0 \in T
  BY <1>1 DEF Spells
<1>4. ASSUME NEW i \in Nat, i \in T
      PROVE  i + 1 \in T
  <2> SUFFICES ASSUME i \in 0 .. (Len(s) - 1)
               PROVE  g[i + 1] = f[i + 1]
    BY <1>2
  <2>1. g[i] = f[i]
    BY <1>2, <1>4
  <2>2. g[i + 1] = g[i] \o CharBytes(s[i + 1]) /\ f[i + 1] = f[i] \o CharBytes(s[i + 1])
    BY <1>1, Zenon DEF Spells
  <2>3. QED
    BY <2>1, <2>2
<1>5. \A i \in Nat : i \in T
  <2> HIDE DEF T
  <2>1. QED
    BY <1>3, <1>4, SetInduction
<1>6. QED
  BY <1>1, <1>2, <1>5

\* What spells a text spells the parts it begins with.
LEMMA SpellingOfPart ==
    ASSUME NEW s \in Seq(Chars), NEW f, Spells(f, s), NEW i \in 0 .. Len(s)
    PROVE  SubSeq(s, 1, i) \in Seq(Chars) /\ BytesOf(SubSeq(s, 1, i)) = f[i]
<1> DEFINE p == SubSeq(s, 1, i)
           h == [m \in 0 .. i |-> f[m]]
<1>1. p \in Seq(Chars) /\ Len(p) = i /\ Len(s) \in Nat /\ \A m \in 1 .. i : p[m] = s[m]
  OBVIOUS
<1>2. Spells(h, p)
  <2>1. h \in [0 .. i -> Seq(ByteSet)]
    BY <1>1 DEF Spells
  <2>2. h[0] = <<>>
    BY DEF Spells
  <2>3. ASSUME NEW m \in 0 .. (i - 1)
        PROVE  h[m + 1] = h[m] \o CharBytes(p[m + 1])
    <3>1. /\ m \in 0 .. (Len(s) - 1) /\ m \in 0 .. i /\ m + 1 \in 0 .. i /\ m + 1 \in 1 .. i
      BY <1>1
    <3>2. f[m + 1] = f[m] \o CharBytes(s[m + 1])
      BY <3>1, Zenon DEF Spells
    <3>3. h[m] = f[m] /\ h[m + 1] = f[m + 1] /\ p[m + 1] = s[m + 1]
      BY <1>1, <3>1
    <3>4. QED
      BY <3>2, <3>3, Zenon
  <2> HIDE DEF h, p
  <2>4. QED
    BY <1>1, <2>1, <2>2, <2>3 DEF Spells
<1>3. h[i] = f[i]
  OBVIOUS
<1> HIDE DEF h, p
<1>4. BytesOf(p) = f[i]
  BY <1>1, <1>2, <1>3, SpellingUnique
<1>5. QED
  BY <1>1, <1>4 DEF p

\* The first byte of a character tells which one it is.
LEMMA NextByte ==
    ASSUME NEW s \in Seq(Chars), NEW f, Spells(f, s), NEW i \in 0 .. (Len(s) - 1)
    PROVE  /\ Len(f[i]) \in Nat /\ Len(f[i]) < Len(f[i + 1]) /\ Len(f[i + 1]) <= Len(f[Len(s)])
           /\ f[Len(s)][Len(f[i]) + 1] = <<s[i + 1], 1>>
<1>1. /\ Len(s) \in Nat /\ i + 1 \in 0 .. Len(s) /\ Len(s) \in (i + 1) .. Len(s)
      /\ i \in 0 .. Len(s) /\ i + 1 \in i .. Len(s) /\ s[i + 1] \in Chars
  OBVIOUS
<1>2. PICK u \in Seq(ByteSet) : u = f[i]
  BY <1>1 DEF Spells
<1>3. PICK c \in Seq(ByteSet) : c = CharBytes(s[i + 1]) /\ Len(c) > 0 /\ c[1] = <<s[i + 1], 1>>
  BY <1>1, CharacterBytes
<1>4. f[i + 1] = u \o c
  BY <1>2, <1>3, Zenon DEF Spells
<1>5. Len(u \o c) = Len(u) + Len(c) /\ (u \o c)[Len(u) + 1] = c[1]
  BY <1>3
<1>6. /\ Len(f[i + 1]) + (Len(s) - (i + 1)) <= Len(f[Len(s)]) /\ Len(f[Len(s)]) \in Nat
      /\ \A k \in 1 .. Len(f[i + 1]) : f[Len(s)][k] = f[i + 1][k]
  BY <1>1, SpelledPrefix
<1>7. Len(f[i + 1]) = Len(u) + Len(c) /\ f[i + 1][Len(u) + 1] = <<s[i + 1], 1>>
  BY <1>3, <1>4, <1>5
<1>8. Len(u) \in Nat /\ Len(c) \in Nat /\ Len(u) + 1 \in 1 .. Len(f[i + 1])
  BY <1>3, <1>7
<1>9. f[Len(s)][Len(u) + 1] = <<s[i + 1], 1>>
  BY <1>6, <1>7, <1>8
<1>10. PICK x \in Nat : x = Len(f[i + 1]) /\ x = Len(u) + Len(c)
  BY <1>7, <1>8
<1>11. Len(u) < x /\ x <= Len(f[Len(s)])
  <2>1. PICK l \in Nat : l = Len(s) - (i + 1)
    <3>1. PICK n \in Nat : n = Len(s)
      BY <1>1
    <3>2. n - (i + 1) \in Nat
      BY <3>1
    <3>3. QED
      BY <3>1, <3>2
  <2>2. PICK y \in Nat : y = Len(f[Len(s)])
    BY <1>6
  <2>3. x + l <= y
    BY <1>6, <1>10, <2>1, <2>2
  <2>4. QED
    BY <1>3, <1>8, <1>10, <2>2, <2>3
<1>12. QED
  BY <1>2, <1>8, <1>9, <1>10, <1>11

Agree(f, s, g, t, N) ==
    /\ N <= Len(f[Len(s)]) /\ N <= Len(g[Len(t)])
    /\ \A k \in 1 .. N : f[Len(s)][k] = g[Len(t)][k]

\* Two texts whose bytes agree up to N have the same characters up to there.
LEMMA CommonPrefix ==
    ASSUME NEW s \in Seq(Chars), NEW f, Spells(f, s),
           NEW t \in Seq(Chars), NEW g, Spells(g, t),
           NEW N \in Nat, Agree(f, s, g, t, N),
           NEW i \in 0 .. Len(s), Len(f[i]) <= N
    PROVE  i <= Len(t) /\ g[i] = f[i] /\ \A k \in 1 .. i : t[k] = s[k]
<1>0. /\ N <= Len(f[Len(s)]) /\ N <= Len(g[Len(t)])
      /\ \A k \in 1 .. N : f[Len(s)][k] = g[Len(t)][k]
  BY DEF Agree
<1>1. Len(s) \in Nat /\ Len(t) \in Nat
  OBVIOUS
<1> DEFINE Same(m) == m <= Len(t) /\ g[m] = f[m] /\ \A k \in 1 .. m : t[k] = s[k]
           T == {m \in Nat : m <= Len(s) /\ Len(f[m]) <= N => Same(m)}
<1>2. 0 \in T
  BY <1>1 DEF Spells
<1>3. ASSUME NEW m \in Nat, m \in T
      PROVE  m + 1 \in T
  <2> SUFFICES ASSUME m \in 0 .. (Len(s) - 1), Len(f[m + 1]) <= N
               PROVE  Same(m + 1)
    <3> HIDE DEF Same
    <3>1. QED
      BY <1>1
  <2>1. /\ Len(f[m]) \in Nat /\ Len(f[m]) < Len(f[m + 1])
        /\ f[Len(s)][Len(f[m]) + 1] = <<s[m + 1], 1>>
    BY NextByte
  <2>2. PICK l \in Nat : l = Len(f[m]) /\ l + 1 \in 1 .. N
    <3>1. Len(f[m + 1]) \in Nat
      <4>1. f[m + 1] \in Seq(ByteSet)
        BY <1>1 DEF Spells
      <4>2. QED
        BY <4>1
    <3>2. QED
      BY <2>1, <3>1
  <2>3. Same(m)
    <3> HIDE DEF Same
    <3>1. QED
      BY <1>1, <1>3, <2>2
  <2>4. m \in 0 .. (Len(t) - 1)
    <3>1. m # Len(t)
      <4> SUFFICES ASSUME m = Len(t)
                   PROVE  FALSE
        OBVIOUS
      <4>1. Len(g[Len(t)]) = l
        BY <2>2, <2>3
      <4>2. QED
        BY <1>0, <2>2, <4>1
    <3>2. QED
      BY <1>1, <2>3, <3>1
  <2>5. g[Len(t)][Len(g[m]) + 1] = <<t[m + 1], 1>>
    BY <2>4, NextByte
  <2>6. t[m + 1] = s[m + 1]
    <3>1. f[Len(s)][l + 1] = g[Len(t)][l + 1]
      BY <1>0, <2>2
    <3>2. <<t[m + 1], 1>> = <<s[m + 1], 1>>
      BY <2>1, <2>2, <2>3, <2>5, <3>1
    <3>3. QED
      BY <3>2
  <2>7. g[m + 1] = f[m + 1]
    <3>1. g[m + 1] = g[m] \o CharBytes(t[m + 1])
      BY <2>4, Zenon DEF Spells
    <3>2. f[m + 1] = f[m] \o CharBytes(s[m + 1])
      BY Zenon DEF Spells
    <3>3. QED
      BY <2>3, <2>6, <3>1, <3>2
  <2>8. \A k \in 1 .. (m + 1) : t[k] = s[k]
    BY <2>3, <2>6
  <2>9. QED
    BY <1>1, <2>4, <2>7, <2>8
<1>4. \A m \in Nat : m \in T
  <2> HIDE DEF T
  <2>1. QED
    BY <1>2, <1>3, SetInduction
<1>5. Same(i)
  <2> HIDE DEF Same
  <2>1. QED
    BY <1>1, <1>4
<1>6. QED
  BY <1>5

\* Different texts have different bytes.
LEMMA SpellingInjective ==
    ASSUME NEW s \in Seq(Chars), NEW t \in Seq(Chars), BytesOf(s) = BytesOf(t)
    PROVE  s = t
<1>1. PICK f : Spells(f, s) /\ BytesOf(s) = f[Len(s)]
  BY Spelling
<1>2. PICK g : Spells(g, t) /\ BytesOf(t) = g[Len(t)]
  BY Spelling
<1>3. Len(s) \in 0 .. Len(s) /\ Len(t) \in 0 .. Len(t)
  OBVIOUS
<1>4. PICK N \in Nat : N = Len(f[Len(s)])
  BY <1>1, <1>3, SpelledPrefix
<1>5. f[Len(s)] = g[Len(t)] /\ N = Len(g[Len(t)])
  BY <1>1, <1>2, <1>4
<1>6. Len(s) <= Len(t) /\ \A k \in 1 .. Len(s) : t[k] = s[k]
  <2>1. Agree(f, s, g, t, N) /\ Len(f[Len(s)]) <= N
    BY <1>4, <1>5 DEF Agree
  <2>2. QED
    BY <1>1, <1>2, <1>3, <2>1, CommonPrefix
<1>7. Len(t) <= Len(s)
  <2>1. Agree(g, t, f, s, N) /\ Len(g[Len(t)]) <= N
    BY <1>4, <1>5 DEF Agree
  <2>2. QED
    BY <1>1, <1>2, <1>3, <2>1, CommonPrefix
<1>8. QED
  BY <1>6, <1>7

\* A set of numbers up to n has a largest.
LEMMA LargestExists ==
    ASSUME NEW n \in Nat, NEW S \in SUBSET (0 .. n), 0 \in S
    PROVE  \E m \in S : \A k \in S : k <= m
<1> DEFINE T == {b \in Nat : (\E k \in S : k + b >= n) => \E m \in S : \A k \in S : k <= m}
<1>1. 0 \in T
  OBVIOUS
<1>2. ASSUME NEW b \in Nat, b \in T
      PROVE  b + 1 \in T
  <2> SUFFICES ASSUME NEW k \in S, k + (b + 1) >= n
               PROVE  \E m \in S : \A j \in S : j <= m
    OBVIOUS
  <2>1. CASE \E j \in S : j + b >= n
    BY <1>2, <2>1
  <2>2. CASE ~ \E j \in S : j + b >= n
    <3>1. \A j \in S : j <= k
      BY <2>2
    <3>2. QED
      BY <3>1
  <2>3. QED
    BY <2>1, <2>2
<1>3. \A b \in Nat : b \in T
  <2> HIDE DEF T
  <2>1. QED
    BY <1>1, <1>2, SetInduction
<1>4. 0 + n >= n
  OBVIOUS
<1>5. QED
  BY <1>3, <1>4

\* What the server decodes of a name that was cut: the characters that fit, or
\* nothing if the cut goes through one.
LEMMA CutName ==
    ASSUME NEW name \in Seq(Chars)
    PROVE  /\ Fitting(name) \in Seq(Chars)
           /\ Len(BytesOf(Fitting(name))) < Len(NameBytes(name)) => from_utf8(NameBytes(name)) = <<>>
           /\ ~ (Len(BytesOf(Fitting(name))) < Len(NameBytes(name))) =>
                  from_utf8(NameBytes(name)) = Fitting(name)
<1> DEFINE M == MAX_HANDSHAKE_NAME_LEN
           n == Len(name)
           fit == {i \in 0 .. n : Len(BytesOf(SubSeq(name, 1, i))) <= M}
           m == CHOOSE i \in fit : \A k \in fit : k <= i
           nb == NameBytes(name)
           texts == {s \in BoundedSeq(Chars, Len(nb)) : BytesOf(s) = nb}
<1>1. n \in Nat /\ M \in Nat
  BY LimitsAssumption
<1>2. PICK f : Spells(f, name) /\ BytesOf(name) = f[n]
  BY Spelling
<1>3. \A i \in 0 .. n : f[i] \in Seq(ByteSet) /\ BytesOf(SubSeq(name, 1, i)) = f[i]
  BY <1>2, SpellingOfPart DEF Spells
<1>4. m \in fit /\ \A k \in fit : k <= m
  <2>1. 0 \in fit
    <3>1. f[0] = <<>> /\ 0 \in 0 .. n
      BY <1>1, <1>2 DEF Spells
    <3>2. Len(<<>>) <= M
      BY <1>1
    <3>3. QED
      BY <1>3, <3>1, <3>2
  <2>2. fit \in SUBSET (0 .. n)
    OBVIOUS
  <2> HIDE DEF fit, n
  <2>3. QED
    BY <1>1, <2>1, <2>2, LargestExists
<1>5. Fitting(name) = SubSeq(name, 1, m)
  BY Zenon DEF Fitting
<1> HIDE DEF m
<1>6. /\ m \in 0 .. n /\ BytesOf(Fitting(name)) = f[m] /\ Len(f[m]) <= M
      /\ Fitting(name) \in Seq(Chars) /\ Len(Fitting(name)) = m
  BY <1>1, <1>3, <1>4, <1>5
<1>7. PICK b \in Seq(ByteSet) : b = f[n]
  BY <1>1, <1>3
<1>8. /\ nb \in Seq(ByteSet) /\ Len(nb) <= M /\ Len(nb) <= Len(b)
      /\ Len(nb) = M \/ Len(nb) = Len(b)
      /\ \A k \in 1 .. Len(nb) : nb[k] = b[k]
  <2>1. nb = IF Len(b) < M THEN b ELSE SubSeq(b, 1, M)
    BY <1>2, <1>7 DEF NameBytes, UpTo
  <2> HIDE DEF nb
  <2>2. CASE Len(b) < M
    BY <1>1, <2>1, <2>2
  <2>3. CASE ~ (Len(b) < M)
    BY <1>1, <2>1, <2>3
  <2>4. QED
    BY <2>2, <2>3
<1>9. \A t \in texts : t \in Seq(Chars) /\ BytesOf(t) = nb
  BY DEF BoundedSeq, SeqOf
<1>10. from_utf8(nb) = IF texts = {} THEN <<>> ELSE CHOOSE s \in texts : TRUE
  BY Zenon DEF from_utf8
<1>11. PICK w \in Seq(ByteSet) : w = f[m]
  BY <1>3, <1>6
<1>12. m <= Len(w) /\ Len(w) <= Len(b) /\ \A k \in 1 .. Len(w) : b[k] = w[k]
  <2>1. n \in m .. n /\ m \in 0 .. m /\ 0 \in 0 .. n /\ m \in 0 .. n
    BY <1>1, <1>6
  <2>2. Len(f[m]) + (n - m) <= Len(f[n]) /\ \A k \in 1 .. Len(f[m]) : f[n][k] = f[m][k]
    BY <1>2, <2>1, SpelledPrefix
  <2>3. Len(f[0]) + (m - 0) <= Len(f[m])
    BY <1>2, <2>1, SpelledPrefix
  <2>4. f[0] = <<>>
    BY <1>2 DEF Spells
  <2>5. Len(w) + (n - m) <= Len(b) /\ \A k \in 1 .. Len(w) : b[k] = w[k]
    BY <1>7, <1>11, <2>2
  <2>6. m <= Len(w)
    BY <1>6, <1>11, <2>3, <2>4
  <2> HIDE DEF n
  <2>7. QED
    BY <1>1, <1>6, <2>5, <2>6
<1> HIDE DEF nb, texts, fit, n, M
<1>13. CASE ~ (Len(f[m]) < Len(nb))
  <2>1. Len(w) = Len(nb)
    BY <1>6, <1>8, <1>11, <1>12, <1>13, <1>1
  <2>2. w = nb
    <3>1. \A k \in 1 .. Len(w) : w[k] = nb[k]
      BY <1>8, <1>12, <2>1
    <3>2. QED
      BY <1>8, <2>1, <3>1
  <2>3. Fitting(name) \in texts
    <3>1. Fitting(name) \in BoundedSeq(Chars, Len(nb))
      <4>1. m \in 0 .. Len(nb)
        BY <1>1, <1>6, <1>12, <2>1
      <4>2. Fitting(name) \in [1 .. m -> Chars]
        BY <1>6
      <4>3. QED
        BY <4>1, <4>2 DEF BoundedSeq, SeqOf
    <3>2. QED
      BY <1>6, <1>11, <2>2, <3>1 DEF texts
  <2>4. \A t \in texts : t = Fitting(name)
    BY <1>6, <1>9, <1>11, <2>2, SpellingInjective
  <2>5. from_utf8(nb) = Fitting(name)
    BY <1>10, <2>3, <2>4
  <2>6. QED
    BY <1>6, <1>13, <2>5 DEF nb
<1>14. CASE Len(f[m]) < Len(nb)
  <2>1. SUFFICES ASSUME NEW t \in texts
                 PROVE  FALSE
    BY <1>6, <1>10, <1>14 DEF nb
  <2>2. PICK g : Spells(g, t) /\ g[Len(t)] = nb
    BY <1>9, Spelling
  <2>3. PICK N \in Nat : N = Len(nb)
    BY <1>8
  <2>4. PICK l \in Nat : l = Len(t)
    BY <1>9
  <2>5. m <= l /\ g[m] = f[m]
    <3>1. /\ m \in 0 .. Len(name) /\ Len(f[m]) <= N
      BY <1>6, <1>11, <1>14, <2>3 DEF n
    <3>2. Agree(f, name, g, t, N)
      BY <1>7, <1>8, <2>2, <2>3 DEF n, Agree
    <3>3. t \in Seq(Chars) /\ Spells(f, name)
      BY <1>2, <1>9
    <3>4. QED
      BY <2>2, <2>4, <3>1, <3>2, <3>3, CommonPrefix
  <2>6. m < l
    <3>1. m # l
      BY <1>14, <2>2, <2>4, <2>5, <1>11, <1>8
    <3>2. QED
      BY <1>1, <1>6, <2>5, <3>1
  <2>7. m + 1 <= n /\ f[m + 1] = g[m + 1] /\ Len(g[m + 1]) <= N
    <3>1. m + 1 \in 0 .. Len(t) /\ Len(t) \in (m + 1) .. Len(t)
      BY <1>1, <1>6, <2>4, <2>6
    <3>2. PICK v \in Nat : v = Len(g[m + 1])
      BY <1>9, <2>2, <3>1, SpelledPrefix
    <3>3. v <= N
      <4>1. Len(g[m + 1]) + (Len(t) - (m + 1)) <= Len(g[Len(t)])
        BY <1>9, <2>2, <3>1, SpelledPrefix
      <4>2. v + (l - (m + 1)) <= N
        BY <2>2, <2>3, <2>4, <3>2, <4>1
      <4>3. m \in Nat
        BY <1>1, <1>6
      <4>4. QED
        BY <2>6, <4>2, <4>3
    <3>4. Agree(g, t, f, name, N)
      BY <1>7, <1>8, <2>2, <2>3 DEF n, Agree
    <3>5. t \in Seq(Chars) /\ Spells(f, name) /\ Len(g[m + 1]) <= N
      BY <1>2, <1>9, <3>2, <3>3
    <3>6. QED
      BY <2>2, <3>1, <3>4, <3>5, CommonPrefix DEF n
  <2>8. m + 1 \in fit
    <3>1. m + 1 \in 0 .. n /\ N <= M
      BY <1>1, <1>6, <1>8, <2>3, <2>7
    <3>2. BytesOf(SubSeq(name, 1, m + 1)) = f[m + 1] /\ f[m + 1] \in Seq(ByteSet)
      BY <1>3, <3>1
    <3>3. Len(f[m + 1]) <= M
      <4>1. Len(f[m + 1]) \in Nat
        BY <3>2
      <4>2. QED
        BY <1>1, <2>7, <3>1, <4>1
    <3>4. QED
      BY <3>1, <3>2, <3>3 DEF fit, M, n
  <2>9. QED
    BY <1>1, <1>4, <1>6, <2>8
<1>15. QED
  BY <1>13, <1>14

-----------------------------------------------------------------------------
(***************************************************************************)
(* The inductive invariant.                                                *)
(***************************************************************************)

\* The stream is a node's handshake and a heartbeat, or a prefix and bytes.
Streams ==
    \/ /\ client \in Seq(Chars) /\ client # <<>>
       /\ stream = send_handshake(client) \o <<Heartbeat>>
    \/ /\ client = NoLabel
       /\ \E n \in Nat, bytes \in Seq(ByteSet) : stream = <<<<"length", n>>>> \o bytes

\* The server is where its position in the stream says.
Position ==
    /\ delivered \in 0 .. Len(stream)
    /\ consumed \in 0 .. delivered
    /\ pc \in {"length", "name", "session", "invalid", "eof", "timed out"}
    /\ consumed <= 1 + NameLen
    /\ pc = "length" => consumed = 0
    /\ pc = "name" => consumed <= NameLen
    /\ pc = "session" => consumed = NameLen + 1
    /\ pc = "invalid" => ~ValidLength(NameLen)

Received == SubSeq(stream, 2, NameLen + 1)

\* There is a label once the name has been read, and it is of what was read.
Labelled ==
    label = IF pc = "session" THEN sanitize_peer_name(from_utf8(Received)) ELSE NoLabel

IInv == Streams /\ Position /\ Labelled /\ closed \in BOOLEAN

\* A node sends at least one byte of its name, and no more than the limit.
LEMMA NameFits ==
    ASSUME NEW name \in Seq(Chars), name # <<>>
    PROVE  NameBytes(name) \in Seq(ByteSet) /\ Len(NameBytes(name)) \in 1 .. MAX_HANDSHAKE_NAME_LEN
<1>1. PICK f : Spells(f, name) /\ BytesOf(name) = f[Len(name)]
  BY Spelling
<1>2. Len(name) \in Nat /\ Len(name) > 0 /\ 0 \in 0 .. Len(name) /\ Len(name) \in 0 .. Len(name)
  OBVIOUS
<1>3. PICK b \in Seq(ByteSet) : b = BytesOf(name)
  BY <1>1, <1>2 DEF Spells
<1>4. Len(b) > 0
  <2>1. Len(f[0]) + (Len(name) - 0) <= Len(f[Len(name)])
    BY <1>1, <1>2, SpelledPrefix
  <2>2. Len(f[0]) = 0
    BY <1>1 DEF Spells
  <2>3. QED
    BY <1>1, <1>2, <1>3, <2>1, <2>2
<1>5. PICK M \in Nat \ {0} : M = MAX_HANDSHAKE_NAME_LEN
  BY LimitsAssumption
<1>6. NameBytes(name) = IF Len(b) < M THEN b ELSE SubSeq(b, 1, M)
  BY <1>3, <1>5 DEF NameBytes, UpTo
<1>7. CASE Len(b) < M
  BY <1>4, <1>5, <1>6, <1>7
<1>8. CASE ~ (Len(b) < M)
  BY <1>4, <1>5, <1>6, <1>8
<1>9. QED
  BY <1>7, <1>8

\* Where the parts of a stream are.
LEMMA Framing ==
    ASSUME Streams
    PROVE  /\ NameLen \in Nat /\ Len(stream) \in Nat
           /\ IsNode => /\ client \in Seq(Chars)
                        /\ ValidLength(NameLen)
                        /\ Received = NameBytes(client)
                        /\ SubSeq(stream, NameLen + 2, Len(stream)) = <<Heartbeat>>
<1> DEFINE S == ByteSet \cup {<<"length", n>> : n \in Nat} \cup {Heartbeat}
<1>1. CASE IsNode
  <2>1. /\ client \in Seq(Chars) /\ client # <<>>
        /\ stream = send_handshake(client) \o <<Heartbeat>>
    BY <1>1 DEF Streams, IsNode, NoLabel
  <2>2. PICK b \in Seq(ByteSet) : b = NameBytes(client)
    BY <2>1, NameFits
  <2>3. PICK l \in 1 .. MAX_HANDSHAKE_NAME_LEN : l = Len(b)
    BY <2>1, <2>2, NameFits
  <2>4. l \in Nat /\ ValidLength(l)
    BY <2>3, LimitsAssumption DEF ValidLength
  <2>5. stream = <<<<"length", l>>>> \o b \o <<Heartbeat>>
    <3>1. Len(UpTo(MAX_HANDSHAKE_NAME_LEN, BytesOf(client))) = l
      BY <2>2, <2>3 DEF NameBytes
    <3>2. QED
      BY <2>1, <2>2, <3>1 DEF send_handshake
  <2>6. b \in Seq(S) /\ <<"length", l>> \in S /\ Heartbeat \in S
    BY <2>4
  <2> HIDE DEF S
  <2>7. /\ stream \in Seq(S) /\ Len(stream) = l + 2 /\ stream[1] = <<"length", l>>
        /\ \A k \in 1 .. l : stream[k + 1] = b[k]
        /\ stream[l + 2] = Heartbeat
    BY <2>3, <2>4, <2>5, <2>6
  <2>8. NameLen = l
    BY <2>7 DEF NameLen
  <2>9. SubSeq(stream, 2, l + 1) = b
    <3>1. SubSeq(stream, 2, l + 1) \in Seq(S) /\ Len(SubSeq(stream, 2, l + 1)) = l
      BY <2>4, <2>7
    <3>2. \A k \in 1 .. l : SubSeq(stream, 2, l + 1)[k] = b[k]
      BY <2>4, <2>7
    <3>3. QED
      BY <2>3, <2>6, <3>1, <3>2
  <2>10. SubSeq(stream, l + 2, Len(stream)) = <<Heartbeat>>
    <3> DEFINE rest == SubSeq(stream, l + 2, l + 2)
    <3>1. rest \in Seq(S) /\ Len(rest) = 1 /\ rest[1] = Heartbeat
      BY <2>4, <2>7
    <3> HIDE DEF rest
    <3>2. rest = <<Heartbeat>>
      BY <2>6, <3>1
    <3>3. QED
      BY <2>7, <3>2 DEF rest
  <2>11. QED
    BY <2>1, <2>2, <2>4, <2>7, <2>8, <2>9, <2>10 DEF Received
<1>2. CASE ~IsNode
  <2>1. PICK n \in Nat, bytes \in Seq(ByteSet) : stream = <<<<"length", n>>>> \o bytes
    BY <1>2 DEF Streams, IsNode, NoLabel
  <2>2. bytes \in Seq(S) /\ <<"length", n>> \in S
    OBVIOUS
  <2> HIDE DEF S
  <2>3. stream \in Seq(S) /\ stream[1] = <<"length", n>>
    BY <2>1, <2>2
  <2>4. QED
    BY <1>2, <2>3 DEF NameLen
<1>3. QED
  BY <1>1, <1>2

-----------------------------------------------------------------------------
(***************************************************************************)
(* The invariant holds.                                                    *)
(***************************************************************************)

\* It holds before anything has arrived.
LEMMA InitHolds ==
    ASSUME Init
    PROVE  IInv
<1>1. Streams
  <2>1. CASE \E name \in NodeNames : client = name /\ stream = send_handshake(name) \o <<Heartbeat>>
    <3>1. NodeNames \subseteq Seq(Chars) \ {<<>>}
      BY BoundsAssumption DEF NodeNames, BoundedSeq, SeqOf
    <3>2. QED
      BY <2>1, <3>1 DEF Streams
  <2>2. CASE \E n \in 0 .. (MAX_HANDSHAKE_NAME_LEN + 1), bytes \in Foreign :
                client = NoLabel /\ stream = <<<<"length", n>>>> \o bytes
    <3>1. Foreign \subseteq Seq(ByteSet)
      BY BoundsAssumption DEF Foreign, BoundedSeq, SeqOf
    <3>2. 0 .. (MAX_HANDSHAKE_NAME_LEN + 1) \subseteq Nat
      BY LimitsAssumption
    <3>3. QED
      BY <2>2, <3>1, <3>2 DEF Streams
  <2>3. QED
    BY <2>1, <2>2 DEF Init
<1>2. Position
  <2>1. NameLen \in Nat /\ Len(stream) \in Nat
    BY <1>1, Framing
  <2>2. QED
    BY <2>1 DEF Init, Position
<1>3. QED
  BY <1>1, <1>2 DEF Init, IInv, Labelled

\* Every step keeps it.
LEMMA StepHolds ==
    ASSUME IInv, [Next]_vars
    PROVE  IInv'
<1> USE DEF IInv
<1>1. UNCHANGED <<client, stream>>
  BY DEF Next, vars, Deliver, CloseStream, ReadLength, ReadName, ReadEof, TimedOut, Finished
<1>2. Streams' /\ NameLen' = NameLen /\ Len(stream') = Len(stream) /\ Received' = Received
  BY <1>1 DEF Streams, NameLen, Received
<1>3. PICK len \in Nat, size \in Nat : len = NameLen /\ size = Len(stream)
  BY Framing
<1> DEFINE Pos(d, c, p) ==
             /\ d \in 0 .. size /\ c \in 0 .. d
             /\ p \in {"length", "name", "session", "invalid", "eof", "timed out"}
             /\ c <= 1 + len
             /\ p = "length" => c = 0
             /\ p = "name" => c <= len
             /\ p = "session" => c = len + 1
             /\ p = "invalid" => ~ValidLength(len)
<1>4. Pos(delivered, consumed, pc)
  BY <1>3 DEF Position
<1>5. PICK d \in Nat, c \in Nat : d = delivered /\ c = consumed
  <2>1. delivered \in 0 .. size
    BY <1>4
  <2>2. consumed \in 0 .. delivered
    BY <1>4
  <2>3. delivered \in Nat
    BY <2>1
  <2>4. consumed \in Nat
    BY <2>2, <2>3
  <2>5. QED
    BY <2>3, <2>4
<1>6. ASSUME Pos(delivered', consumed', pc')
      PROVE  Position'
  BY <1>2, <1>3, <1>6 DEF Position
<1>7. ASSUME UNCHANGED label, pc # "session", pc' # "session"
      PROVE  Labelled'
  BY <1>7 DEF Labelled, NoLabel
<1>8. ASSUME UNCHANGED <<pc, label>>
      PROVE  Labelled'
  BY <1>2, <1>8 DEF Labelled
<1>9. CASE UNCHANGED vars
  BY <1>2, <1>4, <1>6, <1>8, <1>9 DEF vars
<1>10. CASE Finished
  BY <1>9, <1>10 DEF Finished
<1>11. CASE Deliver
  <2>1. PICK e \in (d + 1) .. size : e = delivered'
    BY <1>5, <1>3, <1>11 DEF Deliver
  <2>2. d \in 0 .. size /\ c \in 0 .. d
    BY <1>5, <1>4
  <2>3. e \in 0 .. size /\ c \in 0 .. e
    BY <2>1, <2>2
  <2>4. Pos(e, c, pc)
    BY <1>5, <1>4, <2>3
  <2> HIDE DEF Pos
  <2>5. QED
    BY <1>5, <1>2, <1>6, <1>8, <1>11, <2>1, <2>4 DEF Deliver
<1>12. CASE CloseStream
  BY <1>2, <1>4, <1>6, <1>8, <1>12 DEF CloseStream
<1>13. CASE ReadLength
  <2>1. Pos(delivered', consumed', pc')
    BY <1>3, <1>4, <1>13 DEF ReadLength, ValidLength
  <2>2. QED
    BY <1>2, <1>6, <1>7, <1>13, <2>1 DEF ReadLength
<1>14. CASE ReadName
  <2>1. PICK upto \in (consumed + 1) .. delivered :
          /\ upto <= NameEnd
          /\ consumed' = upto
          /\ IF upto = NameEnd
             THEN pc' = "session" /\ label' = sanitize_peer_name(from_utf8(Received))
             ELSE UNCHANGED <<pc, label>>
    BY <1>14 DEF ReadName, Received
  <2>2. pc = "name" /\ UNCHANGED <<delivered, closed>> /\ NameEnd = len + 1
    BY <1>3, <1>14 DEF ReadName, NameEnd
  <2>3. Pos(delivered', consumed', pc')
    <3>1. d \in 0 .. size /\ c \in 0 .. d
      BY <1>5, <1>4
    <3>2. upto \in (c + 1) .. d /\ upto <= len + 1
      BY <1>5, <2>1, <2>2
    <3>3. upto \in 0 .. d /\ upto <= 1 + len /\ (upto # len + 1 => upto <= len)
      BY <3>1, <3>2
    <3>4. Pos(d, upto, IF upto = len + 1 THEN "session" ELSE pc)
      BY <2>2, <3>1, <3>3
    <3> HIDE DEF Pos
    <3>5. QED
      BY <1>5, <2>1, <2>2, <3>4
  <2>4. Labelled'
    <3>1. CASE upto = NameEnd
      BY <1>2, <2>1, <3>1 DEF Labelled
    <3>2. CASE upto # NameEnd
      BY <1>8, <2>1, <3>2
    <3>3. QED
      BY <3>1, <3>2
  <2>5. QED
    BY <1>2, <1>6, <2>2, <2>3, <2>4
<1>15. CASE ReadEof
  <2>1. Pos(delivered', consumed', pc')
    BY <1>3, <1>4, <1>15 DEF ReadEof
  <2>2. QED
    BY <1>2, <1>6, <1>7, <1>15, <2>1 DEF ReadEof
<1>16. CASE TimedOut
  <2>1. Pos(delivered', consumed', pc')
    BY <1>3, <1>4, <1>16 DEF TimedOut
  <2>2. QED
    BY <1>2, <1>6, <1>7, <1>16, <2>1 DEF TimedOut
<1>17. QED
  BY <1>9, <1>10, <1>11, <1>12, <1>13, <1>14, <1>15, <1>16 DEF Next

\* The invariant holds in every state.
LEMMA Invariance == Spec => []IInv
<1>1. Init => IInv
  BY InitHolds
<1>2. IInv /\ [Next]_vars => IInv'
  BY StepHolds
<1>3. QED
  BY <1>1, <1>2, PTL DEF Spec

-----------------------------------------------------------------------------
(***************************************************************************)
(* What it gives.                                                          *)
(***************************************************************************)

\* recv_handshake reads only what has arrived, and never beyond the name, for
\* every stream.
THEOREM TypeCorrect == Spec => []TypeOK
<1>1. IInv => TypeOK
  BY DEF IInv, Position, TypeOK
<1>2. QED
  BY <1>1, Invariance, PTL

\* Whatever arrives, sanitize_peer_name leaves a label that is safe in metrics
\* and logs: neither empty nor longer than MAX_PEER_NAME_CHARS, and nothing
\* but safe characters.
THEOREM LabelsAreSafe == Spec => []LabelSafe
<1>1. ASSUME IInv
      PROVE  LabelSafe
  <2>1. CASE pc = "session"
    <3>1. NameLen \in Nat /\ Len(stream) \in Nat
      BY <1>1, Framing DEF IInv
    <3>2. Len(Received) \in Nat
      BY <3>1 DEF Received
    <3>3. from_utf8(Received) \in Seq(Chars)
      BY <3>2, Decoding
    <3>4. label = sanitize_peer_name(from_utf8(Received))
      BY <1>1, <2>1 DEF IInv, Labelled
    <3>5. QED
      BY <2>1, <3>3, <3>4, Sanitizing, Zenon DEF LabelSafe
  <2>2. CASE pc # "session"
    BY <1>1, <2>2 DEF IInv, Labelled, LabelSafe
  <2>3. QED
    BY <2>1, <2>2
<1>2. QED
  BY <1>1, Invariance, PTL

\* The length send_handshake writes is one read_handshake accepts, and the
\* bytes it leaves unread are those of the first heartbeat, for every name.
THEOREM FramingIsKept == Spec => []FramingKept
<1>1. ASSUME IInv, IsNode
      PROVE  /\ pc # "invalid"
             /\ pc = "session" => SubSeq(stream, consumed + 1, Len(stream)) = <<Heartbeat>>
  <2>1. /\ NameLen \in Nat /\ ValidLength(NameLen)
        /\ SubSeq(stream, NameLen + 2, Len(stream)) = <<Heartbeat>>
    BY <1>1, Framing DEF IInv
  <2>2. pc # "invalid"
    BY <1>1, <2>1 DEF IInv, Position
  <2>3. ASSUME pc = "session"
        PROVE  consumed + 1 = NameLen + 2
    BY <1>1, <2>1, <2>3 DEF IInv, Position
  <2>4. QED
    BY <2>1, <2>2, <2>3
<1>2. QED
  BY <1>1, Invariance, PTL DEF FramingKept

\* A node is filed under the safe characters of its name that fit in the
\* handshake, or as unknown if the cut splits a character: for every name, and
\* for every limit on bytes and characters.
THEOREM LabelsAreOfNames == Spec => []LabelIsOfName
<1>1. ASSUME IInv, IsNode, pc = "session"
      PROVE  LabelIsOfName
  <2> DEFINE name == Fitting(client)
             safe == Filtered(name)
             split == Len(BytesOf(name)) < Len(NameBytes(client))
  <2>1. client \in Seq(Chars) /\ Received = NameBytes(client)
    BY <1>1, Framing DEF IInv
  <2>2. label = sanitize_peer_name(from_utf8(NameBytes(client)))
    BY <1>1, <2>1 DEF IInv, Labelled
  <2>3. /\ name \in Seq(Chars)
        /\ split => from_utf8(NameBytes(client)) = <<>>
        /\ ~split => from_utf8(NameBytes(client)) = name
    BY <2>1, CutName
  <2>4. SafeChars \subseteq Chars /\ safe \in Seq(SafeChars)
    BY <2>3, Filtering, WidthAssumption
  <2>5. Filtered(<<>>) = <<>>
    <3>1. <<>> \in Seq(Chars)
      OBVIOUS
    <3>2. QED
      BY <3>1, Filtering, Zenon
  <2>6. PICK L \in Nat \ {0} : L = MAX_PEER_NAME_CHARS
    BY LimitsAssumption
  <2> DEFINE cut == [i \in 1 .. (IF Len(safe) < L THEN Len(safe) ELSE L) |-> safe[i]]
  <2> HIDE DEF name, safe, split
  <2>7. CASE split
    <3>1. UpTo(L, Filtered(<<>>)) = <<>>
      BY <2>5, <2>6 DEF UpTo
    <3>2. label = Unknown
      BY <2>2, <2>3, <2>6, <2>7, <3>1 DEF sanitize_peer_name
    <3>3. QED
      BY <2>7, <3>2 DEF LabelIsOfName, split, name
  <2>8. CASE ~split
    <3>1. label = IF UpTo(L, safe) = <<>> THEN Unknown ELSE UpTo(L, safe)
      BY <2>2, <2>3, <2>6, <2>8 DEF sanitize_peer_name, safe
    <3>2. UpTo(L, safe) = cut
      <4>1. CASE Len(safe) < L
        BY <2>4, <2>6, <4>1 DEF UpTo
      <4>2. CASE ~ (Len(safe) < L)
        BY <2>4, <2>6, <4>2 DEF UpTo
      <4>3. QED
        BY <4>1, <4>2
    <3>3. UpTo(L, safe) = <<>> <=> Len(safe) = 0
      BY <2>4, <2>6 DEF UpTo
    <3>4. label = IF Len(safe) = 0 THEN Unknown ELSE cut
      BY <3>1, <3>2, <3>3
    <3>5. QED
      BY <2>6, <2>8, <3>4 DEF LabelIsOfName, split, safe, name
  <2>9. QED
    BY <2>7, <2>8
<1>2. IInv => LabelIsOfName
  BY <1>1 DEF LabelIsOfName
<1>3. QED
  BY <1>2, Invariance, PTL

=============================================================================
