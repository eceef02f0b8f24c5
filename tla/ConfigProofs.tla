----------------------------- MODULE ConfigProofs -----------------------------
(***************************************************************************)
(* Every file an operator can arrive at, with any number of edits, entries *)
(* and names: validate accepts exactly what is sound and names the first   *)
(* rule that is broken, and what runs is always sound.                     *)
(***************************************************************************)
EXTENDS Config, FiniteSetTheorems, WellFoundedInduction, TLAPS

-----------------------------------------------------------------------------
(***************************************************************************)
(* The first of several.                                                   *)
(***************************************************************************)

\* A set of numbers that is not empty has a smallest.
LEMMA Least ==
    ASSUME NEW S \in SUBSET Nat, S # {}
    PROVE  Min(S) \in S /\ \A y \in S : Min(S) <= y
<1> DEFINE Less == {p \in Nat \X Nat : p[1] < p[2]}
<1>1. IsWellFoundedOn(Less, Nat)
  <2>1. OpToRel(<, Nat) = Less
    BY DEF OpToRel
  <2>2. QED
    BY <2>1, NatLessThanWellFounded
<1>2. PICK x \in S : \A y \in S : ~ (<<y, x>> \in Less)
  <2> HIDE DEF Less
  <2>1. QED
    BY <1>1, WFMin
<1>3. ASSUME NEW y \in S
      PROVE  x <= y
  <2>1. ~ (y < x)
    BY <1>2
  <2>2. QED
    BY <2>1
<1>4. QED
  BY <1>3, Zenon DEF Min

\* What FirstError reports: "ok" exactly if no rule is broken, and otherwise
\* the error of a broken rule before which none is.
LEMMA ErrorIsFirst ==
    ASSUME NEW rules, DOMAIN rules \in SUBSET Nat,
           \A i \in DOMAIN rules : rules[i].error # "ok"
    PROVE  \/ /\ FirstError(rules) = "ok"
              /\ \A i \in DOMAIN rules : ~rules[i].broken
           \/ /\ FirstError(rules) # "ok"
              /\ \E i \in DOMAIN rules :
                    /\ FirstError(rules) = rules[i].error /\ rules[i].broken
                    /\ \A j \in DOMAIN rules : j < i => ~rules[j].broken
<1> DEFINE broken == {i \in DOMAIN rules : rules[i].broken}
<1>1. FirstError(rules) = IF broken = {} THEN "ok" ELSE rules[Min(broken)].error
  BY DEF FirstError
<1>2. CASE broken = {}
  BY <1>1, <1>2
<1>3. CASE broken # {}
  <2>1. broken \in SUBSET Nat
    OBVIOUS
  <2> HIDE DEF broken
  <2>2. PICK m \in broken : m = Min(broken) /\ \A j \in broken : m <= j
    BY <1>3, <2>1, Least
  <2>3. FirstError(rules) = rules[m].error
    BY <1>1, <1>3, <2>2
  <2>4. m \in DOMAIN rules /\ rules[m].broken
    BY <2>2 DEF broken
  <2>5. ASSUME NEW j \in DOMAIN rules, j < m
        PROVE  ~rules[j].broken
    <3>1. j \notin broken
      BY <2>1, <2>2, <2>4, <2>5
    <3>2. QED
      BY <3>1 DEF broken
  <2>6. QED
    BY <2>3, <2>4, <2>5
<1>4. QED
  BY <1>2, <1>3

\* Where the elements of a concatenation are.
IsJoin(a, s, g) ==
    /\ Len(a) = Len(s) + Len(g)
    /\ \A i \in 1 .. Len(s) : a[i] = s[i]
    /\ \A i \in 1 .. Len(g) : a[Len(s) + i] = g[i]

\* \o concatenates.
LEMMA Joined ==
    ASSUME NEW X, NEW s \in Seq(X), NEW g \in Seq(X)
    PROVE  s \o g \in Seq(X) /\ IsJoin(s \o g, s, g)
BY DEF IsJoin

\* Three elements, and then others.
LEMMA ThreeAndMore ==
    ASSUME NEW r1, NEW r2, NEW r3, NEW n \in Nat, NEW Y, NEW g \in [1 .. n -> Y]
    PROVE  /\ DOMAIN (<<r1, r2, r3>> \o g) = 1 .. (3 + n)
           /\ (<<r1, r2, r3>> \o g)[1] = r1
           /\ (<<r1, r2, r3>> \o g)[2] = r2
           /\ (<<r1, r2, r3>> \o g)[3] = r3
           /\ \A i \in 1 .. n : (<<r1, r2, r3>> \o g)[3 + i] = g[i]
<1> DEFINE X == {r1, r2, r3} \cup Y
           s == <<r1, r2, r3>>
<1>1. g \in Seq(X) /\ Len(g) = n
  <2>1. Y \subseteq X
    OBVIOUS
  <2> HIDE DEF X
  <2>2. g \in [1 .. n -> X]
    BY <2>1
  <2>3. QED
    BY <2>2
<1>2. s \in Seq(X) /\ Len(s) = 3 /\ s[1] = r1 /\ s[2] = r2 /\ s[3] = r3
  OBVIOUS
<1> HIDE DEF X, s
<1> DEFINE all == s \o g
<1>3. /\ all \in Seq(X) /\ Len(all) = 3 + n
      /\ \A i \in 1 .. 3 : all[i] = s[i]
      /\ \A i \in 1 .. n : all[3 + i] = g[i]
  <2>1. all \in Seq(X) /\ IsJoin(all, s, g)
    BY <1>1, <1>2, Joined, Zenon
  <2> HIDE DEF all
  <2>2. QED
    BY <1>1, <1>2, <2>1 DEF IsJoin
<1> HIDE DEF all
<1>4. /\ DOMAIN all = 1 .. (3 + n)
      /\ all[1] = s[1] /\ all[2] = s[2] /\ all[3] = s[3]
  BY <1>3
<1>5. QED
  BY <1>2, <1>3, <1>4 DEF all, s

\* A rule, and when a timing breaks one.
Rule(e, b) == [error |-> e, broken |-> b]
OutOfRange(v, low) == v < low \/ v > MAX_SECONDS

\* The rules on timings: two, or four with a [client] section.
LEMMA TimingsListed ==
    ASSUME NEW c
    PROVE  /\ DOMAIN Timings(c) = 1 .. (IF c.client = NoClient THEN 2 ELSE 4)
           /\ Timings(c)[1] = [field |-> "server.heartbeat_recv_timeout",
                               value |-> c.server.heartbeat_recv_timeout, min |-> 1]
           /\ Timings(c)[2] = [field |-> "server.probe_idle_timeout",
                               value |-> c.server.probe_idle_timeout, min |-> 0]
           /\ c.client # NoClient =>
                 /\ Timings(c)[3] = [field |-> "client.heartbeat_interval",
                                     value |-> c.client.heartbeat_interval, min |-> 1]
                 /\ Timings(c)[4] = [field |-> "client.reconnect_delay",
                                     value |-> c.client.reconnect_delay, min |-> 1]
<1>1. CASE c.client = NoClient
  BY <1>1 DEF Timings
<1>2. CASE c.client # NoClient
  BY <1>2 DEF Timings
<1>3. QED
  BY <1>1, <1>2

\* All rules on the settings.
LEMMA RulesListed ==
    ASSUME NEW c
    PROVE  /\ DOMAIN SettingRules(c) = 1 .. (IF c.client = NoClient THEN 5 ELSE 7)
           /\ SettingRules(c)[1] = Rule("node.name", c.node = "")
           /\ SettingRules(c)[2] = Rule("server.bind", c.server.bind # "IP")
           /\ SettingRules(c)[3] = Rule("ports", SharedPort(c.server))
           /\ SettingRules(c)[4] =
                 Rule("server.heartbeat_recv_timeout", OutOfRange(c.server.heartbeat_recv_timeout, 1))
           /\ SettingRules(c)[5] =
                 Rule("server.probe_idle_timeout", OutOfRange(c.server.probe_idle_timeout, 0))
           /\ c.client # NoClient =>
                 /\ SettingRules(c)[6] =
                       Rule("client.heartbeat_interval", OutOfRange(c.client.heartbeat_interval, 1))
                 /\ SettingRules(c)[7] =
                       Rule("client.reconnect_delay", OutOfRange(c.client.reconnect_delay, 1))
<1> DEFINE T == Timings(c)
           n == IF c.client = NoClient THEN 2 ELSE 4
           r1 == Rule("node.name", c.node = "")
           r2 == Rule("server.bind", c.server.bind # "IP")
           r3 == Rule("ports", SharedPort(c.server))
           rest == [i \in DOMAIN T |-> Rule(T[i].field, OutOfRange(T[i].value, T[i].min))]
<1>1. SettingRules(c) = <<r1, r2, r3>> \o rest
  BY Zenon DEF SettingRules, Rule, OutOfRange
<1>2. DOMAIN T = 1 .. n /\ n \in Nat /\ 3 + n = IF c.client = NoClient THEN 5 ELSE 7
  <2>1. DOMAIN T = 1 .. n
    BY TimingsListed, Zenon
  <2>2. QED
    BY <2>1
<1>3. 1 \in 1 .. n /\ 2 \in 1 .. n /\ (c.client # NoClient => 3 \in 1 .. n /\ 4 \in 1 .. n)
  OBVIOUS
<1> HIDE DEF T, n
<1> DEFINE Y == {Rule(T[i].field, OutOfRange(T[i].value, T[i].min)) : i \in DOMAIN T}
<1>4. rest \in [1 .. n -> Y]
  <2>1. \A i \in DOMAIN T : Rule(T[i].field, OutOfRange(T[i].value, T[i].min)) \in Y
    BY Zenon
  <2> HIDE DEF Y
  <2>2. rest \in [DOMAIN T -> Y]
    BY <2>1, Zenon
  <2>3. QED
    BY <1>2, <2>2, Zenon
<1>5. \A i \in 1 .. n : rest[i] = Rule(T[i].field, OutOfRange(T[i].value, T[i].min))
  BY <1>2, Zenon
<1> HIDE DEF r1, r2, r3, rest, Y
<1>6. /\ DOMAIN SettingRules(c) = 1 .. (3 + n)
      /\ SettingRules(c)[1] = r1 /\ SettingRules(c)[2] = r2 /\ SettingRules(c)[3] = r3
      /\ \A i \in 1 .. n : SettingRules(c)[3 + i] = rest[i]
  BY <1>1, <1>2, <1>4, ThreeAndMore
<1>7. SettingRules(c)[4] = rest[1] /\ SettingRules(c)[5] = rest[2]
  BY <1>3, <1>6
<1>8. ASSUME c.client # NoClient
      PROVE  SettingRules(c)[6] = rest[3] /\ SettingRules(c)[7] = rest[4]
  BY <1>3, <1>6, <1>8
<1>9. /\ T[1].field = "server.heartbeat_recv_timeout"
      /\ T[1].value = c.server.heartbeat_recv_timeout /\ T[1].min = 1
      /\ T[2].field = "server.probe_idle_timeout"
      /\ T[2].value = c.server.probe_idle_timeout /\ T[2].min = 0
  <2>1. /\ T[1] = [field |-> "server.heartbeat_recv_timeout",
                   value |-> c.server.heartbeat_recv_timeout, min |-> 1]
        /\ T[2] = [field |-> "server.probe_idle_timeout",
                   value |-> c.server.probe_idle_timeout, min |-> 0]
    BY TimingsListed, Zenon DEF T
  <2>2. QED
    BY <2>1
<1>10. ASSUME c.client # NoClient
       PROVE  /\ T[3].field = "client.heartbeat_interval"
              /\ T[3].value = c.client.heartbeat_interval /\ T[3].min = 1
              /\ T[4].field = "client.reconnect_delay"
              /\ T[4].value = c.client.reconnect_delay /\ T[4].min = 1
  <2>1. /\ T[3] = [field |-> "client.heartbeat_interval",
                   value |-> c.client.heartbeat_interval, min |-> 1]
        /\ T[4] = [field |-> "client.reconnect_delay",
                   value |-> c.client.reconnect_delay, min |-> 1]
    BY <1>10, TimingsListed, Zenon DEF T
  <2>2. QED
    BY <2>1
<1>11. /\ SettingRules(c)[4] =
            Rule("server.heartbeat_recv_timeout", OutOfRange(c.server.heartbeat_recv_timeout, 1))
       /\ SettingRules(c)[5] =
            Rule("server.probe_idle_timeout", OutOfRange(c.server.probe_idle_timeout, 0))
  <2>1. /\ rest[1] = Rule(T[1].field, OutOfRange(T[1].value, T[1].min))
        /\ rest[2] = Rule(T[2].field, OutOfRange(T[2].value, T[2].min))
    BY <1>3, <1>5, Zenon
  <2>2. QED
    BY <1>7, <1>9, <2>1, Zenon
<1>12. ASSUME c.client # NoClient
       PROVE  /\ SettingRules(c)[6] =
                    Rule("client.heartbeat_interval", OutOfRange(c.client.heartbeat_interval, 1))
              /\ SettingRules(c)[7] =
                    Rule("client.reconnect_delay", OutOfRange(c.client.reconnect_delay, 1))
  <2>1. /\ rest[3] = Rule(T[3].field, OutOfRange(T[3].value, T[3].min))
        /\ rest[4] = Rule(T[4].field, OutOfRange(T[4].value, T[4].min))
    BY <1>3, <1>5, <1>12, Zenon
  <2>2. QED
    BY <1>8, <1>10, <1>12, <2>1, Zenon
<1>13. QED
  BY <1>2, <1>6, <1>11, <1>12, Zenon DEF r1, r2, r3

-----------------------------------------------------------------------------
(***************************************************************************)
(* Soundness, setting by setting and entry by entry.                       *)
(***************************************************************************)
\* What Sound says of the settings.
SettingsSound(c) ==
    /\ c.node # "" /\ c.server.bind = "IP"
    /\ ~SharedPort(c.server)
    /\ ~OutOfRange(c.server.heartbeat_recv_timeout, 1) /\ ~OutOfRange(c.server.probe_idle_timeout, 0)
    /\ c.client # NoClient =>
          ~OutOfRange(c.client.heartbeat_interval, 1) /\ ~OutOfRange(c.client.reconnect_delay, 1)

\* What the rules on the settings can report.
SettingErrors ==
    {"node.name", "server.bind", "ports", "server.heartbeat_recv_timeout",
     "server.probe_idle_timeout", "client.heartbeat_interval", "client.reconnect_delay"}

\* The parts of a rule.
LEMMA RuleParts ==
    ASSUME NEW e, NEW b \in BOOLEAN
    PROVE  Rule(e, b).error = e /\ (Rule(e, b).broken <=> b)
BY DEF Rule

\* The first rule on the settings that is broken is what is reported, and if
\* none is they are sound.
LEMMA SettingsVerdict ==
    ASSUME NEW c
    PROVE  LET e == FirstError(SettingRules(c))
           IN  /\ e \in SettingErrors \cup {"ok"}
               /\ e = "ok" <=> SettingsSound(c)
               /\ e \notin {"ok", "node.name"} => c.node # ""
<1> DEFINE R == SettingRules(c)
           n == IF c.client = NoClient THEN 5 ELSE 7
           e == FirstError(R)
<1>1. /\ R[1].error = "node.name" /\ (R[1].broken <=> c.node = "")
      /\ R[2].error = "server.bind" /\ (R[2].broken <=> c.server.bind # "IP")
      /\ R[3].error = "ports" /\ (R[3].broken <=> SharedPort(c.server))
  <2>1. R[1].error = "node.name" /\ (R[1].broken <=> c.node = "")
    <3>1. (c.node = "") \in BOOLEAN
      OBVIOUS
    <3>2. R[1] = Rule("node.name", c.node = "")
      BY RulesListed, Zenon
    <3>3. QED
      BY <3>1, <3>2, RuleParts, Zenon
  <2>2. R[2].error = "server.bind" /\ (R[2].broken <=> c.server.bind # "IP")
    <3>1. (c.server.bind # "IP") \in BOOLEAN
      OBVIOUS
    <3>2. R[2] = Rule("server.bind", c.server.bind # "IP")
      BY RulesListed, Zenon
    <3>3. QED
      BY <3>1, <3>2, RuleParts, Zenon
  <2>3. R[3].error = "ports" /\ (R[3].broken <=> SharedPort(c.server))
    <3>1. SharedPort(c.server) \in BOOLEAN
      BY DEF SharedPort
    <3>2. R[3] = Rule("ports", SharedPort(c.server))
      BY RulesListed, Zenon
    <3>3. QED
      BY <3>1, <3>2, RuleParts, Zenon
  <2>4. QED
    BY <2>1, <2>2, <2>3
<1>2. /\ R[4].error = "server.heartbeat_recv_timeout"
      /\ R[4].broken <=> OutOfRange(c.server.heartbeat_recv_timeout, 1)
      /\ R[5].error = "server.probe_idle_timeout"
      /\ R[5].broken <=> OutOfRange(c.server.probe_idle_timeout, 0)
  <2>1. /\ R[4].error = "server.heartbeat_recv_timeout"
        /\ R[4].broken <=> OutOfRange(c.server.heartbeat_recv_timeout, 1)
    <3>1. OutOfRange(c.server.heartbeat_recv_timeout, 1) \in BOOLEAN
      BY DEF OutOfRange
    <3>2. R[4] = Rule("server.heartbeat_recv_timeout", OutOfRange(c.server.heartbeat_recv_timeout, 1))
      BY RulesListed, Zenon
    <3>3. QED
      BY <3>1, <3>2, RuleParts, Zenon
  <2>2. /\ R[5].error = "server.probe_idle_timeout"
        /\ R[5].broken <=> OutOfRange(c.server.probe_idle_timeout, 0)
    <3>1. OutOfRange(c.server.probe_idle_timeout, 0) \in BOOLEAN
      BY DEF OutOfRange
    <3>2. R[5] = Rule("server.probe_idle_timeout", OutOfRange(c.server.probe_idle_timeout, 0))
      BY RulesListed, Zenon
    <3>3. QED
      BY <3>1, <3>2, RuleParts, Zenon
  <2>3. QED
    BY <2>1, <2>2
<1>3. ASSUME c.client # NoClient
      PROVE  /\ R[6].error = "client.heartbeat_interval"
             /\ R[6].broken <=> OutOfRange(c.client.heartbeat_interval, 1)
             /\ R[7].error = "client.reconnect_delay"
             /\ R[7].broken <=> OutOfRange(c.client.reconnect_delay, 1)
  <2>1. /\ R[6].error = "client.heartbeat_interval"
        /\ R[6].broken <=> OutOfRange(c.client.heartbeat_interval, 1)
    <3>1. OutOfRange(c.client.heartbeat_interval, 1) \in BOOLEAN
      BY DEF OutOfRange
    <3>2. R[6] = Rule("client.heartbeat_interval", OutOfRange(c.client.heartbeat_interval, 1))
      BY <1>3, RulesListed, Zenon
    <3>3. QED
      BY <3>1, <3>2, RuleParts, Zenon
  <2>2. /\ R[7].error = "client.reconnect_delay"
        /\ R[7].broken <=> OutOfRange(c.client.reconnect_delay, 1)
    <3>1. OutOfRange(c.client.reconnect_delay, 1) \in BOOLEAN
      BY DEF OutOfRange
    <3>2. R[7] = Rule("client.reconnect_delay", OutOfRange(c.client.reconnect_delay, 1))
      BY <1>3, RulesListed, Zenon
    <3>3. QED
      BY <3>1, <3>2, RuleParts, Zenon
  <2>3. QED
    BY <2>1, <2>2
<1>4. DOMAIN R = 1 .. n
  BY RulesListed, Zenon
<1> HIDE DEF R
<1>5. /\ \A i \in DOMAIN R : R[i].error \in SettingErrors
      /\ \A i \in DOMAIN R : i # 1 => R[i].error # "node.name"
      /\ DOMAIN R \in SUBSET Nat /\ 1 \in DOMAIN R
  <2>1. /\ R[1].error = "node.name" /\ R[2].error = "server.bind" /\ R[3].error = "ports"
        /\ R[4].error = "server.heartbeat_recv_timeout" /\ R[5].error = "server.probe_idle_timeout"
        /\ c.client # NoClient => /\ R[6].error = "client.heartbeat_interval"
                                  /\ R[7].error = "client.reconnect_delay"
    BY <1>1, <1>2, <1>3, Zenon
  <2>2. CASE c.client = NoClient
    <3>1. DOMAIN R = {1, 2, 3, 4, 5}
      BY <1>4, <2>2
    <3>2. QED
      BY <2>1, <3>1 DEF SettingErrors
  <2>3. CASE c.client # NoClient
    <3>1. DOMAIN R = {1, 2, 3, 4, 5, 6, 7}
      BY <1>4, <2>3
    <3>2. QED
      BY <2>1, <2>3, <3>1 DEF SettingErrors
  <2>4. QED
    BY <2>2, <2>3
<1>6. (\A i \in DOMAIN R : ~R[i].broken) <=> SettingsSound(c)
  <2>1. CASE c.client = NoClient
    <3>1. DOMAIN R = {1, 2, 3, 4, 5}
      BY <1>4, <2>1
    <3>2. QED
      BY <1>1, <1>2, <2>1, <3>1, Zenon DEF SettingsSound
  <2>2. CASE c.client # NoClient
    <3>1. DOMAIN R = {1, 2, 3, 4, 5, 6, 7}
      BY <1>4, <2>2
    <3>2. QED
      BY <1>1, <1>2, <1>3, <2>2, <3>1, Zenon DEF SettingsSound
  <2>3. QED
    BY <2>1, <2>2
<1>7. \A i \in DOMAIN R : R[i].error # "ok"
  BY <1>5 DEF SettingErrors
<1>8. CASE e = "ok"
  <2>1. \A i \in DOMAIN R : ~R[i].broken
    BY <1>5, <1>7, <1>8, ErrorIsFirst
  <2>2. QED
    BY <1>6, <1>8, <2>1 DEF R
<1>9. CASE e # "ok"
  <2>1. PICK i \in DOMAIN R : /\ e = R[i].error /\ R[i].broken
                              /\ \A j \in DOMAIN R : j < i => ~R[j].broken
    BY <1>5, <1>7, <1>9, ErrorIsFirst
  <2>2. e \in SettingErrors /\ ~SettingsSound(c)
    BY <1>5, <1>6, <2>1
  <2>3. ASSUME e # "node.name"
        PROVE  c.node # ""
    <3>1. i # 1
      BY <1>1, <2>1, <2>3
    <3>2. 1 < i
      BY <1>4, <1>5, <3>1
    <3>3. QED
      BY <1>1, <1>5, <2>1, <3>2
  <2>4. QED
    BY <1>9, <2>2, <2>3 DEF R
<1>10. QED
  BY <1>8, <1>9

\* Entry i follows the rules.
EntrySound(peers, i) ==
    /\ peers[i].name # "" /\ peers[i].host # ""
    /\ \A j \in 1 .. (i - 1) : peers[j].name # peers[i].name

\* What Sound says of the entries.
PeersSound(peers) ==
    /\ \A p \in ToSet(peers) : p.name # "" /\ p.host # ""
    /\ Cardinality({p.name : p \in ToSet(peers)}) = Len(peers)

\* What the loop over the entries can report.
PeerErrors == {"peer name", "peer host", "duplicate peer"}

\* One turn of the loop over the entries.
LEMMA EntryVerdict ==
    ASSUME NEW peers, NEW i
    PROVE  LET e == FirstError(PeerRules(peers, i))
           IN  /\ e \in PeerErrors \cup {"ok"}
               /\ e = "ok" <=> EntrySound(peers, i)
               /\ e = "duplicate peer" => \E j \in 1 .. (i - 1) : peers[j].name = peers[i].name
<1> DEFINE R == PeerRules(peers, i)
           dup == \E j \in 1 .. (i - 1) : peers[j].name = peers[i].name
           e == FirstError(R)
<1>1. R = <<Rule("peer name", peers[i].name = ""), Rule("peer host", peers[i].host = ""),
            Rule("duplicate peer", dup)>>
  BY Zenon DEF PeerRules, Rule
<1>2. /\ (peers[i].name = "") \in BOOLEAN /\ (peers[i].host = "") \in BOOLEAN
      /\ dup \in BOOLEAN
  OBVIOUS
<1> HIDE DEF dup, R
<1>3. /\ R[1] = Rule("peer name", peers[i].name = "")
      /\ R[2] = Rule("peer host", peers[i].host = "")
      /\ R[3] = Rule("duplicate peer", dup)
      /\ DOMAIN R = {1, 2, 3}
  <2>1. ASSUME NEW r1, NEW r2, NEW r3, R = <<r1, r2, r3>>
        PROVE  R[1] = r1 /\ R[2] = r2 /\ R[3] = r3 /\ DOMAIN R = {1, 2, 3}
    BY <2>1
  <2>2. QED
    BY <1>1, <2>1, Zenon
<1>4. R[1].error = "peer name" /\ (R[1].broken <=> peers[i].name = "")
  BY <1>2, <1>3, RuleParts, Zenon
<1>5. R[2].error = "peer host" /\ (R[2].broken <=> peers[i].host = "")
  BY <1>2, <1>3, RuleParts, Zenon
<1>6. R[3].error = "duplicate peer" /\ (R[3].broken <=> dup)
  <2>1. dup \in BOOLEAN
    BY <1>2, Zenon
  <2>2. R[3] = Rule("duplicate peer", dup)
    BY <1>3, Zenon
  <2>3. QED
    BY <2>1, <2>2, RuleParts, Zenon
<1>7. (\A k \in DOMAIN R : ~R[k].broken) <=> EntrySound(peers, i)
  BY <1>3, <1>4, <1>5, <1>6, Zenon DEF EntrySound, dup
<1>8. /\ \A k \in DOMAIN R : R[k].error \in PeerErrors /\ R[k].error # "ok"
      /\ \A k \in DOMAIN R : R[k].error = "duplicate peer" => k = 3
      /\ DOMAIN R \in SUBSET Nat
  <2>1. R[1].error = "peer name" /\ R[2].error = "peer host" /\ R[3].error = "duplicate peer"
    BY <1>4, <1>5, <1>6, Zenon
  <2>2. DOMAIN R = {1, 2, 3}
    BY <1>3
  <2>3. /\ R[1].error \in PeerErrors /\ R[2].error \in PeerErrors /\ R[3].error \in PeerErrors
        /\ R[1].error # "ok" /\ R[2].error # "ok" /\ R[3].error # "ok"
        /\ R[1].error # "duplicate peer" /\ R[2].error # "duplicate peer"
    BY <2>1 DEF PeerErrors
  <2>4. DOMAIN R \in SUBSET Nat
    BY <2>2
  <2>5. QED
    BY <2>2, <2>3, <2>4, Zenon
<1>9. CASE e = "ok"
  <2>1. \A k \in DOMAIN R : ~R[k].broken
    BY <1>8, <1>9, ErrorIsFirst
  <2>2. QED
    BY <1>7, <1>9, <2>1 DEF R
<1>10. CASE e # "ok"
  <2>1. PICK k \in DOMAIN R : e = R[k].error /\ R[k].broken
    BY <1>8, <1>10, ErrorIsFirst
  <2>2. e \in PeerErrors /\ ~EntrySound(peers, i)
    BY <1>7, <1>8, <2>1
  <2>3. ASSUME e = "duplicate peer"
        PROVE  dup
    <3>1. k = 3
      BY <1>8, <2>1, <2>3
    <3>2. QED
      BY <1>6, <2>1, <3>1
  <2>4. QED
    BY <1>10, <2>2, <2>3 DEF R, dup
<1>11. QED
  BY <1>9, <1>10

\* A list has as many names as entries exactly if no name comes twice.
LEMMA NamesCounted ==
    ASSUME NEW X, NEW peers \in Seq(X)
    PROVE  Cardinality({p.name : p \in ToSet(peers)}) = Len(peers) <=>
               \A i \in 1 .. Len(peers) : \A j \in 1 .. (i - 1) : peers[j].name # peers[i].name
<1> DEFINE n == Len(peers)
           T == {p.name : p \in ToSet(peers)}
           f == [i \in 1 .. n |-> peers[i].name]
<1>1. n \in Nat /\ DOMAIN peers = 1 .. n
  OBVIOUS
<1>2. T = {peers[i].name : i \in 1 .. n}
  BY <1>1 DEF ToSet
<1>3. f \in Surjection(1 .. n, T)
  <2>1. f \in [1 .. n -> T]
    BY <1>2
  <2>2. \A t \in T : \E i \in 1 .. n : f[i] = t
    BY <1>2
  <2>3. QED
    BY <2>1, <2>2 DEF Surjection
<1>4. IsFiniteSet(1 .. n) /\ Cardinality(1 .. n) = n
  BY <1>1, FS_Interval
<1>5. f \in Injection(1 .. n, T) <=> \A i, j \in 1 .. n : f[i] = f[j] => i = j
  <2>1. f \in [1 .. n -> T]
    BY <1>2
  <2> HIDE DEF f, T, n
  <2>2. QED
    BY <2>1 DEF Injection, IsInjective
<1>6. (\A i, j \in 1 .. n : f[i] = f[j] => i = j) <=>
          \A i \in 1 .. n : \A j \in 1 .. (i - 1) : peers[j].name # peers[i].name
  BY <1>1
<1>7. Cardinality(T) = Cardinality(1 .. n) <=> f \in Injection(1 .. n, T)
  <2> HIDE DEF f, T, n
  <2>1. QED
    BY <1>3, <1>4, FS_Surjection
<1> HIDE DEF f, T
<1>8. QED
  BY <1>4, <1>5, <1>6, <1>7 DEF T

\* Soundness of the entries, one at a time.
LEMMA EntriesSound ==
    ASSUME NEW X, NEW peers \in Seq(X)
    PROVE  PeersSound(peers) <=> \A i \in 1 .. Len(peers) : EntrySound(peers, i)
<1>1. (\A p \in ToSet(peers) : p.name # "" /\ p.host # "") <=>
          \A i \in 1 .. Len(peers) : peers[i].name # "" /\ peers[i].host # ""
  <2>1. DOMAIN peers = 1 .. Len(peers)
    OBVIOUS
  <2>2. \A i \in 1 .. Len(peers) : peers[i] \in ToSet(peers)
    BY <2>1, Zenon DEF ToSet
  <2>3. \A p \in ToSet(peers) : \E i \in 1 .. Len(peers) : p = peers[i]
    BY <2>1, Zenon DEF ToSet
  <2>4. QED
    BY <2>2, <2>3, Zenon
<1>2. Cardinality({p.name : p \in ToSet(peers)}) = Len(peers) <=>
          \A i \in 1 .. Len(peers) : \A j \in 1 .. (i - 1) : peers[j].name # peers[i].name
  BY NamesCounted
<1>3. QED
  BY <1>1, <1>2, Zenon DEF PeersSound, EntrySound

\* The loop over the entries: it accepts exactly the sound lists, and reports a
\* duplicate at an entry before which all is in order.
LEMMA PeersVerdict ==
    ASSUME NEW X, NEW peers \in Seq(X)
    PROVE  /\ PeersError(peers) \in PeerErrors \cup {"ok"}
           /\ PeersError(peers) = "ok" <=> PeersSound(peers)
           /\ PeersError(peers) = "duplicate peer" =>
                 \E i \in DOMAIN peers :
                     /\ \E j \in 1 .. (i - 1) : peers[j].name = peers[i].name
                     /\ PeersSound(SubSeq(peers, 1, i - 1))
<1> DEFINE Error(i) == FirstError(PeerRules(peers, i))
           bad == {i \in DOMAIN peers : Error(i) # "ok"}
<1>1. Len(peers) \in Nat /\ DOMAIN peers = 1 .. Len(peers)
  OBVIOUS
<1>2. \A i : /\ Error(i) \in PeerErrors \cup {"ok"}
             /\ Error(i) = "ok" <=> EntrySound(peers, i)
             /\ Error(i) = "duplicate peer" => \E j \in 1 .. (i - 1) : peers[j].name = peers[i].name
  BY EntryVerdict, Zenon
<1>3. PeersError(peers) = IF bad = {} THEN "ok" ELSE Error(Min(bad))
  BY Zenon DEF PeersError
<1>4. bad \in SUBSET Nat
  BY <1>1
<1>5. PeersSound(peers) <=> bad = {}
  BY <1>1, <1>2, EntriesSound, Zenon
<1> HIDE DEF Error
<1>6. CASE bad = {}
  BY <1>3, <1>5, <1>6
<1>7. CASE bad # {}
  <2>1. PICK m \in bad : m = Min(bad) /\ \A y \in bad : m <= y
    <3> HIDE DEF bad
    <3>1. QED
      BY <1>4, <1>7, Least
  <2>2. m \in 1 .. Len(peers) /\ Error(m) # "ok" /\ PeersError(peers) = Error(m)
    BY <1>1, <1>3, <1>7, <2>1
  <2>3. \A i \in 1 .. (m - 1) : EntrySound(peers, i)
    <3> SUFFICES ASSUME NEW i \in 1 .. (m - 1)
                 PROVE  EntrySound(peers, i)
      OBVIOUS
    <3>1. i \in DOMAIN peers /\ ~ (m <= i)
      BY <1>1, <2>2
    <3>2. Error(i) = "ok"
      BY <2>1, <3>1
    <3>3. QED
      BY <1>2, <3>2, Zenon
  <2>4. PeersSound(SubSeq(peers, 1, m - 1))
    <3> DEFINE front == SubSeq(peers, 1, m - 1)
    <3>1. /\ front \in Seq(X) /\ Len(front) = m - 1
          /\ \A i \in 1 .. (m - 1) : front[i] = peers[i]
      BY <1>1, <2>2
    <3> HIDE DEF front
    <3>2. \A i \in 1 .. Len(front) : EntrySound(front, i)
      <4> SUFFICES ASSUME NEW i \in 1 .. (m - 1)
                   PROVE  EntrySound(front, i)
        BY <3>1
      <4>1. EntrySound(peers, i) /\ front[i] = peers[i]
        BY <2>3, <3>1
      <4>2. \A j \in 1 .. (i - 1) : front[j] = peers[j]
        BY <2>2, <3>1
      <4>3. QED
        BY <4>1, <4>2, Zenon DEF EntrySound
    <3>3. PeersSound(front)
      BY <3>1, <3>2, EntriesSound
    <3>4. QED
      BY <3>3 DEF front
  <2>5. Error(m) \in PeerErrors
    BY <1>2, <2>2
  <2>6. ASSUME Error(m) = "duplicate peer"
        PROVE  \E i \in DOMAIN peers :
                   /\ \E j \in 1 .. (i - 1) : peers[j].name = peers[i].name
                   /\ PeersSound(SubSeq(peers, 1, i - 1))
    <3>1. \E j \in 1 .. (m - 1) : peers[j].name = peers[m].name
      BY <1>2, <2>6, Zenon
    <3>2. m \in DOMAIN peers
      BY <1>1, <2>2
    <3>3. QED
      BY <2>4, <3>1, <3>2, Zenon
  <2>7. QED
    BY <1>5, <1>7, <2>2, <2>5, <2>6
<1>8. QED
  BY <1>6, <1>7

\* The timings that a config has are numbers.
Timed(c) ==
    /\ c.server.heartbeat_recv_timeout \in Int /\ c.server.probe_idle_timeout \in Int
    /\ c.client # NoClient =>
          c.client.heartbeat_interval \in Int /\ c.client.reconnect_delay \in Int

\* A timing is in range or out of range.
LEMMA RangeSides ==
    ASSUME NEW v \in Int, NEW low \in Int
    PROVE  ~OutOfRange(v, low) <=> InDay(low, v)
BY DEF OutOfRange, InDay, MAX_SECONDS

\* Soundness is that of the settings and that of the entries.
LEMMA SoundParts ==
    ASSUME NEW c, Timed(c)
    PROVE  Sound(c) <=> SettingsSound(c) /\ PeersSound(c.peers)
<1>1. (\A k, l \in {"heartbeat_port", "metrics_port", "probe_port"} :
          k # l => c.server[k] # c.server[l]) <=> ~SharedPort(c.server)
  BY DEF SharedPort
<1>2. /\ ~OutOfRange(c.server.heartbeat_recv_timeout, 1) <=> InDay(1, c.server.heartbeat_recv_timeout)
      /\ ~OutOfRange(c.server.probe_idle_timeout, 0) <=> InDay(0, c.server.probe_idle_timeout)
  BY RangeSides DEF Timed
<1>3. ASSUME c.client # NoClient
      PROVE  /\ ~OutOfRange(c.client.heartbeat_interval, 1) <=> InDay(1, c.client.heartbeat_interval)
             /\ ~OutOfRange(c.client.reconnect_delay, 1) <=> InDay(1, c.client.reconnect_delay)
  BY <1>3, RangeSides DEF Timed
<1>4. QED
  BY <1>1, <1>2, <1>3, Zenon DEF Sound, SettingsSound, PeersSound

\* Sound settings stay so with other entries.
LEMMA OtherPeers ==
    ASSUME NEW c, Timed(c), "peers" \in DOMAIN c, SettingsSound(c), NEW q, PeersSound(q)
    PROVE  Sound([c EXCEPT !.peers = q])
<1> DEFINE d == [c EXCEPT !.peers = q]
<1>1. d.node = c.node /\ d.server = c.server /\ d.client = c.client /\ d.peers = q
  OBVIOUS
<1> HIDE DEF d
<1>2. Timed(d) /\ SettingsSound(d) /\ PeersSound(d.peers)
  <2>1. Timed(d)
    BY <1>1, Zenon DEF Timed
  <2>2. SettingsSound(d)
    BY <1>1, Zenon DEF SettingsSound
  <2>3. QED
    BY <1>1, <2>1, <2>2
<1>3. Sound(d)
  BY <1>2, SoundParts
<1>4. QED
  BY <1>3 DEF d

\* No entries are sound entries.
LEMMA NoPeers == PeersSound(<<>>)
<1>1. <<>> \in Seq({}) /\ Len(<<>>) = 0
  OBVIOUS
<1>2. \A i \in 1 .. Len(<<>>) : EntrySound(<<>>, i)
  BY <1>1
<1>3. QED
  BY <1>1, <1>2, EntriesSound

\* validate accepts exactly the sound configs, and an error it reports tells
\* which rules the config follows.
LEMMA ValidateRight ==
    ASSUME NEW c, Timed(c), "peers" \in DOMAIN c, NEW X, c.peers \in Seq(X)
    PROVE  /\ validate(c) \in SettingErrors \cup PeerErrors \cup {"ok"}
           /\ validate(c) = "ok" <=> Sound(c)
           /\ validate(c) \notin {"ok", "node.name"} => c.node # ""
           /\ validate(c) \in PeerErrors => Sound([c EXCEPT !.peers = <<>>])
           /\ validate(c) = "duplicate peer" =>
                 \E i \in DOMAIN c.peers :
                     /\ \E j \in 1 .. (i - 1) : c.peers[j].name = c.peers[i].name
                     /\ Sound([c EXCEPT !.peers = SubSeq(c.peers, 1, i - 1)])
<1> DEFINE e == FirstError(SettingRules(c))
           p == PeersError(c.peers)
<1>1. /\ e \in SettingErrors \cup {"ok"}
      /\ e = "ok" <=> SettingsSound(c)
      /\ e \notin {"ok", "node.name"} => c.node # ""
  BY SettingsVerdict, Zenon
<1>2. /\ p \in PeerErrors \cup {"ok"}
      /\ p = "ok" <=> PeersSound(c.peers)
      /\ p = "duplicate peer" =>
            \E i \in DOMAIN c.peers :
                /\ \E j \in 1 .. (i - 1) : c.peers[j].name = c.peers[i].name
                /\ PeersSound(SubSeq(c.peers, 1, i - 1))
  BY PeersVerdict
<1>3. validate(c) = IF e # "ok" THEN e ELSE p
  BY Zenon DEF validate
<1>4. Sound(c) <=> SettingsSound(c) /\ PeersSound(c.peers)
  BY SoundParts
<1> HIDE DEF e, p
<1>5. CASE e # "ok"
  <2>1. validate(c) = e /\ e \in SettingErrors /\ ~Sound(c)
    BY <1>1, <1>3, <1>4, <1>5
  <2>2. e \notin PeerErrors
    BY <2>1 DEF SettingErrors, PeerErrors
  <2>3. e # "duplicate peer"
    BY <2>2 DEF PeerErrors
  <2>4. QED
    BY <1>1, <1>5, <2>1, <2>2, <2>3
<1>6. CASE e = "ok"
  <2>1. validate(c) = p /\ SettingsSound(c) /\ (p = "ok" <=> Sound(c)) /\ c.node # ""
    BY <1>1, <1>2, <1>3, <1>4, <1>6 DEF SettingsSound
  <2>2. Sound([c EXCEPT !.peers = <<>>])
    BY <2>1, NoPeers, OtherPeers
  <2>3. ASSUME p = "duplicate peer"
        PROVE  \E i \in DOMAIN c.peers :
                   /\ \E j \in 1 .. (i - 1) : c.peers[j].name = c.peers[i].name
                   /\ Sound([c EXCEPT !.peers = SubSeq(c.peers, 1, i - 1)])
    <3>1. PICK i \in DOMAIN c.peers :
              /\ \E j \in 1 .. (i - 1) : c.peers[j].name = c.peers[i].name
              /\ PeersSound(SubSeq(c.peers, 1, i - 1))
      BY <1>2, <2>3, Zenon
    <3>2. Sound([c EXCEPT !.peers = SubSeq(c.peers, 1, i - 1)])
      BY <2>1, <3>1, OtherPeers
    <3>3. QED
      BY <3>1, <3>2, Zenon
  <2>4. QED
    BY <1>2, <2>1, <2>2, <2>3
<1>7. QED
  BY <1>5, <1>6

-----------------------------------------------------------------------------
(***************************************************************************)
(* The files an operator can write.                                        *)
(***************************************************************************)

\* A section has a value for each key, or none.
ServerSection ==
    [bind : {"IP", "hostname", Absent}, heartbeat_port : Ports \cup {Absent},
     metrics_port : Ports \cup {Absent}, probe_port : Ports \cup {Absent},
     heartbeat_recv_timeout : Seconds \cup {Absent}, probe_idle_timeout : Seconds \cup {Absent}]
ClientSection ==
    [heartbeat_interval : Seconds \cup {Absent, Mistyped}, max_misses : {0, 3, Absent, Mistyped},
     reconnect_delay : Seconds \cup {Absent, Mistyped}]

\* The files.
FileType ==
    [readable : BOOLEAN, node : PeerNames, server : ServerSection,
     client : ClientSection \cup {NoClient}, peers : Seq(Peers)]

\* The shipped file is one.
LEMMA ShippedType == Shipped \in FileType
<1> DEFINE name == CHOOSE n \in Names : TRUE
           entry == [name |-> name, host |-> "host", heartbeat_port |-> Absent]
<1>1. name \in PeerNames
  <2>1. \E n \in Names : TRUE
    BY ShippedAssumption
  <2>2. QED
    BY <2>1, Zenon DEF PeerNames
<1> HIDE DEF name
<1>2. "host" \in PeerHosts
  BY Zenon DEF PeerHosts
<1>3. <<entry>> \in Seq(Peers)
  <2>1. entry \in Peers
    BY <1>1, <1>2 DEF Peers
  <2> HIDE DEF entry
  <2>2. QED
    BY <2>1
<1> DEFINE client == [k \in DOMAIN ClientKeys |-> Absent]
           server == [bind |-> "IP", heartbeat_port |-> 9700, metrics_port |-> 9701, probe_port |-> 9702,
                      heartbeat_recv_timeout |-> 1, probe_idle_timeout |-> 0]
<1>4. client \in ClientSection
  BY DEF ClientKeys, ClientSection
<1>5. server \in ServerSection
  BY ShippedAssumption DEF ServerSection, Seconds
<1>6. Shipped = [readable |-> TRUE, node |-> name, server |-> server, client |-> client, peers |-> <<entry>>]
  BY DEF Shipped, name
<1> HIDE DEF client, server, entry
<1>7. QED
  BY <1>1, <1>3, <1>4, <1>5, <1>6 DEF FileType

\* The edits, by kind.
EditOf(f, g) ==
    \/ g = [f EXCEPT !.readable = ~@]
    \/ \E n \in {"", Absent} : g = [f EXCEPT !.node = n]
    \/ \E k \in DOMAIN f.server : \E v \in ServerKeys[k] \cup {Absent} : g = [f EXCEPT !.server[k] = v]
    \/ \E k \in DOMAIN f.client : \E v \in ClientKeys[k] \cup {Absent, Mistyped} : g = [f EXCEPT !.client[k] = v]
    \/ \E c \in {NoClient, [k \in DOMAIN ClientKeys |-> Absent]} : g = [f EXCEPT !.client = c]
    \/ \E p \in Peers : g = [f EXCEPT !.peers = Append(@, p)]
    \/ \E i \in DOMAIN f.peers : g = [f EXCEPT !.peers = RemoveAt(@, i)]

\* There are no others.
LEMMA EditKinds ==
    ASSUME NEW f, NEW g \in Edits(f)
    PROVE  EditOf(f, g)
<1> DEFINE A1 == {[f EXCEPT !.readable = ~@]}
           A2 == {[f EXCEPT !.node = n] : n \in {"", Absent}}
           A3 == UNION {{[f EXCEPT !.server[k] = v] : v \in ServerKeys[k] \cup {Absent}} : k \in DOMAIN f.server}
           A4 == UNION {{[f EXCEPT !.client[k] = v] : v \in ClientKeys[k] \cup {Absent, Mistyped}} : k \in DOMAIN f.client}
           A5 == {[f EXCEPT !.client = c] : c \in {NoClient, [k \in DOMAIN ClientKeys |-> Absent]}}
           A6 == {[f EXCEPT !.peers = Append(@, p)] : p \in IF Len(f.peers) < MaxPeers THEN Peers ELSE {}}
           A7 == {[f EXCEPT !.peers = RemoveAt(@, i)] : i \in DOMAIN f.peers}
<1>1. Edits(f) = A1 \cup A2 \cup A3 \cup A4 \cup A5 \cup A6 \cup A7
  BY Zenon DEF Edits
<1>2. ASSUME g \in A1
      PROVE  EditOf(f, g)
  BY <1>2, Zenon DEF EditOf
<1>3. ASSUME g \in A2
      PROVE  EditOf(f, g)
  BY <1>3, Zenon DEF EditOf
<1>4. ASSUME g \in A3
      PROVE  EditOf(f, g)
  <2>1. \E k \in DOMAIN f.server : \E v \in ServerKeys[k] \cup {Absent} : g = [f EXCEPT !.server[k] = v]
    BY <1>4, Zenon
  <2>2. QED
    BY <2>1, Zenon DEF EditOf
<1>5. ASSUME g \in A4
      PROVE  EditOf(f, g)
  <2>1. \E k \in DOMAIN f.client : \E v \in ClientKeys[k] \cup {Absent, Mistyped} : g = [f EXCEPT !.client[k] = v]
    BY <1>5, Zenon
  <2>2. QED
    BY <2>1, Zenon DEF EditOf
<1>6. ASSUME g \in A5
      PROVE  EditOf(f, g)
  BY <1>6, Zenon DEF EditOf
<1>7. ASSUME g \in A6
      PROVE  EditOf(f, g)
  <2>1. PICK p \in (IF Len(f.peers) < MaxPeers THEN Peers ELSE {}) : g = [f EXCEPT !.peers = Append(@, p)]
    BY <1>7, Zenon
  <2>2. p \in Peers
    BY <2>1
  <2>3. QED
    BY <2>1, <2>2, Zenon DEF EditOf
<1>8. ASSUME g \in A7
      PROVE  EditOf(f, g)
  BY <1>8, Zenon DEF EditOf
<1> HIDE DEF A1, A2, A3, A4, A5, A6, A7
<1>9. QED
  BY <1>1, <1>2, <1>3, <1>4, <1>5, <1>6, <1>7, <1>8

\* A list without one of its entries.
LEMMA RemoveAtType ==
    ASSUME NEW X, NEW s \in Seq(X), NEW i \in DOMAIN s
    PROVE  RemoveAt(s, i) \in Seq(X)
BY DEF RemoveAt

\* An edited file is a file.
LEMMA EditType ==
    ASSUME NEW f \in FileType, NEW g \in Edits(f)
    PROVE  g \in FileType
<1>1. EditOf(f, g)
  BY EditKinds
<1>2. /\ f.server \in ServerSection /\ f.client \in ClientSection \cup {NoClient}
      /\ f.peers \in Seq(Peers)
  BY DEF FileType
<1>3. /\ \A s \in ServerSection : [f EXCEPT !.server = s] \in FileType
      /\ \A c \in ClientSection \cup {NoClient} : [f EXCEPT !.client = c] \in FileType
      /\ \A q \in Seq(Peers) : [f EXCEPT !.peers = q] \in FileType
  BY DEF FileType
<1>4. CASE g = [f EXCEPT !.readable = ~@]
  BY <1>4 DEF FileType
<1>5. CASE \E n \in {"", Absent} : g = [f EXCEPT !.node = n]
  <2>1. PICK n \in PeerNames : g = [f EXCEPT !.node = n]
    BY <1>5, Zenon DEF PeerNames
  <2>2. QED
    BY <2>1 DEF FileType
<1>6. CASE \E k \in DOMAIN f.server : \E v \in ServerKeys[k] \cup {Absent} :
               g = [f EXCEPT !.server[k] = v]
  <2>1. PICK k \in DOMAIN f.server : \E v \in ServerKeys[k] \cup {Absent} : g = [f EXCEPT !.server[k] = v]
    BY <1>6
  <2>2. PICK v \in ServerKeys[k] \cup {Absent} : g = [f EXCEPT !.server[k] = v]
    BY <2>1
  <2>3. [f.server EXCEPT ![k] = v] \in ServerSection
    BY <1>2 DEF ServerSection, ServerKeys
  <2>4. g = [f EXCEPT !.server = [f.server EXCEPT ![k] = v]]
    BY <2>2
  <2>5. QED
    BY <1>3, <2>3, <2>4
<1>7. CASE \E k \in DOMAIN f.client : \E v \in ClientKeys[k] \cup {Absent, Mistyped} :
               g = [f EXCEPT !.client[k] = v]
  <2>1. PICK k \in DOMAIN f.client : \E v \in ClientKeys[k] \cup {Absent, Mistyped} : g = [f EXCEPT !.client[k] = v]
    BY <1>7
  <2>2. PICK v \in ClientKeys[k] \cup {Absent, Mistyped} : g = [f EXCEPT !.client[k] = v]
    BY <2>1
  <2>3. f.client \in ClientSection
    BY <1>2 DEF NoClient
  <2>4. [f.client EXCEPT ![k] = v] \in ClientSection
    BY <2>3 DEF ClientSection, ClientKeys
  <2>5. g = [f EXCEPT !.client = [f.client EXCEPT ![k] = v]]
    BY <2>2
  <2>6. QED
    BY <1>3, <2>4, <2>5
<1>8. CASE \E c \in {NoClient, [k \in DOMAIN ClientKeys |-> Absent]} : g = [f EXCEPT !.client = c]
  <2>1. [k \in DOMAIN ClientKeys |-> Absent] \in ClientSection
    BY DEF ClientKeys, ClientSection
  <2>2. QED
    BY <1>3, <1>8, <2>1
<1>9. CASE \E p \in Peers : g = [f EXCEPT !.peers = Append(@, p)]
  <2>1. PICK p \in Peers : g = [f EXCEPT !.peers = Append(f.peers, p)]
    BY <1>9
  <2>2. Append(f.peers, p) \in Seq(Peers)
    BY <1>2
  <2>3. QED
    BY <1>3, <2>1, <2>2
<1>10. CASE \E i \in DOMAIN f.peers : g = [f EXCEPT !.peers = RemoveAt(@, i)]
  <2>1. PICK i \in DOMAIN f.peers : g = [f EXCEPT !.peers = RemoveAt(f.peers, i)]
    BY <1>10
  <2>2. RemoveAt(f.peers, i) \in Seq(Peers)
    BY <1>2, RemoveAtType
  <2>3. QED
    BY <1>3, <2>1, <2>2
<1>11. QED
  BY <1>1, <1>4, <1>5, <1>6, <1>7, <1>8, <1>9, <1>10 DEF EditOf

\* serde: a file that deserializes becomes a config with a value for every
\* key, and its timings are numbers.
LEMMA FromStr ==
    ASSUME NEW f \in FileType, Deserializes(f)
    PROVE  /\ Timed(from_str(f)) /\ "peers" \in DOMAIN from_str(f)
           /\ \E X : from_str(f).peers \in Seq(X)
           /\ Deserializes(from_str(f))
           /\ \A k \in DOMAIN from_str(f).client : from_str(f).client[k] # Absent
           /\ \A p \in ToSet(from_str(f).peers) : p.heartbeat_port # Absent
<1> DEFINE c == from_str(f)
           filled == [heartbeat_interval |-> OrDefault(f.client.heartbeat_interval, default_heartbeat_interval),
                      max_misses |-> OrDefault(f.client.max_misses, default_max_misses),
                      reconnect_delay |-> OrDefault(f.client.reconnect_delay, default_reconnect_delay)]
           peers == [i \in DOMAIN f.peers |-> PeerFrom(f.peers[i])]
<1>1. /\ c.node = f.node /\ c.server = f.server
      /\ c.client = (IF f.client = NoClient THEN NoClient ELSE filled)
      /\ c.peers = peers /\ "peers" \in DOMAIN c
  <2> HIDE DEF filled, peers
  <2>1. c = [f EXCEPT !.client = IF f.client = NoClient THEN f.client ELSE filled, !.peers = peers]
    BY DEF from_str, FileType, filled, peers
  <2>2. QED
    BY <2>1 DEF FileType
<1>2. /\ c.server.heartbeat_recv_timeout \in Int /\ c.server.probe_idle_timeout \in Int
  <2>1. f.server \in ServerSection
    BY DEF FileType
  <2>2. f.server.heartbeat_recv_timeout # Absent /\ f.server.probe_idle_timeout # Absent
    BY <2>1 DEF Deserializes, ServerSection
  <2>3. QED
    BY <1>1, <2>1, <2>2 DEF ServerSection, Seconds, MAX_SECONDS
<1>3. ASSUME f.client # NoClient
      PROVE  filled \in [heartbeat_interval : Nat, max_misses : Nat, reconnect_delay : Nat]
  <2>1. f.client \in ClientSection
    BY <1>3 DEF FileType
  <2>2. /\ f.client.heartbeat_interval # Mistyped /\ f.client.max_misses # Mistyped
        /\ f.client.reconnect_delay # Mistyped
    BY <2>1 DEF Deserializes, ClientSection
  <2>3. QED
    BY <2>1, <2>2 DEF ClientSection, Seconds, MAX_SECONDS, OrDefault, default_heartbeat_interval,
                default_max_misses, default_reconnect_delay
<1>4. \A i \in DOMAIN f.peers :
          /\ peers[i].name = f.peers[i].name /\ peers[i].host = f.peers[i].host
          /\ peers[i].heartbeat_port \in Nat
  <2> SUFFICES ASSUME NEW i \in DOMAIN f.peers
               PROVE  /\ PeerFrom(f.peers[i]).name = f.peers[i].name
                      /\ PeerFrom(f.peers[i]).host = f.peers[i].host
                      /\ PeerFrom(f.peers[i]).heartbeat_port \in Nat
    OBVIOUS
  <2>1. f.peers \in Seq(Peers)
    BY DEF FileType
  <2>2. PICK p : p = f.peers[i]
    OBVIOUS
  <2>3. f.peers[i] \in Peers
    BY <2>1
  <2>4. p \in Peers
    BY <2>2, <2>3, Zenon
  <2>5. p.heartbeat_port # Mistyped
    BY <2>2, Zenon DEF Deserializes
  <2>6. QED
    BY <2>2, <2>4, <2>5 DEF Peers, PeerFrom, OrDefault, default_peer_heartbeat_port
<1>5. DOMAIN peers = DOMAIN f.peers /\ \E X : peers \in Seq(X)
  <2>1. f.peers \in Seq(Peers)
    BY DEF FileType
  <2>2. Len(f.peers) \in Nat /\ DOMAIN f.peers = 1 .. Len(f.peers)
    BY <2>1
  <2> DEFINE X == {PeerFrom(f.peers[i]) : i \in DOMAIN f.peers}
  <2>3. peers \in [1 .. Len(f.peers) -> X]
    BY <2>2, Zenon
  <2> HIDE DEF X
  <2>4. peers \in Seq(X)
    BY <2>2, <2>3
  <2>5. QED
    BY <2>4
<1> HIDE DEF c, peers, filled
<1>6. Timed(c)
  BY <1>1, <1>2, <1>3 DEF Timed
<1>7. Deserializes(c)
  <2>1. c.node # Absent /\ \A k \in DOMAIN c.server : c.server[k] # Absent
    BY <1>1 DEF Deserializes
  <2>2. \A k \in DOMAIN c.client : c.client[k] # Mistyped
    BY <1>1, <1>3, MistypedAssumption DEF NoClient
  <2>3. \A i \in DOMAIN c.peers : /\ c.peers[i].name # Absent /\ c.peers[i].host # Absent
                                  /\ c.peers[i].heartbeat_port # Mistyped
    BY <1>1, <1>4, <1>5, MistypedAssumption DEF Deserializes
  <2>4. QED
    BY <2>1, <2>2, <2>3, Zenon DEF Deserializes
<1>8. \A k \in DOMAIN c.client : c.client[k] # Absent
  BY <1>1, <1>3, AbsentAssumption DEF NoClient
<1>9. \A p \in ToSet(c.peers) : p.heartbeat_port # Absent
  BY <1>1, <1>4, <1>5, AbsentAssumption DEF ToSet
<1>10. QED
  BY <1>1, <1>5, <1>6, <1>7, <1>8, <1>9 DEF c

\* A config has a value for every key.
Complete(c) ==
    /\ Deserializes(c)
    /\ \A k \in DOMAIN c.client : c.client[k] # Absent
    /\ \A p \in ToSet(c.peers) : p.heartbeat_port # Absent

\* What load returns.
Verdicts == {"ok", "read", "parse"} \cup SettingErrors \cup PeerErrors

\* A file that loads becomes a complete and sound config; of one that gets as
\* far as validate, the verdict is that of validate.
LEMMA LoadRight ==
    ASSUME NEW f \in FileType
    PROVE  /\ load(f) \in Verdicts
           /\ load(f) = "ok" => Complete(from_str(f)) /\ Sound(from_str(f))
           /\ f.readable /\ Deserializes(f) => load(f) = validate(from_str(f))
<1> DEFINE c == from_str(f)
<1>1. CASE ~f.readable
  <2>1. load(f) = "read"
    BY <1>1, Zenon DEF load
  <2>2. QED
    BY <1>1, <2>1 DEF Verdicts
<1>2. CASE f.readable /\ ~Deserializes(f)
  <2>1. load(f) = "parse"
    BY <1>2, Zenon DEF load
  <2>2. QED
    BY <1>2, <2>1 DEF Verdicts
<1>3. CASE f.readable /\ Deserializes(f)
  <2>1. load(f) = validate(c)
    BY <1>3, Zenon DEF load
  <2>2. Timed(c) /\ "peers" \in DOMAIN c /\ Complete(c)
    BY <1>3, FromStr, Zenon DEF Complete
  <2>3. PICK X : c.peers \in Seq(X)
    BY <1>3, FromStr, Zenon
  <2> HIDE DEF c
  <2>4. validate(c) \in SettingErrors \cup PeerErrors \cup {"ok"} /\ (validate(c) = "ok" <=> Sound(c))
    BY <2>2, <2>3, ValidateRight
  <2>5. validate(c) \in Verdicts
    BY <2>4 DEF Verdicts
  <2>6. QED
    BY <2>1, <2>2, <2>4, <2>5 DEF c
<1>4. QED
  BY <1>1, <1>2, <1>3

-----------------------------------------------------------------------------
(***************************************************************************)
(* The inductive invariant.  The verdict is that of the file as it is now, *)
(* since an edit takes it back; what runs need not be, and is sound on its *)
(* own account.                                                            *)
(***************************************************************************)
IInv ==
    /\ file \in FileType
    /\ edits \in 0 .. MaxEdits
    /\ verdict # Absent => verdict = load(file)
    /\ running # Absent => Complete(running) /\ Sound(running)

\* It holds at the start and no edit, load or exit breaks it.
LEMMA Inductive == Spec => []IInv
<1>1. Init => IInv
  BY ShippedType, BoundsAssumption DEF Init, IInv
<1>2. IInv /\ [Next]_vars => IInv'
  <2> SUFFICES ASSUME IInv, [Next]_vars
               PROVE  IInv'
    OBVIOUS
  <2>1. CASE Edit
    <3>1. file' \in FileType
      <4>1. file' \in Edits(file)
        BY <2>1 DEF Edit
      <4>2. QED
        BY <4>1, EditType DEF IInv
    <3>2. edits' \in 0 .. MaxEdits
      BY <2>1, BoundsAssumption DEF Edit, IInv
    <3>3. verdict' = Absent /\ running' = running
      BY <2>1 DEF Edit
    <3>4. QED
      BY <3>1, <3>2, <3>3, Zenon DEF IInv
  <2>2. CASE Load
    <3>1. verdict' = load(file) /\ file' = file /\ edits' = edits
      BY <2>2 DEF Load
    <3>2. ASSUME running' # Absent
          PROVE  Complete(running') /\ Sound(running')
      <4>1. CASE verdict' = "ok"
        <5>1. running' = from_str(file)
          BY <2>2, <4>1, Zenon DEF Load
        <5>2. Complete(from_str(file)) /\ Sound(from_str(file))
          BY <3>1, <4>1, LoadRight DEF IInv
        <5>3. QED
          BY <5>1, <5>2, Zenon
      <4>2. CASE verdict' # "ok"
        <5>1. running' = running
          BY <2>2, <4>2, Zenon DEF Load
        <5>2. QED
          BY <3>2, <5>1, Zenon DEF IInv
      <4>3. QED
        BY <4>1, <4>2
    <3>3. QED
      BY <3>1, <3>2, Zenon DEF IInv
  <2>3. CASE Exit
    BY <2>3, Zenon DEF Exit, IInv
  <2>4. CASE UNCHANGED vars
    BY <2>4, Zenon DEF vars, IInv
  <2>5. QED
    BY <2>1, <2>2, <2>3, <2>4 DEF Next
<1>3. QED
  BY <1>1, <1>2, PTL DEF Spec

-----------------------------------------------------------------------------
(***************************************************************************)
(* The theorems.                                                           *)
(***************************************************************************)

\* Types: main and watch_sighup only ever let a config run that has a value for
\* every key, and load reports nothing but the errors of config.rs.
THEOREM TypeCorrect == Spec => []TypeOK
<1>1. IInv => TypeOK
  <2> SUFFICES ASSUME IInv
               PROVE  TypeOK
    OBVIOUS
  <2>1. verdict # Absent => verdict \in Verdicts
    BY LoadRight DEF IInv
  <2>2. verdict \in {Absent} \cup Verdicts
    BY <2>1
  <2>3. running # Absent => Complete(running)
    BY Zenon DEF IInv
  <2>4. edits \in 0 .. MaxEdits
    BY DEF IInv
  <2>5. QED
    BY <2>2, <2>3, <2>4, Zenon DEF TypeOK, Complete, Verdicts, SettingErrors, PeerErrors
<1>2. QED
  BY <1>1, Inductive, PTL

\* However the file is edited between start and reloads, what runs is sound:
\* Config::validate turns down everything the sessions, the listeners and
\* run_manager could not live with.
THEOREM NeverUnsound == Spec => []NeverRunsUnsound
<1>1. IInv => NeverRunsUnsound
  BY DEF IInv, NeverRunsUnsound
<1>2. QED
  BY <1>1, Inductive, PTL

\* Config::validate turns down nothing that is sound, and the error it returns
\* names a rule that is broken while those before it are kept.
THEOREM VerdictIsRight == Spec => []VerdictRight
<1>1. IInv => VerdictRight
  <2> SUFFICES ASSUME IInv, verdict # Absent, file.readable, Deserializes(file)
               PROVE  VerdictRight
    BY Zenon DEF VerdictRight
  <2> DEFINE c == from_str(file)
  <2>1. file \in FileType /\ verdict = load(file)
    BY DEF IInv
  <2>2. verdict = validate(c)
    BY <2>1, LoadRight
  <2>3. Timed(c) /\ "peers" \in DOMAIN c
    BY <2>1, FromStr, Zenon
  <2>4. PICK X : c.peers \in Seq(X)
    BY <2>1, FromStr, Zenon
  <2> HIDE DEF c
  <2>5. /\ verdict = "ok" <=> Sound(c)
        /\ verdict \notin {"ok", "node.name"} => c.node # ""
        /\ verdict \in PeerErrors => Sound([c EXCEPT !.peers = <<>>])
        /\ verdict = "duplicate peer" =>
              \E i \in DOMAIN c.peers :
                  /\ \E j \in 1 .. (i - 1) : c.peers[j].name = c.peers[i].name
                  /\ Sound([c EXCEPT !.peers = SubSeq(c.peers, 1, i - 1)])
    BY <2>2, <2>3, <2>4, ValidateRight
  <2>6. QED
    BY <2>5, Zenon DEF VerdictRight, PeerErrors, c
<1>2. QED
  BY <1>1, Inductive, PTL

=============================================================================
