--------------------------- MODULE NoteLivesProofs ---------------------------
(* What TLAPS proves of NoteLives, for any devices, any number of words,     *)
(* deletes and lost connections: the types, and that operations of two lives *)
(* of a note meet in no document where the code is able to tell them apart.  *)
EXTENDS NoteLives, FiniteSetTheorems, SequenceTheorems, TLAPS

USE NoteLivesAssumption DEF history

(* The types of TypeOK, for the lives that were begun up to n.               *)
OpsTo(n) == [word : Words, life : 1..n, cut : BOOLEAN]
HistoriesTo(n) == [Devices -> Seq(OpsTo(n))]
Versions == [Devices -> Nat]
DeltasTo(n) == [history : HistoriesTo(n), since : Versions]
MessagesTo(n) ==
  [kind : {"refused", "conflict"}] \cup [kind : {"deleted"}, hash : Texts] \cup
  [kind : {"broadcast"}, delta : DeltasTo(n), known : HistoriesTo(n)]
ServersTo(n) == [live : BOOLEAN, tombstone : BOOLEAN, hash : Texts, history : HistoriesTo(n)]
NotesTo(n) ==
  [file : Texts \cup {NoFile}, doc : HistoriesTo(n), copies : Texts,
   pending : {"none", "sent", "kept"}, tombstoned : BOOLEAN, unacked : BOOLEAN]
InboxesTo(n) == [Devices -> Seq(MessagesTo(n))]

---------------------------------------------------------------------------
(* Histories.                                                                *)

LEMMA HistoriesGrow ==
  ASSUME NEW m \in Nat, NEW n \in Nat, m <= n
  PROVE  /\ OpsTo(m) \subseteq OpsTo(n) /\ HistoriesTo(m) \subseteq HistoriesTo(n)
         /\ DeltasTo(m) \subseteq DeltasTo(n) /\ MessagesTo(m) \subseteq MessagesTo(n)
         /\ ServersTo(m) \subseteq ServersTo(n) /\ NotesTo(m) \subseteq NotesTo(n)
         /\ InboxesTo(m) \subseteq InboxesTo(n)
<1>1. OpsTo(m) \subseteq OpsTo(n)
  BY DEF OpsTo
<1>2. HistoriesTo(m) \subseteq HistoriesTo(n)
  <2> SUFFICES ASSUME NEW h \in [Devices -> Seq(OpsTo(m))] PROVE h \in [Devices -> Seq(OpsTo(n))]
    BY DEF HistoriesTo
  <2>1. \A a \in Devices : h[a] \in Seq(OpsTo(n))
    BY <1>1, SeqMonotonic
  <2> QED BY <2>1
<1>3. DeltasTo(m) \subseteq DeltasTo(n)
  BY <1>2 DEF DeltasTo
<1>4. MessagesTo(m) \subseteq MessagesTo(n)
  BY <1>2, <1>3 DEF MessagesTo
<1>5. ServersTo(m) \subseteq ServersTo(n) /\ NotesTo(m) \subseteq NotesTo(n)
  BY <1>2 DEF ServersTo, NotesTo
<1>6. InboxesTo(m) \subseteq InboxesTo(n)
  <2> SUFFICES ASSUME NEW h \in [Devices -> Seq(MessagesTo(m))] PROVE h \in [Devices -> Seq(MessagesTo(n))]
    BY DEF InboxesTo
  <2>1. \A a \in Devices : h[a] \in Seq(MessagesTo(n))
    BY <1>4, SeqMonotonic
  <2> QED BY <2>1
<1> QED BY <1>1, <1>2, <1>3, <1>4, <1>5, <1>6

LEMMA HistoryFacts ==
  ASSUME NEW n \in Nat, NEW h \in HistoriesTo(n)
  PROVE  /\ Empty \in HistoriesTo(n) /\ Version(h) \in Versions /\ Nothing \in Versions
         /\ \A a \in Devices : /\ h[a] \in Seq(OpsTo(n)) /\ Len(h[a]) \in Nat /\ Version(h)[a] = Len(h[a])
                               /\ Empty[a] = <<>> /\ Nothing[a] = 0
         /\ \A o : o \in OpsOf(h) <=> \E a \in Devices : \E i \in 1..Len(h[a]) : o = h[a][i]
         /\ OpsOf(h) \subseteq OpsTo(n) /\ Text(h) \in Texts
         /\ (\A a \in Devices : Len(h[a]) = 0) => h = Empty
<1>1. \A a \in Devices : h[a] \in Seq(OpsTo(n)) /\ Len(h[a]) \in Nat /\ DOMAIN h[a] = 1..Len(h[a])
  BY LenProperties DEF HistoriesTo
<1>2. /\ Empty \in HistoriesTo(n) /\ Version(h) \in Versions /\ Nothing \in Versions
      /\ \A a \in Devices : Version(h)[a] = Len(h[a]) /\ Empty[a] = <<>> /\ Nothing[a] = 0
  <2>1. <<>> \in Seq(OpsTo(n)) /\ Len(<<>>) = 0
    BY EmptySeq
  <2> QED BY <1>1, <2>1 DEF Empty, HistoriesTo, Version, Versions, Nothing
<1>3. \A o : o \in OpsOf(h) <=> \E a \in Devices : \E i \in 1..Len(h[a]) : o = h[a][i]
  BY <1>1 DEF OpsOf, ToSet
<1>4. OpsOf(h) \subseteq OpsTo(n)
  BY <1>1, <1>3, ElementOfSeq
<1>5. Text(h) \in Texts
  BY <1>4 DEF Text, Texts, OpsTo
<1>6. ASSUME \A a \in Devices : Len(h[a]) = 0 PROVE h = Empty
  <2>1. \A a \in Devices : h[a] = <<>>
    BY <1>1, <1>6, EmptySeq
  <2> QED BY <2>1 DEF Empty, HistoriesTo
<1> QED BY <1>1, <1>2, <1>3, <1>4, <1>5, <1>6

LEMMA EmptyFacts ==
  /\ OpsOf(Empty) = {} /\ Text(Empty) = {}
  /\ \A a \in Devices : Empty[a] = <<>> /\ Len(Empty[a]) = 0 /\ Nothing[a] = 0
<1>1. \A a \in Devices : Empty[a] = <<>> /\ ToSet(Empty[a]) = {} /\ Len(Empty[a]) = 0
  BY DEF Empty, ToSet
<1>2. OpsOf(Empty) = {}
  BY <1>1 DEF OpsOf
<1>3. Text(Empty) = {}
  BY <1>2 DEF Text
<1>4. \A a \in Devices : Nothing[a] = 0
  BY <1>1 DEF Nothing, Version
<1> QED BY <1>1, <1>2, <1>3, <1>4

(* What a sequence lacks of another.                                         *)
LEMMA SuffixGives ==
  ASSUME NEW S, NEW t, NEW k \in Nat, NEW l \in Nat, \A i \in (k + 1)..l : t[i] \in S
  PROVE  /\ SubSeq(t, k + 1, l) \in Seq(S)
         /\ Len(SubSeq(t, k + 1, l)) = IF k < l THEN l - k ELSE 0
         /\ \A i \in 1..(l - k) : SubSeq(t, k + 1, l)[i] = t[k + i]
<1> DEFINE m == k + 1
<1>1. m \in Int /\ l \in Int /\ \A i \in m..l : t[i] \in S
  OBVIOUS
<1>2. l - m + 1 = l - k /\ (m <= l <=> k < l) /\ \A i \in 1..(l - k) : m + i - 1 = k + i
  OBVIOUS
<1> HIDE DEF m
<1>3. /\ SubSeq(t, m, l) \in Seq(S)
      /\ Len(SubSeq(t, m, l)) = IF m <= l THEN l - m + 1 ELSE 0
      /\ \A i \in 1..(l - m + 1) : SubSeq(t, m, l)[i] = t[m + i - 1]
  BY <1>1, SubSeqProperties
<1>4. /\ SubSeq(t, m, l) \in Seq(S)
      /\ Len(SubSeq(t, m, l)) = IF k < l THEN l - k ELSE 0
      /\ \A i \in 1..(l - k) : SubSeq(t, m, l)[i] = t[k + i]
  BY <1>2, <1>3
<1> QED BY <1>4 DEF m

LEMMA ContinuedGives ==
  ASSUME NEW S, NEW p \in Seq(S), NEW q \in Seq(S), NEW g, g = p \o SubSeq(q, Len(p) + 1, Len(q))
  PROVE  /\ g \in Seq(S) /\ Len(p) <= Len(g) /\ Len(q) <= Len(g)
         /\ \A i \in 1..Len(p) : g[i] = p[i]
         /\ \A i \in 1..Len(g) : i > Len(p) => i \in 1..Len(q) /\ g[i] = q[i]
<1> DEFINE k == Len(p)
           l == Len(q)
<1>1. k \in Nat /\ l \in Nat
  BY LenProperties
<1>2. \A i \in (k + 1)..l : q[i] \in S
  <2>1. \A i \in (k + 1)..l : i \in 1..l
    BY <1>1
  <2> QED BY <2>1, ElementOfSeq
<1>3. PICK s : s = SubSeq(q, Len(p) + 1, Len(q))
  OBVIOUS
<1>4. /\ s \in Seq(S)
      /\ Len(s) = IF k < l THEN l - k ELSE 0
      /\ \A i \in 1..(l - k) : s[i] = q[k + i]
  <2> HIDE DEF k, l
  <2>1. /\ SubSeq(q, k + 1, l) \in Seq(S)
        /\ Len(SubSeq(q, k + 1, l)) = IF k < l THEN l - k ELSE 0
        /\ \A i \in 1..(l - k) : SubSeq(q, k + 1, l)[i] = q[k + i]
    BY <1>1, <1>2, SuffixGives
  <2>2. s = SubSeq(q, k + 1, l)
    BY <1>3 DEF k, l
  <2> QED BY <2>1, <2>2
<1>5. /\ g \in Seq(S) /\ Len(g) = k + Len(s)
      /\ \A i \in 1..(k + Len(s)) : g[i] = IF i <= k THEN p[i] ELSE s[i - k]
  <2>1. g = p \o s
    BY <1>3
  <2> QED BY <1>4, <2>1, ConcatProperties
<1> HIDE DEF k, l
<1>6. Len(s) \in Nat /\ (k + Len(s) = k \/ k + Len(s) = l) /\ k <= k + Len(s) /\ l <= k + Len(s)
  BY <1>1, <1>4
<1>7. ASSUME NEW i \in 1..(k + Len(s)), i > k PROVE i \in 1..l /\ g[i] = q[i]
  <2>1. i - k \in 1..(l - k) /\ k + (i - k) = i /\ ~(i <= k) /\ i \in 1..l
    BY <1>1, <1>4, <1>6, <1>7
  <2>2. s[i - k] = q[i]
    BY <1>4, <2>1
  <2> QED BY <1>5, <1>7, <2>1, <2>2
<1>8. ASSUME NEW i \in 1..k PROVE g[i] = p[i]
  <2>1. i \in 1..(k + Len(s)) /\ i <= k
    BY <1>1, <1>6, <1>8
  <2> QED BY <1>5, <2>1
<1> QED BY <1>5, <1>6, <1>7, <1>8 DEF k, l

(* What importing does: every sequence is continued by what it lacks.        *)
Continues(g, h) ==
  \A a \in Devices : Len(h[a]) <= Len(g[a]) /\ \A i \in 1..Len(h[a]) : g[a][i] = h[a][i]

LEMMA ImportGives ==
  ASSUME NEW n \in Nat, NEW h \in HistoriesTo(n), NEW delta \in DeltasTo(n)
  PROVE  /\ Import(h, delta) \in HistoriesTo(n)
         /\ Continues(Import(h, delta), h)
         /\ OpsOf(h) \subseteq OpsOf(Import(h, delta))
         /\ OpsOf(Import(h, delta)) \subseteq OpsOf(h) \cup OpsOf(delta.history)
         /\ ~Covers(Version(h), delta.since) => Import(h, delta) = h
         /\ Covers(Version(h), delta.since) =>
              \A a \in Devices : Len(delta.history[a]) <= Len(Import(h, delta)[a])
<1> DEFINE k == delta.history
           g == Import(h, delta)
<1>1. /\ k \in HistoriesTo(n)
      /\ \A a \in Devices : h[a] \in Seq(OpsTo(n)) /\ k[a] \in Seq(OpsTo(n)) /\ Len(h[a]) \in Nat /\ Len(k[a]) \in Nat
  BY HistoryFacts DEF DeltasTo
<1>2. CASE ~Covers(Version(h), delta.since)
  BY <1>1, <1>2 DEF Import, Continues
<1>3. CASE Covers(Version(h), delta.since)
  <2>1. g = [a \in Devices |-> h[a] \o SubSeq(k[a], Len(h[a]) + 1, Len(k[a]))]
    BY <1>3 DEF Import
  <2>2. ASSUME NEW a \in Devices
        PROVE  /\ g[a] \in Seq(OpsTo(n)) /\ Len(h[a]) <= Len(g[a]) /\ Len(k[a]) <= Len(g[a])
               /\ \A i \in 1..Len(h[a]) : g[a][i] = h[a][i]
               /\ \A i \in 1..Len(g[a]) : i > Len(h[a]) => i \in 1..Len(k[a]) /\ g[a][i] = k[a][i]
    <3>1. g[a] = h[a] \o SubSeq(k[a], Len(h[a]) + 1, Len(k[a]))
      BY <2>1
    <3> HIDE DEF g, k
    <3>2. PICK p \in Seq(OpsTo(n)), q \in Seq(OpsTo(n)), u \in {g[a]} : p = h[a] /\ q = k[a] /\ u = g[a]
      BY <1>1
    <3>3. u = p \o SubSeq(q, Len(p) + 1, Len(q))
      BY <3>1, <3>2
    <3>4. /\ u \in Seq(OpsTo(n)) /\ Len(p) <= Len(u) /\ Len(q) <= Len(u)
          /\ \A i \in 1..Len(p) : u[i] = p[i]
          /\ \A i \in 1..Len(u) : i > Len(p) => i \in 1..Len(q) /\ u[i] = q[i]
      BY <3>3, ContinuedGives
    <3> QED BY <3>2, <3>4
  <2>3. g \in HistoriesTo(n)
    BY <2>1, <2>2 DEF HistoriesTo
  <2> HIDE DEF g
  <2>4. Continues(g, h)
    BY <2>2 DEF Continues
  <2>5. OpsOf(h) \subseteq OpsOf(g)
    <3> SUFFICES ASSUME NEW a \in Devices, NEW i \in 1..Len(h[a]) PROVE h[a][i] \in OpsOf(g)
      BY HistoryFacts
    <3>1. i \in 1..Len(g[a]) /\ g[a][i] = h[a][i]
      BY <1>1, <2>2, LenProperties
    <3> QED BY <2>3, <3>1, HistoryFacts
  <2>6. OpsOf(g) \subseteq OpsOf(h) \cup OpsOf(k)
    <3> SUFFICES ASSUME NEW a \in Devices, NEW i \in 1..Len(g[a]) PROVE g[a][i] \in OpsOf(h) \cup OpsOf(k)
      BY <2>3, HistoryFacts
    <3>1. CASE i \in 1..Len(h[a])
      BY <2>2, <3>1, HistoryFacts
    <3>2. CASE i > Len(h[a])
      BY <1>1, <2>2, <3>2, HistoryFacts
    <3> QED BY <1>1, <3>1, <3>2
  <2> QED BY <1>3, <2>2, <2>3, <2>4, <2>5, <2>6 DEF g
<1> QED BY <1>2, <1>3

(* A finite set in some order.                                               *)
LEMMA OperationsTyped ==
  ASSUME NEW n \in Nat, NEW set \in Texts, NEW life \in 1..n, NEW cut \in BOOLEAN
  PROVE  /\ Operations(set, life, cut) \in Seq(OpsTo(n))
         /\ \A i \in 1..Len(Operations(set, life, cut)) : Operations(set, life, cut)[i].life = life
<1>1. IsFiniteSet(set)
  <2>1. IsFiniteSet(1..MaxWords)
    BY FS_Interval
  <2> QED BY <2>1, FS_Subset DEF Texts, Words
<1>2. Cardinality(set) \in Nat /\ ExistsBijection(1..Cardinality(set), set)
  BY <1>1, FS_CardinalityType
<1>3. \E f \in [1..Cardinality(set) -> set] : IsInjective(f)
  BY <1>2 DEF ExistsBijection, Bijection, Injection, IsInjective
<1>4. SetToSeq(set) \in [1..Cardinality(set) -> set]
  BY <1>3 DEF SetToSeq
<1> DEFINE q == Operations(set, life, cut)
<1>5. q \in [1..Cardinality(set) -> OpsTo(n)] /\ \A i \in 1..Cardinality(set) : q[i].life = life
  BY <1>4 DEF Operations, OpsTo, Texts
<1>6. q \in Seq(OpsTo(n)) /\ Len(q) = Cardinality(set)
  BY <1>2, <1>5
<1> QED BY <1>5, <1>6

(* No operation at all.                                                      *)
LEMMA NoOperations ==
  \A life, cut : Operations({}, life, cut) = <<>>
<1>1. Cardinality({}) = 0
  BY FS_EmptySet
<1> QED BY <1>1 DEF Operations

(* Writing a text into a document continues the author's sequence, in the    *)
(* life of the document or, if it is empty, in a new one.                    *)
LEMMA SyncGives ==
  ASSUME NEW d \in Devices, NEW h \in HistoriesTo(lives), NEW text \in Texts, lives \in Nat, Begins(h, text)
  PROVE  /\ lives' \in Nat /\ lives <= lives'
         /\ SyncFromDisk(d, h, text) \in HistoriesTo(lives')
         /\ Continues(SyncFromDisk(d, h, text), h)
         /\ OpsOf(h) \subseteq OpsOf(SyncFromDisk(d, h, text))
         /\ \A o \in OpsOf(SyncFromDisk(d, h, text)) : o \in OpsOf(h) \/ o.life = LifeFor(h)
         /\ h # Empty => \E o \in OpsOf(h) : LifeFor(h) = o.life
<1> DEFINE g == SyncFromDisk(d, h, text)
           A == Text(h) \ text
           B == text \ Text(h)
<1>1. lives' \in Nat /\ lives <= lives' /\ (h = Empty /\ text # {} => lives' = lives + 1)
  BY DEF Begins
<1>2. A \in Texts /\ B \in Texts /\ (h = Empty => A = {} /\ B = text) /\ h \in HistoriesTo(lives')
  BY <1>1, HistoryFacts, EmptyFacts, HistoriesGrow DEF Texts
<1>3. ASSUME h # Empty PROVE \E o \in OpsOf(h) : LifeFor(h) = o.life
  <2>1. PICK a \in Devices : Len(h[a]) # 0
    BY <1>3, HistoryFacts
  <2>2. 1 \in 1..Len(h[a])
    BY <2>1, HistoryFacts
  <2>3. h[a][1] \in OpsOf(h)
    BY <2>2, HistoryFacts
  <2>4. LivesOf(h) # {}
    BY <2>3 DEF LivesOf
  <2>5. LifeFor(h) \in LivesOf(h)
    BY <1>3, <2>4 DEF LifeFor
  <2> QED BY <2>5 DEF LivesOf
<1>4. LifeFor(h) \in 1..lives' \/ (A = {} /\ B = {})
  <2>1. CASE h # Empty
    <3>1. PICK o \in OpsOf(h) : LifeFor(h) = o.life
      BY <1>3, <2>1
    <3>2. o \in OpsTo(lives)
      BY <3>1, HistoryFacts
    <3> QED BY <1>1, <3>1, <3>2 DEF OpsTo
  <2>2. CASE h = Empty /\ text # {}
    BY <1>1, <2>2 DEF LifeFor
  <2>3. CASE h = Empty /\ text = {}
    BY <1>2, <2>3
  <2> QED BY <2>1, <2>2, <2>3
<1>5. PICK p, q : p = Operations(A, LifeFor(h), TRUE) /\ q = Operations(B, LifeFor(h), FALSE)
  OBVIOUS
<1>6. /\ p \in Seq(OpsTo(lives')) /\ q \in Seq(OpsTo(lives'))
      /\ \A i \in 1..Len(p) : p[i].life = LifeFor(h)
      /\ \A i \in 1..Len(q) : q[i].life = LifeFor(h)
  <2>1. CASE LifeFor(h) \in 1..lives'
    <3> HIDE DEF A, B
    <3> QED BY <1>1, <1>2, <1>5, <2>1, OperationsTyped
  <2>2. CASE A = {} /\ B = {}
    <3>1. p = <<>> /\ q = <<>>
      BY <1>5, <2>2, NoOperations
    <3> QED BY <3>1, EmptySeq
  <2> QED BY <1>4, <2>1, <2>2
<1>7. PICK s : s = h[d] \o p \o q
  OBVIOUS
<1>8. g = [h EXCEPT ![d] = s]
  BY <1>5, <1>7 DEF SyncFromDisk
<1>9. /\ s \in Seq(OpsTo(lives')) /\ Len(h[d]) <= Len(s)
      /\ \A i \in 1..Len(h[d]) : s[i] = h[d][i]
      /\ \A i \in 1..Len(s) : i > Len(h[d]) => s[i].life = LifeFor(h)
  <2>1. PICK t : t = h[d]
    OBVIOUS
  <2>2. t \in Seq(OpsTo(lives')) /\ Len(t) \in Nat /\ Len(p) \in Nat /\ Len(q) \in Nat
    BY <1>1, <1>2, <1>6, <2>1, HistoryFacts, LenProperties
  <2>3. /\ t \o p \in Seq(OpsTo(lives')) /\ Len(t \o p) = Len(t) + Len(p)
        /\ \A i \in 1..(Len(t) + Len(p)) : (t \o p)[i] = IF i <= Len(t) THEN t[i] ELSE p[i - Len(t)]
    BY <1>6, <2>2, ConcatProperties
  <2>4. /\ s \in Seq(OpsTo(lives')) /\ Len(s) = (Len(t) + Len(p)) + Len(q)
        /\ \A i \in 1..((Len(t) + Len(p)) + Len(q)) :
             s[i] = IF i <= Len(t) + Len(p) THEN (t \o p)[i] ELSE q[i - (Len(t) + Len(p))]
    <3>1. PICK r : r = t \o p
      OBVIOUS
    <3>2. s = r \o q
      BY <1>7, <2>1, <3>1
    <3>3. /\ r \o q \in Seq(OpsTo(lives')) /\ Len(r \o q) = Len(r) + Len(q)
          /\ \A i \in 1..(Len(r) + Len(q)) : (r \o q)[i] = IF i <= Len(r) THEN r[i] ELSE q[i - Len(r)]
      BY <1>6, <2>3, <3>1, ConcatProperties
    <3> QED BY <2>3, <3>1, <3>2, <3>3
  <2>5. \A i \in 1..Len(t) : s[i] = t[i]
    BY <2>2, <2>3, <2>4
  <2>6. ASSUME NEW i \in 1..Len(s), i > Len(t) PROVE s[i].life = LifeFor(h)
    <3>1. CASE i <= Len(t) + Len(p)
      <4>1. s[i] = p[i - Len(t)] /\ i - Len(t) \in 1..Len(p)
        BY <2>2, <2>3, <2>4, <2>6, <3>1
      <4> QED BY <1>6, <4>1
    <3>2. CASE ~(i <= Len(t) + Len(p))
      <4>1. s[i] = q[i - (Len(t) + Len(p))] /\ i - (Len(t) + Len(p)) \in 1..Len(q)
        BY <2>2, <2>4, <2>6, <3>2
      <4> QED BY <1>6, <4>1
    <3> QED BY <3>1, <3>2
  <2>7. Len(t) <= Len(s)
    BY <2>2, <2>4
  <2> QED BY <2>1, <2>4, <2>5, <2>6, <2>7
<1>10. g \in HistoriesTo(lives') /\ g[d] = s /\ \A a \in Devices : a # d => g[a] = h[a]
  BY <1>2, <1>8, <1>9 DEF HistoriesTo
<1> HIDE DEF g
<1>11. \A a \in Devices : Len(h[a]) \in Nat /\ Len(g[a]) \in Nat
  BY <1>1, <1>2, <1>10, HistoryFacts
<1>12. Continues(g, h)
  BY <1>9, <1>10, <1>11 DEF Continues
<1>13. OpsOf(h) \subseteq OpsOf(g)
  <2> SUFFICES ASSUME NEW a \in Devices, NEW i \in 1..Len(h[a]) PROVE h[a][i] \in OpsOf(g)
    BY HistoryFacts
  <2>1. i \in 1..Len(g[a]) /\ g[a][i] = h[a][i]
    BY <1>11, <1>12 DEF Continues
  <2> QED BY <1>1, <1>10, <2>1, HistoryFacts
<1>14. ASSUME NEW o \in OpsOf(g), o \notin OpsOf(h) PROVE o.life = LifeFor(h)
  <2>0. PICK a \in Devices : \E i \in 1..Len(g[a]) : o = g[a][i]
    BY <1>1, <1>10, <1>14, HistoryFacts
  <2>1. PICK i \in 1..Len(g[a]) : o = g[a][i]
    BY <2>0
  <2>2. CASE a # d \/ i <= Len(h[d])
    <3>1. i \in 1..Len(h[a]) /\ g[a][i] = h[a][i]
      BY <1>9, <1>10, <1>11, <2>1, <2>2
    <3> QED BY <1>14, <2>1, <3>1, HistoryFacts
  <2>3. CASE a = d /\ ~(i <= Len(h[d]))
    BY <1>9, <1>10, <1>11, <2>1, <2>3
  <2> QED BY <2>2, <2>3
<1> QED BY <1>1, <1>3, <1>10, <1>12, <1>13, <1>14 DEF g

---------------------------------------------------------------------------
(* Types.                                                                    *)

LEMMA Fields ==
  ASSUME TypeOK
  PROVE  /\ lives \in Nat /\ words \in Nat /\ words \in 0..MaxWords
         /\ server \in ServersTo(lives) /\ server.history \in HistoriesTo(lives)
         /\ note \in [Devices -> NotesTo(lives)] /\ inbox \in InboxesTo(lives)
         /\ \A d \in Devices : note[d] \in NotesTo(lives) /\ note[d].doc \in HistoriesTo(lives)
<1>1. Histories = HistoriesTo(lives)
  BY DEF Histories, HistoriesTo, OpsTo
<1>2. Messages = MessagesTo(lives)
  BY <1>1 DEF Messages, MessagesTo, DeltasTo, Versions
<1>3. /\ lives \in Nat /\ words \in 0..MaxWords
      /\ server \in ServersTo(lives) /\ note \in [Devices -> NotesTo(lives)] /\ inbox \in InboxesTo(lives)
  BY <1>1, <1>2 DEF TypeOK, ServersTo, NotesTo, InboxesTo
<1>4. server.history \in HistoriesTo(lives) /\ \A d \in Devices : note[d].doc \in HistoriesTo(lives)
  BY <1>3 DEF ServersTo, NotesTo
<1> QED BY <1>3, <1>4

LEMMA ShowsTyped ==
  ASSUME NEW n \in Nat, NEW x \in NotesTo(n), NEW text \in Texts, NEW known
  PROVE  /\ Shows(x, text, known) \in NotesTo(n)
         /\ Shows(x, text, known).file = text /\ Shows(x, text, known).doc = x.doc
<1>1. /\ x.file \in Texts \cup {NoFile} /\ x.copies \in Texts /\ x.doc \in HistoriesTo(n)
      /\ x.tombstoned \in BOOLEAN /\ x.unacked \in BOOLEAN
  BY DEF NotesTo
<1>2. CASE x.file = text
  BY <1>2 DEF Shows
<1>3. CASE x.file # text
  <2>1. PICK c \in Texts : c = IF x.file \in known \cup {NoFile} THEN x.copies ELSE x.copies \cup x.file
    BY <1>1 DEF Texts
  <2>2. PICK b \in BOOLEAN : b = (x.tombstoned \/ x.pending # "none")
    OBVIOUS
  <2>3. Shows(x, text, known) = [x EXCEPT !.file = text, !.copies = c, !.pending = "none", !.tombstoned = b]
    BY <1>3, <2>1, <2>2 DEF Shows
  <2> QED BY <2>3 DEF NotesTo
<1> QED BY <1>2, <1>3

LEMMA NoteParts ==
  ASSUME NEW n \in Nat, NEW x \in NotesTo(n)
  PROVE  /\ x.file \in Texts \cup {NoFile} /\ x.copies \in Texts /\ x.doc \in HistoriesTo(n)
         /\ x.pending \in {"none", "sent", "kept"} /\ x.tombstoned \in BOOLEAN /\ x.unacked \in BOOLEAN
         /\ \A h \in HistoriesTo(n) : [x EXCEPT !.doc = h] \in NotesTo(n) /\ [x EXCEPT !.doc = h].doc = h
         /\ Removes(x) \in NotesTo(n) /\ Removes(x).doc = Empty
         /\ \A p \in {"none", "sent", "kept"} : [x EXCEPT !.pending = p] \in NotesTo(n)
                                                /\ [x EXCEPT !.pending = p].doc = x.doc
<1>1. \A h \in HistoriesTo(n) : [x EXCEPT !.doc = h] \in NotesTo(n) /\ [x EXCEPT !.doc = h].doc = h
                                /\ [x EXCEPT !.doc = h].file = x.file
  BY DEF NotesTo
<1>2. Empty \in HistoriesTo(n)
  <2>1. <<>> \in Seq(OpsTo(n))
    BY EmptySeq
  <2> QED BY <2>1, HistoryFacts DEF HistoriesTo, Empty
<1>3. Removes(x) \in NotesTo(n) /\ Removes(x).doc = Empty
  BY <1>2 DEF Removes, NotesTo
<1>4. \A p \in {"none", "sent", "kept"} : [x EXCEPT !.pending = p] \in NotesTo(n) /\ [x EXCEPT !.pending = p].doc = x.doc
  BY DEF NotesTo
<1> QED BY <1>1, <1>3, <1>4 DEF NotesTo

LEMMA AdoptsGives ==
  ASSUME NEW n \in Nat, NEW x \in NotesTo(n), NEW h \in HistoriesTo(n)
  PROVE  Adopts(x, h) \in NotesTo(n) /\ Adopts(x, h).doc = h
<1>1. PICK y : y = Shows(x, Text(h), {})
  OBVIOUS
<1>2. y \in NotesTo(n)
  <2>1. Text(h) \in Texts
    BY HistoryFacts
  <2> QED BY <1>1, <2>1, ShowsTyped
<1> QED BY <1>1, <1>2 DEF Adopts, NotesTo

LEMMA TakesGives ==
  ASSUME NEW n \in Nat, NEW x \in NotesTo(n), NEW h \in HistoriesTo(n)
  PROVE  [x EXCEPT !.doc = h] \in NotesTo(n) /\ [x EXCEPT !.doc = h].doc = h
BY DEF NotesTo

LEMMA PendingGives ==
  \A n \in Nat : \A x \in NotesTo(n) : \A p \in {"none", "sent", "kept"} :
    [x EXCEPT !.pending = p] \in NotesTo(n) /\ [x EXCEPT !.pending = p].doc = x.doc
<1> TAKE n \in Nat
<1> TAKE x \in NotesTo(n)
<1> TAKE p \in {"none", "sent", "kept"}
<1> QED BY NoteParts

---------------------------------------------------------------------------
(* The invariant. A broadcast fits when its operations are of one life, and  *)
(* so is what the server knew then; the two are of the same life unless the  *)
(* frame leaves something out, which only a document of that life can have.  *)
Same(g, h) == \A o \in OpsOf(g), p \in OpsOf(h) : o.life = p.life
One(h) == Same(h, h)
Fits(m) ==
  m.kind = "broadcast" =>
    /\ \A a \in Devices : m.delta.since[a] <= Len(m.delta.history[a])
    /\ One(m.delta.history) /\ One(m.known)
    /\ m.delta.since = Nothing => Same(m.delta.history, m.known)
AllFit(box) == \A e \in Devices : \A m \in ToSet(box[e]) : Fits(m)
Apart == clashed \/ {"flushed", "caught"} \cap lapses # {}

NoClash == ~clashed => \A d \in Devices : \A g \in Met(d) : ~Clash(note[d].doc, g)
Dead == ~server.live => server.history = Empty
Lives == Apart \/ (/\ \A d \in Devices : One(note[d].doc)
                   /\ One(server.history) /\ AllFit(inbox))
IInv == TypeOK /\ NoClash /\ Dead /\ Lives

(* Two documents that share an operation are of the same life.               *)
LEMMA SharedGives ==
  ASSUME NEW n \in Nat, NEW g \in HistoriesTo(n), NEW h \in HistoriesTo(n), One(g), One(h),
         NEW a \in Devices, Len(g[a]) > 0, Len(h[a]) > 0, g[a][1].life = h[a][1].life
  PROVE  Same(g, h)
<1>1. 1 \in 1..Len(g[a]) /\ 1 \in 1..Len(h[a])
  BY HistoryFacts
<1>2. g[a][1] \in OpsOf(g) /\ h[a][1] \in OpsOf(h)
  BY <1>1, HistoryFacts
<1> QED BY <1>2 DEF One, Same

LEMMA SharedFirst ==
  ASSUME NEW n \in Nat, NEW g \in HistoriesTo(n), NEW h \in HistoriesTo(n),
         NEW u \in HistoriesTo(n), NEW v \in HistoriesTo(n), One(g), One(h),
         Continues(u, g), Continues(v, h), ~Clash(u, v),
         SharedHistory(Version(g), Version(h))
  PROVE  Same(g, h) /\ \E a \in Devices : Len(g[a]) > 0 /\ Len(h[a]) > 0
<1>1. PICK a \in Devices : Len(g[a]) > 0 /\ Len(h[a]) > 0
  BY HistoryFacts DEF SharedHistory
<1>2. /\ 1 \in 1..Len(g[a]) /\ 1 \in 1..Len(h[a]) /\ 1 \in 1..Len(u[a]) /\ 1 <= Len(v[a])
      /\ u[a][1] = g[a][1] /\ v[a][1] = h[a][1]
  <2>1. Len(g[a]) \in Nat /\ Len(h[a]) \in Nat /\ Len(u[a]) \in Nat /\ Len(v[a]) \in Nat
    BY HistoryFacts
  <2>2. 1 \in 1..Len(g[a]) /\ 1 \in 1..Len(h[a]) /\ Len(g[a]) <= Len(u[a]) /\ Len(h[a]) <= Len(v[a])
    BY <1>1, <2>1 DEF Continues
  <2> QED BY <2>1, <2>2 DEF Continues
<1>3. u[a][1] = v[a][1]
  BY <1>2 DEF Clash
<1>4. g[a][1].life = h[a][1].life
  BY <1>2, <1>3
<1> QED BY <1>1, <1>4, SharedGives

LEMMA ContinuesSelf ==
  ASSUME NEW n \in Nat, NEW h \in HistoriesTo(n) PROVE Continues(h, h)
BY HistoryFacts DEF Continues

LEMMA EmptyOne == One(Empty) /\ \A h : Same(Empty, h) /\ Same(h, Empty)
BY EmptyFacts DEF One, Same

(* Importing what is of the same life leaves one life.                       *)
LEMMA ImportOne ==
  ASSUME NEW n \in Nat, NEW h \in HistoriesTo(n), NEW delta \in DeltasTo(n), One(h),
         \/ ~Covers(Version(h), delta.since)
         \/ One(delta.history) /\ Same(h, delta.history)
  PROVE  One(Import(h, delta)) /\ (Same(h, delta.history) /\ One(delta.history) => Same(delta.history, Import(h, delta)))
BY ImportGives DEF One, Same

LEMMA SyncOne ==
  ASSUME NEW d \in Devices, NEW h \in HistoriesTo(lives), NEW text \in Texts, lives \in Nat, Begins(h, text),
         One(h)
  PROVE  One(SyncFromDisk(d, h, text))
<1> DEFINE g == SyncFromDisk(d, h, text)
<1>1. /\ \A o \in OpsOf(g) : o \in OpsOf(h) \/ o.life = LifeFor(h)
      /\ h # Empty => \E o \in OpsOf(h) : LifeFor(h) = o.life
  BY SyncGives
<1>2. h = Empty => OpsOf(h) = {}
  BY EmptyFacts
<1>3. \A o \in OpsOf(g) : o.life = LifeFor(h)
  BY <1>1, <1>2 DEF One, Same
<1> QED BY <1>3 DEF One, Same

(* From same lives to the property.                                          *)
LEMMA OneGives ==
  ASSUME NEW n \in Nat, NEW h \in HistoriesTo(n), One(h) PROVE OneLife(h)
<1>1. CASE OpsOf(h) = {}
  <2>1. LivesOf(h) = {}
    BY <1>1 DEF LivesOf
  <2> QED BY <2>1, FS_EmptySet DEF OneLife
<1>2. CASE OpsOf(h) # {}
  <2>1. PICK o : o \in OpsOf(h)
    BY <1>2
  <2>2. LivesOf(h) = {o.life}
    BY <2>1 DEF LivesOf, One, Same
  <2>3. Cardinality({o.life}) = 1
    BY FS_Singleton
  <2>4. Cardinality(LivesOf(h)) = 1
    BY <2>2, <2>3
  <2> QED BY <2>4 DEF OneLife
<1> QED BY <1>1, <1>2

---------------------------------------------------------------------------
(* The network.                                                              *)

LEMMA SeqFacts ==
  ASSUME NEW S, NEW s \in Seq(S)
  PROVE  /\ \A m \in S : s \o <<m>> \in Seq(S) /\ ToSet(s \o <<m>>) \subseteq ToSet(s) \cup {m}
         /\ s \o <<>> = s
         /\ s # <<>> => Head(s) \in S /\ Head(s) \in ToSet(s) /\ Tail(s) \in Seq(S) /\ ToSet(Tail(s)) \subseteq ToSet(s)
<1>1. ASSUME NEW m \in S PROVE s \o <<m>> \in Seq(S) /\ ToSet(s \o <<m>>) \subseteq ToSet(s) \cup {m}
  <2>1. s \o <<m>> = Append(s, m)
    OBVIOUS
  <2>2. PICK t : t = Append(s, m)
    OBVIOUS
  <2>3. /\ t \in Seq(S) /\ Len(t) = Len(s) + 1 /\ Len(s) \in Nat
        /\ \A i \in 1..Len(s) : t[i] = s[i]
        /\ t[Len(s) + 1] = m
    BY <2>2, AppendProperties, LenProperties
  <2>4. DOMAIN t = 1..Len(t) /\ DOMAIN s = 1..Len(s)
    BY <2>3, LenProperties
  <2>5. \A i \in DOMAIN t : t[i] \in {s[j] : j \in DOMAIN s} \cup {m}
    BY <2>3, <2>4
  <2>6. ToSet(t) \subseteq ToSet(s) \cup {m}
    BY <2>5 DEF ToSet
  <2> QED BY <2>1, <2>2, <2>3, <2>6
<1>2. s \o <<>> = s
  BY ConcatEmptySeq
<1>3. ASSUME s # <<>> PROVE Head(s) \in S /\ Head(s) \in ToSet(s) /\ Tail(s) \in Seq(S) /\ ToSet(Tail(s)) \subseteq ToSet(s)
  <2>1. PICK t : t = Tail(s)
    OBVIOUS
  <2>2. /\ Head(s) \in S /\ t \in Seq(S) /\ Len(t) = Len(s) - 1 /\ Len(s) \in Nat /\ Len(s) > 0
        /\ Head(s) = s[1] /\ \A i \in 1..Len(t) : t[i] = s[i + 1]
    BY <1>3, <2>1, HeadTailProperties, EmptySeq, LenProperties
  <2>3. DOMAIN t = 1..Len(t) /\ DOMAIN s = 1..Len(s)
    BY <2>2, LenProperties
  <2>4. 1 \in DOMAIN s /\ \A i \in DOMAIN t : i + 1 \in DOMAIN s /\ t[i] = s[i + 1]
    BY <2>2, <2>3
  <2> QED BY <2>1, <2>2, <2>4 DEF ToSet
<1> QED BY <1>1, <1>2, <1>3

(* A frame to the device, or one to the others.                              *)
LEMMA FramesGive ==
  ASSUME NEW n \in Nat, NEW d \in Devices, NEW rest \in InboxesTo(n), NEW m \in MessagesTo(n),
         NEW reply, NEW broadcast, reply \in {<<>>, <<m>>}, broadcast \in {<<>>, <<m>>}
  PROVE  /\ Frames(d, rest, reply, broadcast) \in InboxesTo(n)
         /\ \A e \in Devices : ToSet(Frames(d, rest, reply, broadcast)[e]) \subseteq ToSet(rest[e]) \cup {m}
         /\ \A e \in Devices : e # d /\ link[e] # "up" => Frames(d, rest, reply, broadcast)[e] = rest[e]
<1> DEFINE f == Frames(d, rest, reply, broadcast)
<1>1. ASSUME NEW e \in Devices
      PROVE  /\ f[e] \in Seq(MessagesTo(n)) /\ ToSet(f[e]) \subseteq ToSet(rest[e]) \cup {m}
             /\ e # d /\ link[e] # "up" => f[e] = rest[e]
  <2>1. PICK s \in Seq(MessagesTo(n)) : s = rest[e]
    BY DEF InboxesTo
  <2>2. /\ s \o <<m>> \in Seq(MessagesTo(n)) /\ ToSet(s \o <<m>>) \subseteq ToSet(s) \cup {m}
        /\ s \o <<>> = s
    BY SeqFacts
  <2>3. f[e] \in {s, s \o <<m>>, s \o <<>>} /\ (e # d /\ link[e] # "up" => f[e] = s)
    BY <2>1 DEF Frames
  <2> QED BY <2>1, <2>2, <2>3
<1>2. f = [e \in Devices |-> f[e]]
  BY DEF Frames
<1>3. f \in InboxesTo(n)
  <2> HIDE DEF f
  <2> QED BY <1>1, <1>2 DEF InboxesTo
<1> QED BY <1>1, <1>3

(* What the network needs, and what it leaves.                               *)
Ready(d, rest) ==
  /\ rest \in InboxesTo(lives') /\ lives' \in Nat
  /\ server \in ServersTo(lives') /\ ~(server.live /\ server.tombstone) /\ Dead
  /\ \A e \in Devices : (link'[e] # "up" => rest[e] = <<>>) /\ (e # d => link'[e] = link[e])
Network ==
  /\ server' \in ServersTo(lives') /\ ~(server'.live /\ server'.tombstone) /\ Dead'
  /\ inbox' \in InboxesTo(lives') /\ \A e \in Devices : link'[e] # "up" => inbox'[e] = <<>>
Separate == One(server'.history) /\ AllFit(inbox')

LEMMA QuietGives ==
  ASSUME NEW d, NEW rest, Ready(d, rest), Quiet(rest)
  PROVE  /\ Network /\ Continues(server'.history, server.history) /\ server' = server
         /\ One(server.history) /\ AllFit(rest) => Separate
<1>1. server' = server /\ inbox' = rest /\ server.history \in HistoriesTo(lives')
  BY DEF Quiet, Ready, ServersTo
<1>2. Continues(server.history, server.history)
  BY <1>1, ContinuesSelf DEF Ready
<1> QED BY <1>1, <1>2 DEF Network, Ready, Dead, Separate

(* The operations that the server takes in share its life.                   *)
LEMMA TakenGives ==
  ASSUME NEW n \in Nat, NEW h \in HistoriesTo(n), NEW delta \in DeltasTo(n),
         One(h), One(delta.history), \A a \in Devices : delta.since[a] <= Len(delta.history[a]),
         h # Empty => ~Disjoint(h, delta), ~Clash(delta.history, Import(h, delta))
  PROVE  One(Import(h, delta)) /\ (delta.since = Nothing => Same(delta.history, Import(h, delta)))
<1> DEFINE k == delta.history
           merged == Import(h, delta)
<1>1. k \in HistoriesTo(n) /\ delta.since \in Versions /\ merged \in HistoriesTo(n) /\ Continues(merged, h)
      /\ Continues(k, k) /\ Empty \in HistoriesTo(n)
  BY ImportGives, ContinuesSelf, HistoryFacts DEF DeltasTo
<1>2. ASSUME Same(h, k) PROVE One(merged) /\ Same(k, merged)
  BY <1>2, ImportOne
<1>3. ASSUME SharedHistory(Version(k), Version(h)) PROVE Same(h, k)
  <2>1. Same(k, h)
    BY <1>1, <1>3, SharedFirst
  <2> QED BY <2>1 DEF Same
<1>4. CASE h = Empty
  BY <1>2, <1>4, EmptyOne
<1>5. CASE h # Empty /\ delta.since = Nothing
  <2>1. Covers(Version(Empty), delta.since)
    BY <1>1, <1>5, HistoryFacts DEF Covers
  <2>2. \A a \in Devices : Len(k[a]) <= Len(Import(Empty, delta)[a])
    BY <1>1, <2>1, ImportGives
  <2>3. Import(Empty, delta) \in HistoriesTo(n) /\ OpsOf(Import(Empty, delta)) \subseteq OpsOf(k)
    BY <1>1, ImportGives, EmptyFacts
  <2>4. PICK g \in HistoriesTo(n) : g = Import(Empty, delta)
    BY <2>3
  <2>5. \A a \in Devices : g[a] = <<>> \o SubSeq(k[a], 0 + 1, Len(k[a]))
    BY <2>1, <2>4, EmptyFacts DEF Import
  <2>6. ASSUME NEW a \in Devices, Len(g[a]) > 0 PROVE Len(k[a]) > 0
    <3>1. PICK q \in Seq(OpsTo(n)) : q = k[a]
      BY <1>1, HistoryFacts
    <3>2. PICK u : u = g[a]
      OBVIOUS
    <3>3. PICK p \in Seq(OpsTo(n)) : p = <<>> /\ Len(p) = 0
      BY EmptySeq
    <3>4. u = p \o SubSeq(q, Len(p) + 1, Len(q))
      BY <2>5, <3>1, <3>2, <3>3
    <3>5. \A i \in 1..Len(u) : i > Len(p) => i \in 1..Len(q)
      BY <3>4, ContinuedGives
    <3>6. Len(u) \in Nat /\ Len(u) > 0 /\ Len(q) \in Nat
      BY <2>4, <2>6, <3>1, <3>2, HistoryFacts, LenProperties
    <3> QED BY <3>1, <3>3, <3>5, <3>6
  <2>7. Version(g) = Nothing \/ SharedHistory(Version(g), Version(h))
    BY <1>5, <2>4 DEF Disjoint
  <2>8. CASE Version(g) = Nothing
    <3>1. \A a \in Devices : Len(k[a]) = 0
      BY <1>1, <2>2, <2>4, <2>8, HistoryFacts
    <3>2. k = Empty
      BY <1>1, <3>1, HistoryFacts
    <3> QED BY <1>2, <3>2, EmptyOne
  <2>9. CASE SharedHistory(Version(g), Version(h))
    <3>1. SharedHistory(Version(k), Version(h))
      BY <1>1, <2>6, <2>9, HistoryFacts DEF SharedHistory
    <3> QED BY <1>2, <1>3, <3>1
  <2> QED BY <2>7, <2>8, <2>9
<1>6. CASE h # Empty /\ delta.since # Nothing /\ ~Covers(Version(h), delta.since)
  BY <1>6 DEF Import
<1>7. CASE h # Empty /\ delta.since # Nothing /\ Covers(Version(h), delta.since)
  <2>1. PICK a \in Devices : delta.since[a] # 0
    <3>1. \A a \in Devices : Nothing[a] = 0
      BY EmptyFacts
    <3>2. Nothing \in Versions
      BY HistoryFacts
    <3> QED BY <1>1, <1>7, <3>1, <3>2 DEF Versions
  <2>2. delta.since[a] \in Nat /\ delta.since[a] > 0
    BY <1>1, <2>1 DEF Versions
  <2>3. Version(h)[a] > 0 /\ Version(k)[a] > 0
    <3>1. Version(h)[a] = Len(h[a]) /\ Version(k)[a] = Len(k[a]) /\ Len(h[a]) \in Nat /\ Len(k[a]) \in Nat
      BY <1>1, HistoryFacts
    <3>2. delta.since[a] <= Len(k[a])
      OBVIOUS
    <3>3. Version(h)[a] >= delta.since[a]
      BY <1>7 DEF Covers
    <3> QED BY <2>2, <3>1, <3>2, <3>3
  <2>4. SharedHistory(Version(k), Version(h))
    BY <2>3 DEF SharedHistory
  <2> QED BY <1>2, <1>3, <2>4
<1> QED BY <1>4, <1>5, <1>6, <1>7

LEMMA PushGives ==
  ASSUME NEW d \in Devices, NEW rest, NEW delta \in DeltasTo(lives'), NEW replace \in BOOLEAN,
         Ready(d, rest), Push(d, rest, delta, replace)
  PROVE  /\ Network /\ Continues(server'.history, server.history)
         /\ /\ One(server.history) /\ AllFit(rest) /\ One(delta.history)
            /\ \A a \in Devices : delta.since[a] <= Len(delta.history[a])
            /\ link'[d] = "up" => ~Clash(delta.history, server'.history)
            => Separate
<1>1. server.history \in HistoriesTo(lives') /\ server.live \in BOOLEAN /\ server.tombstone \in BOOLEAN
  BY DEF Ready, ServersTo
<1>2. CASE link'[d] # "up"
  BY <1>2, QuietGives DEF Push
<1>3. CASE link'[d] = "up" /\ UNCHANGED server /\ \E m \in MessagesTo(lives') : m.kind # "broadcast" /\ inbox' = Frames(d, rest, <<m>>, <<>>)
  <2>1. PICK m \in MessagesTo(lives') : m.kind # "broadcast" /\ inbox' = Frames(d, rest, <<m>>, <<>>)
    BY <1>3
  <2>2. /\ inbox' \in InboxesTo(lives')
        /\ \A e \in Devices : ToSet(inbox'[e]) \subseteq ToSet(rest[e]) \cup {m}
        /\ \A e \in Devices : e # d /\ link[e] # "up" => inbox'[e] = rest[e]
    BY <2>1, FramesGive DEF Ready
  <2>3. Network
    BY <1>3, <2>2 DEF Network, Ready, Dead
  <2>4. Fits(m)
    BY <2>1 DEF Fits
  <2>5. AllFit(rest) => AllFit(inbox')
    BY <2>2, <2>4 DEF AllFit
  <2>6. Continues(server'.history, server.history)
    BY <1>1, <1>3, ContinuesSelf DEF Ready
  <2> QED BY <1>3, <2>3, <2>5, <2>6 DEF Separate
<1>4. CASE /\ link'[d] = "up" /\ ~(server.live /\ Disjoint(server.history, delta))
           /\ server' = [live |-> TRUE, tombstone |-> FALSE, hash |-> {}, history |-> Import(server.history, delta)]
           /\ inbox' = Frames(d, rest, <<>>, <<[kind |-> "broadcast", delta |-> delta, known |-> Import(server.history, delta)]>>)
  <2>1. PICK h : h = Import(server.history, delta)
    OBVIOUS
  <2>2. h \in HistoriesTo(lives') /\ Continues(h, server.history)
    BY <1>1, <2>1, ImportGives DEF Ready
  <2>3. PICK m : m = [kind |-> "broadcast", delta |-> delta, known |-> h]
    OBVIOUS
  <2>4. m \in MessagesTo(lives') /\ m.delta = delta /\ m.known = h
    BY <2>2, <2>3 DEF MessagesTo
  <2>5. /\ inbox' \in InboxesTo(lives')
        /\ \A e \in Devices : ToSet(inbox'[e]) \subseteq ToSet(rest[e]) \cup {m}
        /\ \A e \in Devices : e # d /\ link[e] # "up" => inbox'[e] = rest[e]
    <3>1. inbox' = Frames(d, rest, <<>>, <<m>>)
      BY <1>4, <2>1, <2>3
    <3> QED BY <2>4, <3>1, FramesGive DEF Ready
  <2>6. server' \in ServersTo(lives') /\ server'.live /\ ~server'.tombstone /\ server'.history = h
    BY <1>4, <2>1, <2>2 DEF ServersTo, Texts
  <2>7. Network
    BY <1>4, <2>5, <2>6 DEF Network, Ready, Dead
  <2>8. ASSUME One(server.history), AllFit(rest), One(delta.history), ~Clash(delta.history, h),
               \A a \in Devices : delta.since[a] <= Len(delta.history[a])
        PROVE  Separate
    <3>1. server.history # Empty => ~Disjoint(server.history, delta)
      BY <1>4 DEF Ready, Dead
    <3>2. One(h) /\ (delta.since = Nothing => Same(delta.history, h))
      BY <1>1, <2>1, <2>8, <3>1, TakenGives DEF Ready
    <3>3. Fits(m)
      BY <2>4, <2>8, <3>2 DEF Fits
    <3>4. AllFit(inbox')
      BY <2>5, <2>8, <3>3 DEF AllFit
    <3> QED BY <2>6, <3>2, <3>4 DEF Separate
  <2> QED BY <1>4, <2>2, <2>6, <2>7, <2>8
<1>5. CASE link'[d] = "up" /\ ~ \E m \in MessagesTo(lives') : m.kind # "broadcast" /\ inbox' = Frames(d, rest, <<m>>, <<>>) /\ UNCHANGED server
  <2>1. \A k \in {"refused", "conflict"} : [kind |-> k] \in MessagesTo(lives') /\ [kind |-> k].kind = k
    BY DEF MessagesTo
  <2>2. ~(UNCHANGED server /\ inbox' = Frames(d, rest, <<[kind |-> "refused"]>>, <<>>))
    BY <1>5, <2>1
  <2>3. ~(UNCHANGED server /\ inbox' = Frames(d, rest, <<[kind |-> "conflict"]>>, <<>>))
    BY <1>5, <2>1
  <2>4. Received(d, rest, delta, replace)
    BY <1>5 DEF Push
  <2> QED BY <1>4, <1>5, <2>2, <2>3, <2>4 DEF Received
<1> QED BY <1>2, <1>3, <1>5

LEMMA SendDeleteGives ==
  ASSUME NEW d \in Devices, NEW rest, Ready(d, rest), SendDelete(d, rest)
  PROVE  Network /\ (One(server.history) /\ AllFit(rest) => Separate)
<1>1. CASE link'[d] # "up"
  BY <1>1, QuietGives DEF SendDelete
<1>2. CASE link'[d] = "up"
  <2>1. PICK t \in Texts : t = IF server.live THEN Text(server.history) ELSE server.hash
    <3>1. server.history \in HistoriesTo(lives') /\ server.hash \in Texts
      BY DEF Ready, ServersTo
    <3> QED BY <3>1, HistoryFacts DEF Ready
  <2>2. PICK m : m = [kind |-> "deleted", hash |-> t]
    OBVIOUS
  <2>3. m \in MessagesTo(lives') /\ m.kind = "deleted"
    BY <2>2 DEF MessagesTo
  <2>4. /\ server' = [live |-> FALSE, tombstone |-> TRUE, hash |-> t, history |-> Empty]
        /\ inbox' = Frames(d, rest, <<>>, <<m>>)
    BY <1>2, <2>1, <2>2 DEF SendDelete, Deleted
  <2>5. Empty \in HistoriesTo(lives')
    <3>1. server.history \in HistoriesTo(lives')
      BY DEF Ready, ServersTo
    <3> QED BY <3>1, HistoryFacts DEF Ready
  <2>6. /\ inbox' \in InboxesTo(lives')
        /\ \A e \in Devices : ToSet(inbox'[e]) \subseteq ToSet(rest[e]) \cup {m}
        /\ \A e \in Devices : e # d /\ link[e] # "up" => inbox'[e] = rest[e]
    <3>1. lives' \in Nat /\ rest \in InboxesTo(lives') /\ <<m>> \in {<<>>, <<m>>} /\ <<>> \in {<<>>, <<m>>}
      BY DEF Ready
    <3> QED BY <2>3, <2>4, <3>1, FramesGive
  <2>7. server' \in ServersTo(lives') /\ ~server'.live /\ server'.history = Empty
    BY <2>4, <2>5 DEF ServersTo
  <2>8. Network
    BY <1>2, <2>6, <2>7 DEF Network, Ready, Dead
  <2>9. AllFit(rest) => AllFit(inbox')
    BY <2>3, <2>6 DEF AllFit, Fits
  <2> QED BY <2>7, <2>8, <2>9, EmptyOne DEF Separate
<1> QED BY <1>1, <1>2

---------------------------------------------------------------------------
(* Steps. What every one of them leaves, and what follows from it.           *)
Stepping ==
  /\ IInv /\ clashed' \in BOOLEAN /\ lapses \subseteq lapses'
  /\ ~clashed' => ~clashed /\ \A e \in Devices : \A g \in Met(e)' : ~Clash(note'[e].doc, g)
Results(d) ==
  /\ lives' \in Nat /\ lives <= lives' /\ Network /\ (~Apart' => Separate)
  /\ \E x \in NotesTo(lives') : note' = [note EXCEPT ![d] = x] /\ (~Apart' => One(x.doc))

LEMMA StepFacts ==
  ASSUME Stepping
  PROVE  /\ TypeOK /\ Dead /\ lives \in Nat /\ words \in 0..MaxWords /\ server \in ServersTo(lives)
         /\ server.history \in HistoriesTo(lives) /\ Text(server.history) \in Texts
         /\ \A d \in Devices : note[d] \in NotesTo(lives) /\ note[d].doc \in HistoriesTo(lives)
         /\ ~Apart' => /\ ~Apart /\ One(server.history) /\ AllFit(inbox)
                       /\ \A d \in Devices : One(note[d].doc)
                       /\ \A d \in Devices : ~Clash(note'[d].doc, server'.history)
                       /\ \A d \in Devices : \A g \in Met(d) : ~Clash(note[d].doc, g)
<1>1. /\ TypeOK /\ Dead /\ lives \in Nat /\ words \in 0..MaxWords /\ server \in ServersTo(lives)
      /\ server.history \in HistoriesTo(lives)
      /\ \A d \in Devices : note[d] \in NotesTo(lives) /\ note[d].doc \in HistoriesTo(lives)
  BY Fields DEF Stepping, IInv
<1>2. Text(server.history) \in Texts
  BY <1>1, HistoryFacts
<1>3. ASSUME ~Apart'
      PROVE  /\ ~Apart /\ One(server.history) /\ AllFit(inbox)
             /\ \A d \in Devices : One(note[d].doc)
             /\ \A d \in Devices : ~Clash(note'[d].doc, server'.history)
             /\ \A d \in Devices : \A g \in Met(d) : ~Clash(note[d].doc, g)
  <2>1. ~clashed' /\ ~Apart
    BY <1>3 DEF Apart, Stepping
  <2>2. \A d \in Devices : server'.history \in Met(d)'
    BY DEF Met
  <2> QED BY <2>1, <2>2 DEF Stepping, IInv, Lives, NoClash, Apart
<1> QED BY <1>1, <1>2, <1>3

LEMMA StepKeeps ==
  ASSUME NEW d \in Devices, Stepping, Results(d),
         link' \in [Devices -> {"up", "silent", "closed"}], words' \in 0..MaxWords, gone' \in Texts,
         lapses' \subseteq {"flushed", "caught", "intended"}, deletes' \in 0..MaxDeletes, faults' \in 0..MaxFaults
  PROVE  TypeOK' /\ Dead' /\ Lives'
<1>1. PICK x \in NotesTo(lives') : note' = [note EXCEPT ![d] = x] /\ (~Apart' => One(x.doc))
  BY DEF Results
<1>2. note \in [Devices -> NotesTo(lives')]
  BY HistoriesGrow, Fields DEF Stepping, IInv, Results
<1>3. note' \in [Devices -> NotesTo(lives')] /\ note'[d] = x /\ \A e \in Devices : e # d => note'[e] = note[e]
  BY <1>1, <1>2
<1>4. Histories' = HistoriesTo(lives')
  BY DEF Histories, HistoriesTo, OpsTo, Words
<1>5. Messages' = MessagesTo(lives')
  BY <1>4 DEF Messages, MessagesTo, DeltasTo, Versions, Texts, Words
<1>6. Texts' = Texts /\ Words' = Words
  BY DEF Texts, Words
<1>7. /\ server' \in [live : BOOLEAN, tombstone : BOOLEAN, hash : Texts, history : HistoriesTo(lives')]
      /\ ~(server'.live /\ server'.tombstone)
  BY DEF Results, Network, ServersTo
<1>8. inbox' \in [Devices -> Seq(MessagesTo(lives'))] /\ \A e \in Devices : link'[e] # "up" => inbox'[e] = <<>>
  BY DEF Results, Network, InboxesTo
<1>9. TypeOK'
  BY <1>3, <1>4, <1>5, <1>6, <1>7, <1>8 DEF TypeOK, NotesTo, NoFile, Stepping, Results
<1>10. Dead'
  BY DEF Results, Network
<1>11. Lives'
  <2> SUFFICES ASSUME ~Apart' PROVE (\A e \in Devices : One(note'[e].doc)) /\ Separate
    BY DEF Lives, Separate, AllFit, Fits, One, Same, OpsOf, Nothing, Version, Empty
  <2>1. \A e \in Devices : One(note[e].doc)
    BY StepFacts
  <2> QED BY <1>1, <1>3, <2>1 DEF Results
<1> QED BY <1>9, <1>10, <1>11

LEMMA ReadyInbox ==
  ASSUME NEW d \in Devices, Stepping, lives' \in Nat, lives <= lives',
         \A e \in Devices : (e # d => link'[e] = link[e]) /\ (link[e] # link'[e] => link[e] # "up")
  PROVE  Ready(d, inbox)
<1>1. TypeOK /\ Dead /\ ServersTo(lives) \subseteq ServersTo(lives') /\ InboxesTo(lives) \subseteq InboxesTo(lives')
  BY StepFacts, HistoriesGrow
<1>2. server \in ServersTo(lives') /\ inbox \in InboxesTo(lives')
  BY <1>1, Fields
<1> QED BY <1>1, <1>2 DEF Ready, TypeOK

(* The frame that is taken, and what is left.                                *)
LEMMA ReadyRest ==
  ASSUME NEW d \in Devices, NEW kind, Stepping, lives' \in Nat, lives <= lives', Takes(d, kind), UNCHANGED link
  PROVE  /\ Ready(d, Rest(d)) /\ (AllFit(inbox) => AllFit(Rest(d)) /\ Fits(Head(inbox[d])))
         /\ Head(inbox[d]) \in MessagesTo(lives) /\ Head(inbox[d]).kind = kind
         /\ Head(inbox[d]) \in ToSet(inbox[d])
<1>1. TypeOK /\ Dead /\ ServersTo(lives) \subseteq ServersTo(lives') /\ InboxesTo(lives) \subseteq InboxesTo(lives')
      /\ MessagesTo(lives) \subseteq MessagesTo(lives') /\ inbox \in InboxesTo(lives)
  BY StepFacts, HistoriesGrow, Fields
<1>2. /\ inbox[d] \in Seq(MessagesTo(lives)) /\ inbox[d] # <<>> /\ Head(inbox[d]).kind = kind /\ link[d] = "up"
  BY <1>1 DEF InboxesTo, Takes
<1>3. /\ Head(inbox[d]) \in MessagesTo(lives) /\ Head(inbox[d]) \in ToSet(inbox[d])
      /\ Tail(inbox[d]) \in Seq(MessagesTo(lives)) /\ ToSet(Tail(inbox[d])) \subseteq ToSet(inbox[d])
  BY <1>2, SeqFacts
<1>4. /\ Rest(d) \in InboxesTo(lives) /\ Rest(d)[d] = Tail(inbox[d])
      /\ \A e \in Devices : e # d => Rest(d)[e] = inbox[e]
  BY <1>1, <1>3 DEF Rest, InboxesTo
<1>5. Ready(d, Rest(d))
  <2>1. server \in ServersTo(lives')
    BY <1>1, Fields
  <2>2. \A e \in Devices : link[e] # "up" => inbox[e] = <<>>
    BY <1>1 DEF TypeOK
  <2>3. ~(server.live /\ server.tombstone)
    BY <1>1 DEF TypeOK
  <2> HIDE DEF Rest
  <2> QED BY <1>1, <1>2, <1>4, <2>1, <2>2, <2>3 DEF Ready
<1>6. ASSUME AllFit(inbox) PROVE AllFit(Rest(d)) /\ Fits(Head(inbox[d]))
  <2>1. \A e \in Devices : ToSet(Rest(d)[e]) \subseteq ToSet(inbox[e])
    BY <1>3, <1>4
  <2> QED BY <1>3, <1>6, <2>1 DEF AllFit
<1> QED BY <1>2, <1>3, <1>5, <1>6

---------------------------------------------------------------------------
(* The actions.                                                              *)

(* A note is shown as it is, with the text of its file in its document.      *)
LEMMA SyncStep ==
  ASSUME NEW d \in Devices, Stepping, NEW text \in Texts, Begins(note[d].doc, text)
  PROVE  /\ lives' \in Nat /\ lives <= lives'
         /\ SyncFromDisk(d, note[d].doc, text) \in HistoriesTo(lives')
         /\ Continues(SyncFromDisk(d, note[d].doc, text), note[d].doc)
         /\ (~Apart' => One(SyncFromDisk(d, note[d].doc, text)))
         /\ Delta(SyncFromDisk(d, note[d].doc, text), Version(note[d].doc)) \in DeltasTo(lives')
         /\ \A a \in Devices : Version(note[d].doc)[a] <= Len(SyncFromDisk(d, note[d].doc, text)[a])
         /\ note[d] \in NotesTo(lives')
<1>1. TypeOK /\ lives \in Nat /\ note[d].doc \in HistoriesTo(lives) /\ note[d] \in NotesTo(lives)
      /\ (~Apart' => One(note[d].doc))
  BY StepFacts
<1> DEFINE g == SyncFromDisk(d, note[d].doc, text)
<1>2. /\ lives' \in Nat /\ lives <= lives' /\ g \in HistoriesTo(lives') /\ Continues(g, note[d].doc)
  BY <1>1, SyncGives
<1>3. ~Apart' => One(g)
  BY <1>1, SyncOne
<1> HIDE DEF g
<1>4. Version(note[d].doc) \in Versions /\ \A a \in Devices : Version(note[d].doc)[a] = Len(note[d].doc[a])
  BY <1>1, HistoryFacts
<1>5. Delta(g, Version(note[d].doc)) \in DeltasTo(lives')
  BY <1>2, <1>4 DEF Delta, DeltasTo
<1>6. \A a \in Devices : Version(note[d].doc)[a] <= Len(g[a])
  BY <1>2, <1>4 DEF Continues
<1>7. note[d] \in NotesTo(lives')
  BY <1>1, <1>2, HistoriesGrow
<1> QED BY <1>2, <1>3, <1>5, <1>6, <1>7 DEF g

(* A push of a document that the device has then.                            *)
LEMMA PushStep ==
  ASSUME NEW d \in Devices, Stepping, lives <= lives', NEW rest, NEW h \in HistoriesTo(lives'), NEW v \in Versions,
         NEW replace \in BOOLEAN, NEW x \in NotesTo(lives'), note' = [note EXCEPT ![d] = x], x.doc = h,
         Ready(d, rest), AllFit(inbox) => AllFit(rest), Push(d, rest, Delta(h, v), replace),
         ~Apart' => One(h), \A a \in Devices : v[a] <= Len(h[a])
  PROVE  Results(d) /\ Continues(server'.history, server.history)
<1>1. lives' \in Nat
  BY DEF Ready
<1>2. PICK delta : delta = Delta(h, v)
  OBVIOUS
<1>3. delta \in DeltasTo(lives') /\ delta.history = h /\ delta.since = v
  BY <1>2 DEF Delta, DeltasTo
<1>4. /\ Network /\ Continues(server'.history, server.history)
      /\ /\ One(server.history) /\ AllFit(rest) /\ One(delta.history)
         /\ \A a \in Devices : delta.since[a] <= Len(delta.history[a])
         /\ link'[d] = "up" => ~Clash(delta.history, server'.history)
         => Separate
  <2>1. Push(d, rest, delta, replace)
    BY <1>2
  <2> QED BY <1>3, <2>1, PushGives
<1>5. note'[d] = x
  <2>1. note \in [Devices -> NotesTo(lives)]
    BY StepFacts, Fields
  <2> QED BY <2>1
<1>6. ~Apart' => Separate
  <2>1. ASSUME ~Apart' PROVE One(server.history) /\ AllFit(inbox) /\ ~Clash(note'[d].doc, server'.history)
    BY <2>1, StepFacts
  <2> QED BY <1>3, <1>4, <1>5, <2>1
<1> QED BY <1>1, <1>4, <1>6 DEF Results

LEMMA WriteKeeps ==
  ASSUME NEW d \in Devices, Stepping, Write(d)
  PROVE  TypeOK' /\ Dead' /\ Lives'
<1> DEFINE x == note[d]
           text == {words + 1} \cup (x.file \ NoFile)
           h == SyncFromDisk(d, x.doc, text)
           recreate == x.pending # "none" \/ x.tombstoned
           written == [x EXCEPT !.file = text, !.doc = h, !.pending = "none"]
<1>1. TypeOK /\ lives \in Nat /\ words \in 0..MaxWords /\ x \in NotesTo(lives)
  BY StepFacts
<1>2. text \in Texts /\ words' \in 0..MaxWords
  <2>1. words < MaxWords /\ words' = words + 1
    BY DEF Write
  <2>2. x.file \ NoFile \in Texts /\ words + 1 \in Words
    <3>1. x.file \in Texts \cup {NoFile}
      BY <1>1, NoteParts
    <3>2. x.file \ NoFile \in Texts
      <4> HIDE DEF x
      <4> QED BY <3>1 DEF NoFile, Texts
    <3> QED BY <1>1, <2>1, <3>2 DEF Words
  <2> HIDE DEF x
  <2> QED BY <1>1, <2>1, <2>2 DEF Texts
<1>3. Begins(x.doc, text)
  BY DEF Write
<1>4. /\ lives' \in Nat /\ lives <= lives' /\ h \in HistoriesTo(lives') /\ (~Apart' => One(h))
      /\ \A a \in Devices : Version(x.doc)[a] <= Len(h[a])
      /\ x \in NotesTo(lives')
  BY <1>2, <1>3, SyncStep
<1>5. x.pending \in {"none", "sent", "kept"} /\ x.tombstoned \in BOOLEAN
  BY <1>1, NoteParts
<1>6. PICK b \in BOOLEAN : b = recreate
  OBVIOUS
<1>7. Ready(d, inbox)
  <2>1. UNCHANGED link
    BY DEF Write
  <2> QED BY <1>4, <2>1, ReadyInbox
<1>8. Version(x.doc) \in Versions /\ Nothing \in Versions /\ (\A a \in Devices : Nothing[a] = 0)
      /\ \A a \in Devices : Len(h[a]) \in Nat
  <2>1. x.doc \in HistoriesTo(lives)
    BY <1>1, NoteParts
  <2>2. Version(x.doc) \in Versions /\ Nothing \in Versions /\ \A a \in Devices : Nothing[a] = 0
    BY <1>1, <2>1, HistoryFacts
  <2>3. \A a \in Devices : Len(h[a]) \in Nat
    <3> HIDE DEF h
    <3> QED BY <1>4, HistoryFacts
  <2> QED BY <2>2, <2>3
<1>9. Results(d)
  <2>1. CASE link[d] = "closed"
    <3>1. PICK y : y = [written EXCEPT !.tombstoned = b]
      OBVIOUS
    <3>2. y \in NotesTo(lives') /\ y.doc = h
      <4> HIDE DEF h, text
      <4> QED BY <1>2, <1>4, <3>1 DEF NotesTo
    <3>3. note' = [note EXCEPT ![d] = y] /\ Quiet(inbox)
      BY <1>6, <2>1, <3>1 DEF Write, Becomes, Quiet
    <3>4. Network /\ (~Apart' => Separate)
      BY <1>7, <3>3, StepFacts, QuietGives
    <3> QED BY <1>4, <3>2, <3>3, <3>4 DEF Results
  <2>2. CASE link[d] # "closed"
    <3>1. PICK y : y = [written EXCEPT !.tombstoned = FALSE, !.unacked = TRUE]
      OBVIOUS
    <3>2. y \in NotesTo(lives') /\ y.doc = h
      <4> HIDE DEF h, text
      <4> QED BY <1>2, <1>4, <3>1 DEF NotesTo
    <3>3. PICK v \in Versions : v = (IF recreate THEN Nothing ELSE Version(x.doc))
      BY <1>8
    <3>4. note' = [note EXCEPT ![d] = y] /\ Push(d, inbox, Delta(h, v), b)
      BY <1>6, <2>2, <3>1, <3>3 DEF Write, Becomes
    <3>5. \A a \in Devices : v[a] <= Len(h[a])
      <4> HIDE DEF h
      <4> QED BY <1>4, <1>8, <3>3
    <3> HIDE DEF h
    <3> QED BY <1>4, <1>7, <3>2, <3>4, <3>5, PushStep
  <2> QED BY <2>1, <2>2
<1>10. /\ link' = link /\ gone' = gone /\ lapses' = lapses /\ deletes' = deletes /\ faults' = faults
  BY DEF Write
<1>11. /\ link' \in [Devices -> {"up", "silent", "closed"}] /\ gone' \in Texts
       /\ lapses' \subseteq {"flushed", "caught", "intended"} /\ deletes' \in 0..MaxDeletes /\ faults' \in 0..MaxFaults
  BY <1>1, <1>10 DEF TypeOK
<1> QED BY <1>2, <1>9, <1>11, StepKeeps

(* Steps that begin no document.                                             *)
LEMMA SameLives ==
  ASSUME NEW d \in Devices, Stepping, UNCHANGED lives
  PROVE  /\ lives' \in Nat /\ lives <= lives' /\ note[d] \in NotesTo(lives') /\ note[d].doc \in HistoriesTo(lives')
         /\ server.history \in HistoriesTo(lives')
         /\ \A x \in NotesTo(lives') : \A rest :
              /\ note' = [note EXCEPT ![d] = x] /\ (~Apart' => One(x.doc))
              /\ Ready(d, rest) /\ (AllFit(inbox) => AllFit(rest))
              /\ Quiet(rest) \/ SendDelete(d, rest)
              => Results(d)
<1>1. /\ lives' \in Nat /\ lives <= lives' /\ note[d] \in NotesTo(lives') /\ note[d].doc \in HistoriesTo(lives')
      /\ server.history \in HistoriesTo(lives')
  BY StepFacts
<1>2. ASSUME NEW x \in NotesTo(lives'), NEW rest,
             note' = [note EXCEPT ![d] = x], ~Apart' => One(x.doc),
             Ready(d, rest), AllFit(inbox) => AllFit(rest),
             Quiet(rest) \/ SendDelete(d, rest)
      PROVE  Results(d)
  <2>1. Network /\ (One(server.history) /\ AllFit(rest) => Separate)
    BY <1>2, QuietGives, SendDeleteGives
  <2>2. ~Apart' => Separate
    BY <1>2, <2>1, StepFacts
  <2> QED BY <1>1, <1>2, <2>1, <2>2 DEF Results
<1> QED BY <1>1, <1>2

LEMMA DeleteKeeps ==
  ASSUME NEW d \in Devices, Stepping, Delete(d)
  PROVE  TypeOK' /\ Dead' /\ Lives'
<1>1. /\ TypeOK /\ UNCHANGED <<link, words, lives, lapses, faults>> /\ deletes < MaxDeletes /\ deletes' = deletes + 1
      /\ SendDelete(d, inbox) /\ note[d].file # NoFile
  BY StepFacts DEF Delete
<1>2. /\ lives' \in Nat /\ lives <= lives' /\ note[d] \in NotesTo(lives')
  BY <1>1, SameLives
<1>3. PICK x : x = [Removes(note[d]) EXCEPT !.pending = "sent"]
  OBVIOUS
<1>4. x \in NotesTo(lives') /\ x.doc = Empty /\ note[d].file \in Texts
  <2>1. PICK y : y = Removes(note[d])
    OBVIOUS
  <2>2. y \in NotesTo(lives') /\ y.doc = Empty /\ note[d].file \in Texts \cup {NoFile}
    BY <1>2, <2>1, NoteParts
  <2>3. x = [y EXCEPT !.pending = "sent"]
    BY <1>3, <2>1
  <2>4. x \in NotesTo(lives') /\ x.doc = y.doc
    BY <1>2, <2>2, <2>3, NoteParts
  <2> QED BY <1>1, <2>2, <2>4
<1>5. note' = [note EXCEPT ![d] = x]
  BY <1>3 DEF Delete, Becomes
<1>6. Ready(d, inbox)
  BY <1>1, <1>2, ReadyInbox
<1>7. Results(d)
  BY <1>1, <1>4, <1>5, <1>6, SameLives, EmptyOne
<1>8. gone' \in Texts
  <2>1. Text(server.history) \in Texts /\ gone \in Texts
    BY <1>1, StepFacts DEF TypeOK
  <2>2. gone' = gone \cup note[d].file \cup (IF link[d] = "up" THEN Text(server.history) ELSE {})
    BY DEF Delete
  <2> QED BY <1>4, <2>1, <2>2 DEF Texts
<1>9. /\ link' \in [Devices -> {"up", "silent", "closed"}] /\ words' \in 0..MaxWords
      /\ lapses' \subseteq {"flushed", "caught", "intended"} /\ deletes' \in 0..MaxDeletes /\ faults' \in 0..MaxFaults
  BY <1>1 DEF TypeOK
<1> QED BY <1>7, <1>8, <1>9, StepKeeps

(* Most frames leave the counters alone.                                     *)
LEMMA CountersKept ==
  ASSUME Stepping, UNCHANGED <<link, words, gone, deletes, faults>>
  PROVE  /\ link' \in [Devices -> {"up", "silent", "closed"}] /\ words' \in 0..MaxWords /\ gone' \in Texts
         /\ deletes' \in 0..MaxDeletes /\ faults' \in 0..MaxFaults
         /\ lapses \subseteq {"flushed", "caught", "intended"}
<1>1. TypeOK
  BY StepFacts
<1> QED BY <1>1 DEF TypeOK

LEMMA ResolveGives ==
  ASSUME NEW d \in Devices, NEW kind, Stepping, Takes(d, kind), UNCHANGED link, Resolve(d)
  PROVE  TypeOK' /\ Dead' /\ Lives'
<1>1. UNCHANGED <<words, lives, gone, lapses, deletes, faults>> /\ Quiet(Rest(d))
  BY DEF Resolve
<1>2. /\ lives' \in Nat /\ lives <= lives' /\ note[d] \in NotesTo(lives') /\ note[d].doc \in HistoriesTo(lives')
      /\ server.history \in HistoriesTo(lives')
  BY <1>1, SameLives
<1>3. Ready(d, Rest(d)) /\ (AllFit(inbox) => AllFit(Rest(d)))
  BY <1>2, ReadyRest
<1>4. \E x \in NotesTo(lives') : note' = [note EXCEPT ![d] = x] /\ (~Apart' => One(x.doc))
  <2>1. CASE server.live
    <3>1. note' = [note EXCEPT ![d] = Adopts(note[d], server.history)]
      BY <2>1 DEF Resolve, Becomes
    <3>2. Adopts(note[d], server.history) \in NotesTo(lives') /\ Adopts(note[d], server.history).doc = server.history
      <4>1. PICK n \in Nat : n = lives'
        BY <1>2
      <4>2. PICK x \in NotesTo(n), h \in HistoriesTo(n) : x = note[d] /\ h = server.history
        BY <1>2, <4>1
      <4>3. Adopts(x, h) \in NotesTo(n) /\ Adopts(x, h).doc = h
        BY AdoptsGives
      <4> QED BY <4>1, <4>2, <4>3
    <3>3. ~Apart' => One(server.history)
      BY StepFacts
    <3> QED BY <3>1, <3>2, <3>3
  <2>2. CASE ~server.live
    <3>1. note' = note
      BY <2>2 DEF Resolve
    <3>2. note \in [Devices -> NotesTo(lives)]
      BY StepFacts, Fields
    <3>3. note' = [note EXCEPT ![d] = note[d]]
      BY <3>1, <3>2
    <3>4. ~Apart' => One(note[d].doc)
      BY StepFacts
    <3> QED BY <1>2, <3>3, <3>4
  <2> QED BY <2>1, <2>2
<1>5. Results(d)
  <2>1. PICK x \in NotesTo(lives') : note' = [note EXCEPT ![d] = x] /\ (~Apart' => One(x.doc))
    BY <1>4
  <2> QED BY <1>1, <1>3, <2>1, SameLives
<1> QED BY <1>1, <1>5, CountersKept, StepKeeps

(* A broadcast that passes the check is of the life of the document.         *)
LEMMA KnownGives ==
  ASSUME NEW n \in Nat, NEW h \in HistoriesTo(n), NEW m \in MessagesTo(n), m.kind = "broadcast", Fits(m), One(h),
         h = Empty \/ SharedHistory(Version(h), Version(m.known)),
         ~Clash(h, m.known), ~Clash(h, m.delta.history)
  PROVE  One(Import(h, m.delta))
<1>1. /\ m.delta \in DeltasTo(n) /\ m.known \in HistoriesTo(n) /\ m.delta.history \in HistoriesTo(n)
      /\ m.delta.since \in Versions
  BY DEF MessagesTo, DeltasTo
<1>2. /\ One(m.delta.history) /\ One(m.known) /\ \A a \in Devices : m.delta.since[a] <= Len(m.delta.history[a])
      /\ (m.delta.since = Nothing => Same(m.delta.history, m.known))
  BY DEF Fits
<1>3. CASE h = Empty
  BY <1>1, <1>2, <1>3, ImportOne, EmptyOne
<1>4. CASE ~Covers(Version(h), m.delta.since)
  BY <1>1, <1>4, ImportOne
<1>5. CASE h # Empty /\ m.delta.since = Nothing
  <2>1. Continues(h, h) /\ Continues(m.known, m.known)
    BY <1>1, ContinuesSelf
  <2>2. Same(h, m.known) /\ \E a \in Devices : Len(h[a]) > 0 /\ Len(m.known[a]) > 0
    BY <1>1, <1>2, <1>5, <2>1, SharedFirst
  <2>3. PICK a \in Devices : Len(m.known[a]) > 0
    BY <2>2
  <2>4. 1 \in 1..Len(m.known[a])
    BY <1>1, <2>3, HistoryFacts
  <2>5. m.known[a][1] \in OpsOf(m.known)
    BY <1>1, <2>4, HistoryFacts
  <2>6. Same(h, m.delta.history)
    BY <1>2, <1>5, <2>2, <2>5 DEF Same
  <2> QED BY <1>1, <1>2, <2>6, ImportOne
<1>6. CASE m.delta.since # Nothing /\ Covers(Version(h), m.delta.since)
  <2>1. PICK a \in Devices : m.delta.since[a] # 0
    <3>1. \A a \in Devices : Nothing[a] = 0
      BY EmptyFacts
    <3>2. Nothing \in Versions
      BY HistoryFacts
    <3> QED BY <1>1, <1>6, <3>1, <3>2 DEF Versions
  <2>2. m.delta.since[a] \in Nat /\ m.delta.since[a] > 0 /\ m.delta.since[a] <= Len(m.delta.history[a])
    BY <1>1, <1>2, <2>1 DEF Versions
  <2>3. Version(h)[a] >= m.delta.since[a]
    BY <1>6 DEF Covers
  <2>4. /\ Version(h)[a] = Len(h[a]) /\ Version(m.delta.history)[a] = Len(m.delta.history[a])
        /\ Len(h[a]) \in Nat /\ Len(m.delta.history[a]) \in Nat
    BY <1>1, HistoryFacts
  <2>5. SharedHistory(Version(h), Version(m.delta.history))
    <3>1. Version(h)[a] > 0 /\ Version(m.delta.history)[a] > 0
      BY <2>2, <2>3, <2>4
    <3> QED BY <3>1 DEF SharedHistory
  <2>6. Continues(h, h) /\ Continues(m.delta.history, m.delta.history)
    BY <1>1, ContinuesSelf
  <2>7. Same(h, m.delta.history)
    BY <1>1, <1>2, <2>5, <2>6, SharedFirst
  <2> QED BY <1>1, <1>2, <2>7, ImportOne
<1> QED BY <1>3, <1>4, <1>5, <1>6

(* What the server has joins a document that shares some of it.              *)
LEMMA JoinsGive ==
  ASSUME NEW n \in Nat, NEW h \in HistoriesTo(n), NEW g \in HistoriesTo(n), NEW u \in HistoriesTo(n), NEW v \in HistoriesTo(n)
  PROVE  /\ Delta(g, Nothing) \in DeltasTo(n) /\ Delta(g, Nothing).history = g
         /\ Import(h, Delta(g, Nothing)) \in HistoriesTo(n) /\ Continues(Import(h, Delta(g, Nothing)), h)
         /\ \A a \in Devices : Version(g)[a] <= Len(Import(h, Delta(g, Nothing))[a])
         /\ /\ One(h) /\ One(g) /\ (h = Empty \/ SharedHistory(Version(h), Version(g)))
            /\ Continues(u, h) /\ Continues(v, g) /\ ~Clash(u, v)
            => One(Import(h, Delta(g, Nothing)))
<1>1. PICK delta : delta = Delta(g, Nothing)
  OBVIOUS
<1>2. delta \in DeltasTo(n) /\ delta.history = g /\ delta.since = Nothing
  <2>1. Nothing \in Versions
    BY HistoryFacts
  <2> QED BY <1>1, <2>1 DEF Delta, DeltasTo
<1>3. Covers(Version(h), delta.since)
  <2>1. \A a \in Devices : Nothing[a] = 0 /\ Version(h)[a] \in Nat
    BY HistoryFacts
  <2> QED BY <1>2, <2>1 DEF Covers
<1>4. /\ Import(h, delta) \in HistoriesTo(n) /\ Continues(Import(h, delta), h)
      /\ \A a \in Devices : Len(delta.history[a]) <= Len(Import(h, delta)[a])
  BY <1>2, <1>3, ImportGives
<1>5. \A a \in Devices : Version(g)[a] = Len(g[a])
  BY HistoryFacts
<1>6. ASSUME One(h), One(g), h = Empty \/ SharedHistory(Version(h), Version(g)),
             Continues(u, h), Continues(v, g), ~Clash(u, v)
      PROVE  One(Import(h, delta))
  <2>1. CASE h = Empty
    BY <1>2, <1>6, <2>1, EmptyOne, ImportOne
  <2>2. CASE SharedHistory(Version(h), Version(g))
    <3>1. Same(h, g)
      BY <1>6, <2>2, SharedFirst
    <3> QED BY <1>2, <1>6, <3>1, ImportOne
  <2> QED BY <1>6, <2>1, <2>2
<1> QED BY <1>1, <1>2, <1>4, <1>5, <1>6

LEMMA DeltaBroadcastKeeps ==
  ASSUME NEW d \in Devices, Stepping, DeltaBroadcast(d)
  PROVE  TypeOK' /\ Dead' /\ Lives'
<1> DEFINE x == note[d]
           m == Head(inbox[d])
<1>1. Takes(d, "broadcast") /\ UNCHANGED link
  BY DEF DeltaBroadcast
<1>2. CASE Resolve(d)
  BY <1>1, <1>2, ResolveGives
<1>3. CASE ~Resolve(d)
  <2>1. Known(x, m) /\ UNCHANGED <<words, gone, deletes, faults>>
    BY <1>3 DEF DeltaBroadcast
  <2>2. PICK open \in BOOLEAN :
         LET flushes == open /\ x.file # NoFile /\ x.file # Text(x.doc)
             h == IF flushes THEN SyncFromDisk(d, x.doc, x.file) ELSE x.doc
             merged == Import(h, m.delta)
             gap == ~Covers(Version(merged), Version(m.known))
             y == [x EXCEPT !.unacked = @ \/ flushes] IN
         /\ IF flushes THEN Push(d, Rest(d), Delta(h, Version(x.doc)), FALSE)
            ELSE Quiet(Rest(d))
         /\ IF flushes THEN Begins(x.doc, x.file) ELSE UNCHANGED lives
         /\ lapses' = lapses \cup (IF flushes THEN {"flushed"} ELSE {})
                              \cup (IF gap /\ server'.live /\ Meets(merged, server'.history)
                                   THEN {"caught"} ELSE {})
         /\ LET caught == IF gap /\ server'.live THEN Import(merged, Delta(server'.history, Nothing))
                          ELSE merged IN
            Becomes(d, [IF gap /\ ~server'.live THEN y ELSE Shows(y, Text(caught), {Text(h)})
                        EXCEPT !.doc = caught])
    BY <1>3 DEF DeltaBroadcast
  <2>3. PICK flushes \in BOOLEAN : flushes <=> open /\ x.file # NoFile /\ x.file # Text(x.doc)
    OBVIOUS
  <2>4. PICK h : h = IF flushes THEN SyncFromDisk(d, x.doc, x.file) ELSE x.doc
    OBVIOUS
  <2>5. PICK merged : merged = Import(h, m.delta)
    OBVIOUS
  <2>6. PICK gap \in BOOLEAN : gap <=> ~Covers(Version(merged), Version(m.known))
    OBVIOUS
  <2>7. PICK y : y = [x EXCEPT !.unacked = @ \/ flushes]
    OBVIOUS
  <2>8. PICK caught : caught = IF gap /\ server'.live THEN Import(merged, Delta(server'.history, Nothing))
                               ELSE merged
    OBVIOUS
  <2>9. PICK z : z = [IF gap /\ ~server'.live THEN y ELSE Shows(y, Text(caught), {Text(h)})
                      EXCEPT !.doc = caught]
    OBVIOUS
  <2>10. /\ IF flushes THEN Push(d, Rest(d), Delta(h, Version(x.doc)), FALSE) ELSE Quiet(Rest(d))
         /\ IF flushes THEN Begins(x.doc, x.file) ELSE UNCHANGED lives
         /\ lapses' = lapses \cup (IF flushes THEN {"flushed"} ELSE {})
                              \cup (IF gap /\ server'.live /\ Meets(merged, server'.history)
                                   THEN {"caught"} ELSE {})
         /\ note' = [note EXCEPT ![d] = z]
    <3> HIDE DEF x, m
    <3> QED BY <2>2, <2>3, <2>4, <2>5, <2>6, <2>7, <2>8, <2>9 DEF Becomes
  <2>11. /\ TypeOK /\ lives \in Nat /\ x \in NotesTo(lives) /\ x.doc \in HistoriesTo(lives)
         /\ server.history \in HistoriesTo(lives)
    BY StepFacts
  <2>12. ASSUME flushes
         PROVE  /\ lives' \in Nat /\ lives <= lives' /\ h \in HistoriesTo(lives')
                /\ Delta(h, Version(x.doc)) \in DeltasTo(lives')
    <3>1. x.file \in Texts
      BY <2>3, <2>11, <2>12, NoteParts
    <3>2. Begins(x.doc, x.file) /\ h = SyncFromDisk(d, x.doc, x.file)
      BY <2>4, <2>10, <2>12
    <3> QED BY <3>1, <3>2, SyncStep
  <2>13. lives' \in Nat /\ lives <= lives' /\ h \in HistoriesTo(lives') /\ x \in NotesTo(lives')
    <3>1. CASE flushes
      BY <2>11, <2>12, <3>1, HistoriesGrow
    <3>2. CASE ~flushes
      BY <2>4, <2>10, <2>11, <3>2
    <3> QED BY <3>1, <3>2
  <2>14. /\ Ready(d, Rest(d)) /\ (AllFit(inbox) => AllFit(Rest(d)) /\ Fits(m))
         /\ m \in MessagesTo(lives) /\ m.kind = "broadcast" /\ m \in ToSet(inbox[d])
    BY <1>1, <2>13, ReadyRest
  <2>15. Network
    <3>1. CASE flushes
      BY <2>10, <2>12, <2>14, <3>1, PushGives
    <3>2. CASE ~flushes
      BY <2>10, <2>14, <3>2, QuietGives
    <3> QED BY <3>1, <3>2
  <2>16. m \in MessagesTo(lives') /\ m.delta \in DeltasTo(lives') /\ server'.history \in HistoriesTo(lives')
    <3>1. m \in MessagesTo(lives')
      BY <2>11, <2>13, <2>14, HistoriesGrow
    <3>2. m.delta \in DeltasTo(lives')
      BY <2>14, <3>1 DEF MessagesTo
    <3>3. server'.history \in HistoriesTo(lives')
      BY <2>15 DEF Network, ServersTo
    <3> QED BY <3>1, <3>2, <3>3
  <2>17. merged \in HistoriesTo(lives')
    BY <2>5, <2>13, <2>16, ImportGives
  <2>18. caught \in HistoriesTo(lives') /\ Continues(caught, merged)
    <3>1. CASE gap /\ server'.live
      BY <2>8, <2>13, <2>16, <2>17, <3>1, JoinsGive
    <3>2. CASE ~(gap /\ server'.live)
      BY <2>8, <2>13, <2>17, <3>2, ContinuesSelf
    <3> QED BY <3>1, <3>2
  <2>19. z \in NotesTo(lives') /\ z.doc = caught
    <3>1. PICK b \in BOOLEAN : b <=> x.unacked \/ flushes
      OBVIOUS
    <3>2. y \in NotesTo(lives')
      <4>1. y = [x EXCEPT !.unacked = b]
        <5>1. (x.unacked \/ flushes) = b
          <6>1. x.unacked \in BOOLEAN
            BY <2>13, NoteParts
          <6> QED BY <3>1, <6>1
        <5> QED BY <2>7, <5>1
      <4> HIDE DEF x
      <4> QED BY <2>13, <4>1 DEF NotesTo
    <3>3. PICK w : w = IF gap /\ ~server'.live THEN y ELSE Shows(y, Text(caught), {Text(h)})
      OBVIOUS
    <3>4. Text(caught) \in Texts
      BY <2>13, <2>18, HistoryFacts
    <3>5. w \in NotesTo(lives')
      BY <2>13, <3>2, <3>3, <3>4, ShowsTyped
    <3>6. z = [w EXCEPT !.doc = caught]
      BY <2>9, <3>3
    <3> QED BY <2>13, <2>18, <3>5, <3>6, TakesGives
  <2>20. note'[d] = z
    <3>1. note \in [Devices -> NotesTo(lives)]
      BY StepFacts, Fields
    <3> QED BY <2>10, <3>1
  <2>21. ASSUME ~Apart' PROVE One(caught) /\ Separate
    <3>1. ~flushes /\ ~(gap /\ server'.live /\ Meets(merged, server'.history))
      BY <2>10, <2>21 DEF Apart
    <3>2. /\ One(server.history) /\ AllFit(inbox) /\ One(x.doc)
          /\ ~Clash(note'[d].doc, server'.history)
          /\ \A g \in Met(d) : ~Clash(x.doc, g)
      BY <2>21, StepFacts
    <3>3. Separate /\ server' = server
      BY <2>10, <2>14, <3>1, <3>2, QuietGives
    <3>4. h = x.doc
      BY <2>4, <3>1
    <3>5. m.delta.history \in Met(d) /\ m.known \in Met(d)
      <4> HIDE DEF m
      <4> QED BY <2>14 DEF Met
    <3>6. One(merged)
      <4>1. x.doc = Empty \/ SharedHistory(Version(x.doc), Version(m.known))
        BY <2>1 DEF Known
      <4>2. ~Clash(h, m.known) /\ ~Clash(h, m.delta.history)
        BY <3>2, <3>4, <3>5
      <4> HIDE DEF x, m
      <4> QED BY <2>5, <2>13, <2>14, <2>16, <3>2, <3>4, <4>1, <4>2, KnownGives
    <3>7. CASE gap /\ server'.live
      <4>1. merged = Empty \/ SharedHistory(Version(merged), Version(server'.history))
        BY <3>1, <3>7 DEF Meets
      <4>2. Continues(server'.history, server'.history) /\ One(server'.history) /\ ~Clash(caught, server'.history)
        BY <2>13, <2>16, <2>19, <2>20, <3>2, <3>3, ContinuesSelf
      <4>3. caught = Import(merged, Delta(server'.history, Nothing))
        BY <2>8, <3>7
      <4> QED BY <2>13, <2>16, <2>17, <2>18, <3>3, <3>6, <4>1, <4>2, <4>3, JoinsGive
    <3>8. CASE ~(gap /\ server'.live)
      BY <2>8, <3>3, <3>6, <3>8
    <3> QED BY <3>7, <3>8
  <2>22. Results(d)
    BY <2>10, <2>13, <2>15, <2>19, <2>21 DEF Results
  <2>23. lapses' \subseteq {"flushed", "caught", "intended"}
    BY <1>1, <2>1, <2>10, CountersKept
  <2>24. /\ link' \in [Devices -> {"up", "silent", "closed"}] /\ words' \in 0..MaxWords /\ gone' \in Texts
         /\ deletes' \in 0..MaxDeletes /\ faults' \in 0..MaxFaults
    BY <1>1, <2>1, CountersKept
  <2> QED BY <1>1, <2>22, <2>23, <2>24, StepKeeps
<1> QED BY <1>2, <1>3

LEMMA CreateConflictKeeps ==
  ASSUME NEW d \in Devices, Stepping, CreateConflict(d)
  PROVE  TypeOK' /\ Dead' /\ Lives'
BY ResolveGives DEF CreateConflict

LEMMA DocDeletedKeeps ==
  ASSUME NEW d \in Devices, Stepping, DocDeleted(d)
  PROVE  TypeOK' /\ Dead' /\ Lives'
<1> DEFINE x == note[d]
           keep == KeepsFile(x, Head(inbox[d]).hash)
<1>1. Takes(d, "deleted") /\ Quiet(Rest(d)) /\ UNCHANGED <<link, words, lives, gone, deletes, faults>>
  BY DEF DocDeleted
<1>2. lives' \in Nat /\ lives <= lives' /\ x \in NotesTo(lives')
  BY <1>1, SameLives
<1>3. Ready(d, Rest(d)) /\ (AllFit(inbox) => AllFit(Rest(d)))
  BY <1>1, <1>2, ReadyRest
<1>4. lapses' \subseteq {"flushed", "caught", "intended"}
  BY <1>1, CountersKept DEF DocDeleted
<1>5. \E z \in NotesTo(lives') : note' = [note EXCEPT ![d] = z] /\ z.doc = Empty
  <2>1. CASE keep
    <3>1. PICK z : z = [x EXCEPT !.doc = Empty, !.pending = "kept"]
      OBVIOUS
    <3>2. Empty \in HistoriesTo(lives')
      BY <1>2, NoteParts, HistoryFacts
    <3>3. z \in NotesTo(lives') /\ z.doc = Empty
      <4> HIDE DEF x
      <4> QED BY <1>2, <3>1, <3>2 DEF NotesTo
    <3> QED BY <2>1, <3>1, <3>3 DEF DocDeleted, Becomes
  <2>2. CASE ~keep
    <3>1. PICK y : y = Removes(x)
      OBVIOUS
    <3>2. y \in NotesTo(lives') /\ y.doc = Empty
      BY <1>2, <3>1, NoteParts
    <3>3. PICK p : p = IF y.pending = "kept" THEN "sent" ELSE y.pending
      OBVIOUS
    <3>4. p \in {"none", "sent", "kept"}
      BY <1>2, <3>2, <3>3, NoteParts
    <3>5. PICK z : z = [y EXCEPT !.pending = p]
      OBVIOUS
    <3>6. z \in NotesTo(lives') /\ z.doc = Empty
      BY <1>2, <3>2, <3>4, <3>5, PendingGives
    <3>7. note' = [note EXCEPT ![d] = z]
      BY <2>2, <3>1, <3>3, <3>5 DEF DocDeleted, Becomes
    <3> QED BY <3>6, <3>7
  <2> QED BY <2>1, <2>2
<1>6. Results(d)
  <2>1. PICK z \in NotesTo(lives') : note' = [note EXCEPT ![d] = z] /\ z.doc = Empty
    BY <1>5
  <2> QED BY <1>1, <1>3, <2>1, SameLives, EmptyOne
<1> QED BY <1>1, <1>4, <1>6, CountersKept, StepKeeps

LEMMA DocTombstonedKeeps ==
  ASSUME NEW d \in Devices, Stepping, DocTombstoned(d)
  PROVE  TypeOK' /\ Dead' /\ Lives'
<1> DEFINE x == note[d]
<1>1. Takes(d, "refused") /\ UNCHANGED <<link, words, gone, lapses, deletes, faults>>
  BY DEF DocTombstoned
<1> SUFFICES Results(d)
  BY <1>1, CountersKept, StepKeeps
<1>2. /\ TypeOK /\ lives \in Nat /\ x \in NotesTo(lives) /\ x.doc \in HistoriesTo(lives) /\ (~Apart' => One(x.doc))
  BY StepFacts
<1>3. CASE x.file = NoFile /\ Quiet(Rest(d)) /\ UNCHANGED <<note, lives>>
  <2>1. note' = [note EXCEPT ![d] = x]
    <3>1. note \in [Devices -> NotesTo(lives)]
      BY StepFacts, Fields
    <3> QED BY <1>3, <3>1
  <2>2. Ready(d, Rest(d)) /\ (AllFit(inbox) => AllFit(Rest(d)))
    BY <1>1, <1>2, <1>3, ReadyRest
  <2> QED BY <1>2, <1>3, <2>1, <2>2, SameLives
<1>4. CASE /\ x.file # NoFile /\ server.live
           /\ \E open \in BOOLEAN :
                LET h == IF open THEN SyncFromDisk(d, x.doc, x.file) ELSE x.doc IN
                /\ IF open THEN Begins(x.doc, x.file) ELSE UNCHANGED lives
                /\ Becomes(d, [x EXCEPT !.doc = h, !.unacked = TRUE, !.tombstoned = FALSE])
                /\ Push(d, Rest(d), Delta(h, Nothing), TRUE)
  <2>1. PICK open \in BOOLEAN :
          LET h == IF open THEN SyncFromDisk(d, x.doc, x.file) ELSE x.doc IN
          /\ IF open THEN Begins(x.doc, x.file) ELSE UNCHANGED lives
          /\ Becomes(d, [x EXCEPT !.doc = h, !.unacked = TRUE, !.tombstoned = FALSE])
          /\ Push(d, Rest(d), Delta(h, Nothing), TRUE)
    BY <1>4
  <2>2. PICK h : h = IF open THEN SyncFromDisk(d, x.doc, x.file) ELSE x.doc
    OBVIOUS
  <2>3. PICK z : z = [x EXCEPT !.doc = h, !.unacked = TRUE, !.tombstoned = FALSE]
    OBVIOUS
  <2>4. /\ IF open THEN Begins(x.doc, x.file) ELSE UNCHANGED lives
        /\ note' = [note EXCEPT ![d] = z]
        /\ Push(d, Rest(d), Delta(h, Nothing), TRUE)
    BY <2>1, <2>2, <2>3 DEF Becomes
  <2>5. x.file \in Texts
    BY <1>2, <1>4, NoteParts
  <2>6. lives' \in Nat /\ lives <= lives' /\ h \in HistoriesTo(lives') /\ (~Apart' => One(h)) /\ x \in NotesTo(lives')
    <3>1. CASE open
      BY <2>2, <2>4, <2>5, <3>1, SyncStep
    <3>2. CASE ~open
      BY <1>2, <2>2, <2>4, <3>2
    <3> QED BY <3>1, <3>2
  <2>7. Ready(d, Rest(d)) /\ (AllFit(inbox) => AllFit(Rest(d)))
    BY <1>1, <2>6, ReadyRest
  <2>8. z \in NotesTo(lives') /\ z.doc = h
    <3> HIDE DEF x
    <3> QED BY <2>3, <2>6 DEF NotesTo
  <2>9. Nothing \in Versions /\ \A a \in Devices : Nothing[a] <= Len(h[a])
    <3>1. Nothing \in Versions /\ \A a \in Devices : Len(h[a]) \in Nat /\ Nothing[a] = 0
      BY <2>6, HistoryFacts
    <3> QED BY <3>1
  <2> QED BY <2>4, <2>6, <2>7, <2>8, <2>9, PushStep
<1>5. CASE /\ x.file # NoFile /\ ~server.live
           /\ Becomes(d, [Removes(x) EXCEPT !.copies = @ \cup x.file, !.pending = "sent"])
           /\ SendDelete(d, Rest(d)) /\ UNCHANGED lives
  <2>1. PICK y : y = Removes(x)
    OBVIOUS
  <2>2. y \in NotesTo(lives) /\ y.doc = Empty /\ x.file \in Texts
    BY <1>2, <1>5, <2>1, NoteParts
  <2>3. PICK c : c = y.copies \cup x.file
    OBVIOUS
  <2>4. c \in Texts
    <3>1. y.copies \in Texts
      BY <1>2, <2>2, NoteParts
    <3> QED BY <2>2, <2>3, <3>1 DEF Texts
  <2>5. PICK z : z = [y EXCEPT !.copies = c, !.pending = "sent"]
    OBVIOUS
  <2>6. z \in NotesTo(lives) /\ z.doc = Empty
    BY <2>2, <2>4, <2>5 DEF NotesTo
  <2>7. note' = [note EXCEPT ![d] = z]
    BY <1>5, <2>1, <2>3, <2>5 DEF Becomes
  <2>8. Ready(d, Rest(d)) /\ (AllFit(inbox) => AllFit(Rest(d)))
    BY <1>1, <1>2, <1>5, ReadyRest
  <2> QED BY <1>2, <1>5, <2>6, <2>7, <2>8, SameLives, EmptyOne
<1> QED BY <1>3, <1>4, <1>5 DEF DocTombstoned

LEMMA FaultKeeps ==
  ASSUME NEW d \in Devices, Stepping, FallsSilent(d) \/ Drop(d)
  PROVE  TypeOK' /\ Dead' /\ Lives'
<1>1. /\ TypeOK /\ Dead /\ UnchangedByFaults /\ inbox' = [inbox EXCEPT ![d] = <<>>]
      /\ \E l \in {"silent", "closed"} : link' = [link EXCEPT ![d] = l]
      /\ faults' = faults \/ (faults < MaxFaults /\ faults' = faults + 1)
  BY StepFacts DEF FallsSilent, Drop, Fault
<1>2. lives' = lives /\ server' = server /\ note' = note
  BY <1>1 DEF UnchangedByFaults
<1>3. /\ lives \in Nat /\ note \in [Devices -> NotesTo(lives)] /\ inbox \in InboxesTo(lives) /\ server \in ServersTo(lives)
      /\ (~Apart' => One(note[d].doc) /\ One(server.history) /\ AllFit(inbox))
  BY StepFacts, Fields
<1>4. \A e \in Devices : inbox'[e] = IF e = d THEN <<>> ELSE inbox[e]
  BY <1>1, <1>3 DEF InboxesTo
<1>5. inbox' \in InboxesTo(lives')
  <2>1. <<>> \in Seq(MessagesTo(lives))
    BY EmptySeq
  <2> QED BY <1>1, <1>2, <1>3, <2>1 DEF InboxesTo
<1>6. \A e \in Devices : link'[e] # "up" => inbox'[e] = <<>>
  BY <1>1, <1>4 DEF TypeOK
<1>7. Network
  BY <1>1, <1>2, <1>3, <1>5, <1>6 DEF Network, Dead, TypeOK
<1>8. AllFit(inbox) => AllFit(inbox')
  <2>1. \A e \in Devices : ToSet(inbox'[e]) \subseteq ToSet(inbox[e])
    <3>1. ToSet(<<>>) = {}
      BY DEF ToSet
    <3> QED BY <1>4, <3>1
  <2> QED BY <2>1 DEF AllFit
<1>9. note' = [note EXCEPT ![d] = note[d]] /\ note[d] \in NotesTo(lives')
  BY <1>2, <1>3
<1>10. Results(d)
  BY <1>2, <1>3, <1>7, <1>8, <1>9 DEF Results, Separate
<1>11. /\ link' \in [Devices -> {"up", "silent", "closed"}] /\ words' \in 0..MaxWords /\ gone' \in Texts
       /\ lapses' \subseteq {"flushed", "caught", "intended"} /\ deletes' \in 0..MaxDeletes /\ faults' \in 0..MaxFaults
  BY <1>1 DEF TypeOK, UnchangedByFaults
<1> QED BY <1>10, <1>11, StepKeeps

---------------------------------------------------------------------------
(* Connecting.                                                               *)

LEMMA CreatesGives ==
  ASSUME NEW d \in Devices, Stepping, NEW x \in NotesTo(lives), x.doc = note[d].doc, x.file # NoFile,
         \A e \in Devices : (e # d => link'[e] = link[e]) /\ (link[e] # link'[e] => link[e] # "up"),
         NEW replace \in BOOLEAN, Creates(d, x, replace)
  PROVE  Results(d)
<1>1. PICK h : h = SyncFromDisk(d, x.doc, x.file)
  OBVIOUS
<1>2. PICK z : z = [x EXCEPT !.doc = h, !.pending = "none", !.tombstoned = FALSE, !.unacked = FALSE]
  OBVIOUS
<1>3. /\ Begins(x.doc, x.file) /\ note' = [note EXCEPT ![d] = z] /\ Push(d, inbox, Delta(h, Nothing), replace)
  BY <1>1, <1>2 DEF Creates, Becomes
<1>4. x.file \in Texts /\ lives \in Nat
  BY StepFacts, NoteParts
<1>5. lives' \in Nat /\ lives <= lives' /\ h \in HistoriesTo(lives') /\ (~Apart' => One(h))
  BY <1>1, <1>3, <1>4, SyncStep
<1>6. x \in NotesTo(lives')
  BY <1>4, <1>5, HistoriesGrow
<1>7. z \in NotesTo(lives') /\ z.doc = h
  BY <1>2, <1>5, <1>6 DEF NotesTo
<1>8. Nothing \in Versions /\ \A a \in Devices : Nothing[a] <= Len(h[a])
  <2>1. Nothing \in Versions /\ \A a \in Devices : Len(h[a]) \in Nat /\ Nothing[a] = 0
    BY <1>5, HistoryFacts
  <2> QED BY <2>1
<1>9. Ready(d, inbox)
  BY <1>5, ReadyInbox
<1> QED BY <1>3, <1>5, <1>7, <1>8, <1>9, PushStep

LEMMA OverlapsGives ==
  ASSUME NEW d \in Devices, Stepping, NEW x \in NotesTo(lives), x.doc = note[d].doc, x.file # NoFile,
         \A e \in Devices : (e # d => link'[e] = link[e]) /\ (link[e] # link'[e] => link[e] # "up"),
         Overlaps(d, x)
  PROVE  Results(d)
<1>1. PICK mine : mine = SyncFromDisk(d, x.doc, x.file)
  OBVIOUS
<1>2. PICK theirs : theirs = Version(server.history)
  OBVIOUS
<1>3. PICK merged : merged = Import(mine, Delta(server.history, Nothing))
  OBVIOUS
<1>4. PICK z : z = [Shows(x, Text(merged), {x.file}) EXCEPT !.doc = merged]
  OBVIOUS
<1>5. /\ TypeOK /\ lives \in Nat /\ server.history \in HistoriesTo(lives) /\ x.file \in Texts
      /\ (~Apart' => One(server.history))
  BY StepFacts, NoteParts
<1>6. CASE note' = [note EXCEPT ![d] = Adopts(x, server.history)] /\ Quiet(inbox) /\ UNCHANGED lives
  <2>1. PICK n \in Nat : n = lives'
    BY <1>5, <1>6
  <2>2. PICK g \in HistoriesTo(n) : g = server.history
    BY <1>5, <1>6, <2>1
  <2>3. PICK y : y = Adopts(x, g)
    OBVIOUS
  <2>4. y \in NotesTo(n) /\ y.doc = g
    <3>1. PICK w \in NotesTo(n) : w = x
      BY <1>6, <2>1
    <3>2. Adopts(w, g) \in NotesTo(n) /\ Adopts(w, g).doc = g
      BY AdoptsGives
    <3> QED BY <2>3, <3>1, <3>2
  <2>5. Ready(d, inbox)
    BY <1>5, <1>6, ReadyInbox
  <2> QED BY <1>5, <1>6, <2>1, <2>2, <2>3, <2>4, <2>5, SameLives
<1>7. CASE /\ SharedHistory(Version(mine), theirs) /\ note' = [note EXCEPT ![d] = z]
           /\ Begins(x.doc, x.file)
           /\ Quiet(inbox) \/ Push(d, inbox, Delta(merged, theirs), FALSE)
  <2>1. lives' \in Nat /\ lives <= lives' /\ mine \in HistoriesTo(lives') /\ (~Apart' => One(mine))
    BY <1>1, <1>5, <1>7, SyncStep
  <2>2. server.history \in HistoriesTo(lives') /\ x \in NotesTo(lives')
    BY <1>5, <2>1, HistoriesGrow
  <2>3. /\ merged \in HistoriesTo(lives') /\ Continues(merged, mine) /\ \A a \in Devices : theirs[a] <= Len(merged[a])
    BY <1>2, <1>3, <2>1, <2>2, JoinsGive
  <2>4. theirs \in Versions
    BY <1>2, <2>1, <2>2, HistoryFacts
  <2>5. z \in NotesTo(lives') /\ z.doc = merged
    <3>1. PICK y : y = Shows(x, Text(merged), {x.file})
      OBVIOUS
    <3>2. Text(merged) \in Texts
      BY <2>1, <2>3, HistoryFacts
    <3>3. y \in NotesTo(lives')
      BY <2>1, <2>2, <3>1, <3>2, ShowsTyped
    <3>4. z = [y EXCEPT !.doc = merged]
      BY <1>4, <3>1
    <3> QED BY <2>1, <2>3, <3>3, <3>4, TakesGives
  <2>6. Ready(d, inbox)
    BY <2>1, ReadyInbox
  <2>7. PICK delta : delta = Delta(merged, theirs)
    OBVIOUS
  <2>8. delta \in DeltasTo(lives')
    BY <2>3, <2>4, <2>7 DEF Delta, DeltasTo
  <2>9. Network /\ Continues(server'.history, server.history)
    <3>1. CASE Quiet(inbox)
      BY <2>6, <3>1, QuietGives
    <3>2. CASE Push(d, inbox, delta, FALSE)
      BY <2>6, <2>8, <3>2, PushGives
    <3> QED BY <1>7, <2>7, <3>1, <3>2
  <2>10. ~Apart' => One(merged)
    <3> SUFFICES ASSUME ~Apart' PROVE One(merged)
      OBVIOUS
    <3>1. ~Clash(note'[d].doc, server'.history) /\ One(server.history)
      BY StepFacts
    <3>2. note'[d] = z
      <4>1. note \in [Devices -> NotesTo(lives)]
        BY <1>5, Fields
      <4> QED BY <1>7, <4>1
    <3>3. ~Clash(merged, server'.history)
      BY <2>5, <3>1, <3>2
    <3>4. server'.history \in HistoriesTo(lives')
      BY <2>9 DEF Network, ServersTo
    <3> QED BY <1>2, <1>3, <1>7, <2>1, <2>2, <2>3, <2>9, <3>1, <3>3, <3>4, JoinsGive
  <2>11. CASE Push(d, inbox, Delta(merged, theirs), FALSE)
    BY <1>7, <2>1, <2>3, <2>4, <2>5, <2>6, <2>10, <2>11, PushStep
  <2>12. CASE Quiet(inbox)
    <3>1. One(server.history) /\ AllFit(inbox) => Separate
      BY <2>6, <2>12, QuietGives
    <3>2. ~Apart' => Separate
      BY <3>1, StepFacts
    <3> QED BY <1>7, <2>1, <2>5, <2>9, <2>10, <3>2 DEF Results
  <2> QED BY <1>7, <2>11, <2>12
<1> QED BY <1>1, <1>2, <1>3, <1>4, <1>6, <1>7 DEF Overlaps, Becomes

LEMMA ConnectKeeps ==
  ASSUME NEW d \in Devices, Stepping, Connect(d)
  PROVE  TypeOK' /\ Dead' /\ Lives'
<1>1. PICK x : x = [note[d] EXCEPT !.tombstoned = server.tombstone, !.unacked = FALSE]
  OBVIOUS
<1>2. /\ TypeOK /\ lives \in Nat /\ note[d] \in NotesTo(lives) /\ server \in ServersTo(lives)
      /\ server.history \in HistoriesTo(lives) /\ (~Apart' => One(server.history) /\ One(note[d].doc))
  BY StepFacts
<1>3. x \in NotesTo(lives) /\ x.doc = note[d].doc /\ x.file = note[d].file
  BY <1>1, <1>2 DEF NotesTo, ServersTo
<1>4. PICK settled : settled = [x EXCEPT !.pending = "none"]
  OBVIOUS
<1>5. settled \in NotesTo(lives) /\ settled.doc = x.doc
  BY <1>2, <1>3, <1>4, PendingGives
<1>6. /\ link[d] = "closed" /\ link' = [link EXCEPT ![d] = "up"]
      /\ UNCHANGED <<words, gone, lapses, deletes, faults>>
  BY DEF Connect
<1>7. /\ link' \in [Devices -> {"up", "silent", "closed"}]
      /\ \A e \in Devices : (e # d => link'[e] = link[e]) /\ (link[e] # link'[e] => link[e] # "up")
  BY <1>2, <1>6 DEF TypeOK
<1>8. ASSUME x.file # NoFile, \E replace \in BOOLEAN : Creates(d, x, replace) PROVE Results(d)
  BY <1>3, <1>7, <1>8, CreatesGives
<1>9. ASSUME x.file # NoFile, Overlaps(d, x) PROVE Results(d)
  BY <1>3, <1>7, <1>9, OverlapsGives
<1>10. ASSUME UNCHANGED lives,
              \E y \in NotesTo(lives) :
                /\ note' = [note EXCEPT ![d] = y] /\ (~Apart' => One(y.doc))
                /\ Quiet(inbox) \/ SendDelete(d, inbox)
       PROVE  Results(d)
  <2>1. Ready(d, inbox)
    BY <1>2, <1>7, <1>10, ReadyInbox
  <2>2. PICK y \in NotesTo(lives) :
          note' = [note EXCEPT ![d] = y] /\ (~Apart' => One(y.doc)) /\ (Quiet(inbox) \/ SendDelete(d, inbox))
    BY <1>10
  <2> QED BY <1>10, <2>1, <2>2, SameLives
<1>11. Results(d)
  <2>1. CASE Becomes(d, [x EXCEPT !.pending = "sent"]) /\ SendDelete(d, inbox) /\ UNCHANGED lives
    <3>1. PICK y : y = [x EXCEPT !.pending = "sent"]
      OBVIOUS
    <3>2. y \in NotesTo(lives) /\ y.doc = x.doc
      BY <1>2, <1>3, <3>1, PendingGives
    <3> QED BY <1>2, <1>3, <1>10, <2>1, <3>1, <3>2 DEF Becomes
  <2>2. CASE Becomes(d, Adopts(settled, server.history)) /\ Quiet(inbox) /\ UNCHANGED lives
    <3>1. PICK y, g : y = Adopts(settled, g) /\ g = server.history
      OBVIOUS
    <3>2. y \in NotesTo(lives) /\ y.doc = g
      <4>1. g \in HistoriesTo(lives)
        BY <1>2, <3>1
      <4> QED BY <1>2, <1>5, <3>1, <4>1, AdoptsGives
    <3>3. note' = [note EXCEPT ![d] = y] /\ (~Apart' => One(y.doc))
      BY <1>2, <2>2, <3>1, <3>2 DEF Becomes
    <3> QED BY <1>10, <2>2, <3>2, <3>3
  <2>3. CASE Becomes(d, settled) /\ Quiet(inbox) /\ UNCHANGED lives
    BY <1>2, <1>3, <1>5, <1>10, <2>3 DEF Becomes
  <2>4. CASE Becomes(d, Removes(x)) /\ Quiet(inbox) /\ UNCHANGED lives
    <3>1. PICK y : y = Removes(x)
      OBVIOUS
    <3>2. y \in NotesTo(lives) /\ y.doc = Empty
      BY <1>2, <1>3, <3>1, NoteParts
    <3> QED BY <1>10, <2>4, <3>1, <3>2, EmptyOne DEF Becomes
  <2>5. CASE Recreates(d) /\ Creates(d, x, TRUE)
    BY <1>3, <1>8, <2>5 DEF Recreates
  <2>6. CASE x.file # NoFile /\ (Creates(d, x, FALSE) \/ Creates(d, x, TRUE))
    BY <1>8, <2>6
  <2>7. Tombstoned(d, x) => Creates(d, x, TRUE) \/ (Becomes(d, Removes(x)) /\ Quiet(inbox) /\ UNCHANGED lives)
    BY DEF Tombstoned
  <2> QED BY <1>1, <1>4, <1>9, <2>1, <2>2, <2>3, <2>4, <2>5, <2>6, <2>7 DEF Connect
<1> QED BY <1>2, <1>6, <1>7, <1>11, CountersKept, StepKeeps DEF TypeOK

---------------------------------------------------------------------------
(* The invariant and the theorems.                                           *)

LEMMA InitGives ==
  Init => IInv
<1> SUFFICES ASSUME Init PROVE IInv
  OBVIOUS
<1>1. lives = 0 /\ Empty \in HistoriesTo(0)
  <2>1. <<>> \in Seq(OpsTo(0))
    BY EmptySeq
  <2> QED BY <2>1 DEF Init, HistoriesTo, Empty
<1>2. Histories = HistoriesTo(0)
  BY <1>1 DEF Histories, HistoriesTo, OpsTo
<1>3. \A d \in Devices : note[d] = Blank /\ inbox[d] = <<>> /\ link[d] = "up"
  BY DEF Init
<1>4. <<>> \in Seq(Messages)
  BY EmptySeq
<1>5. TypeOK
  <2>1. /\ server \in [live : BOOLEAN, tombstone : BOOLEAN, hash : Texts, history : Histories]
        /\ ~(server.live /\ server.tombstone)
    BY <1>1, <1>2 DEF Init, Texts
  <2>2. note \in [Devices -> [file : Texts \cup {NoFile}, doc : Histories, copies : Texts,
                              pending : {"none", "sent", "kept"}, tombstoned : BOOLEAN, unacked : BOOLEAN]]
    BY <1>1, <1>2 DEF Init, Blank, Texts
  <2>3. inbox \in [Devices -> Seq(Messages)]
    BY <1>4 DEF Init
  <2>4. /\ link \in [Devices -> {"up", "silent", "closed"}] /\ \A d \in Devices : link[d] # "up" => inbox[d] = <<>>
        /\ lives \in Nat /\ clashed \in BOOLEAN /\ lapses \subseteq {"flushed", "caught", "intended"}
    <3>1. link = [d \in Devices |-> "up"] /\ lapses = {} /\ clashed = FALSE
      BY DEF Init
    <3>2. link \in [Devices -> {"up", "silent", "closed"}] /\ \A d \in Devices : link[d] # "up" => inbox[d] = <<>>
      BY <3>1
    <3> QED BY <1>1, <3>1, <3>2
  <2>5. words \in 0..MaxWords /\ deletes \in 0..MaxDeletes /\ faults \in 0..MaxFaults
    BY DEF Init
  <2>6. gone \in Texts
    BY DEF Init, Texts
  <2> QED BY <2>1, <2>2, <2>3, <2>4, <2>5, <2>6 DEF TypeOK
<1>6. \A d \in Devices : note[d].doc = Empty
  BY <1>3 DEF Blank
<1>7. \A g : ~Clash(Empty, g)
  BY EmptyFacts DEF Clash
<1>8. NoClash
  BY <1>6, <1>7 DEF NoClash
<1>9. Dead
  BY DEF Init, Dead
<1>10. Lives
  <2>1. server.history = Empty
    BY DEF Init
  <2>2. AllFit(inbox)
    <3>1. ToSet(<<>>) = {}
      BY DEF ToSet
    <3> QED BY <1>3, <3>1 DEF AllFit
  <2> QED BY <1>6, <2>1, <2>2, EmptyOne DEF Lives
<1> QED BY <1>5, <1>8, <1>9, <1>10 DEF IInv

LEMMA NextKeeps ==
  IInv /\ [Next]_vars => IInv'
<1> SUFFICES ASSUME IInv, [Next]_vars PROVE IInv'
  OBVIOUS
<1>1. CASE UNCHANGED vars
  <2>1. /\ server' = server /\ note' = note /\ link' = link /\ inbox' = inbox /\ words' = words /\ lives' = lives
        /\ clashed' = clashed /\ gone' = gone /\ lapses' = lapses /\ deletes' = deletes /\ faults' = faults
    BY <1>1 DEF vars
  <2>2. TypeOK'
    BY <2>1 DEF IInv, TypeOK, Histories, Messages, Texts, Words
  <2>3. \A d \in Devices : Met(d)' = Met(d)
    BY <2>1 DEF Met
  <2>4. NoClash'
    BY <2>1, <2>3 DEF IInv, NoClash
  <2>5. Dead'
    BY <2>1 DEF IInv, Dead, Empty
  <2>6. Lives'
    <3>1. Apart' = Apart
      BY <2>1 DEF Apart
    <3>2. One(server'.history) = One(server.history) /\ AllFit(inbox') = AllFit(inbox)
          /\ \A d \in Devices : One(note'[d].doc) = One(note[d].doc)
      BY <2>1
    <3>3. Lives' <=> Apart' \/ (/\ \A d \in Devices : One(note'[d].doc)
                               /\ One(server'.history) /\ AllFit(inbox'))
      BY DEF Lives, AllFit, Fits, One, Same, OpsOf, Nothing, Version, Empty
    <3> QED BY <3>1, <3>2, <3>3 DEF IInv, Lives
  <2> QED BY <2>2, <2>4, <2>5, <2>6 DEF IInv
<1>2. CASE Next
  <2>1. PICK d \in Devices : Step(d)
    BY <1>2 DEF Next
  <2>2. clashed' <=> clashed \/ \E e \in Devices : \E g \in Met(e)' : Clash(note'[e].doc, g)
    BY <1>2 DEF Next
  <2>3. clashed' \in BOOLEAN
    <3>1. clashed' = (clashed \/ \E e \in Devices : \E g \in Met(e)' : Clash(note'[e].doc, g))
      BY <1>2 DEF Next
    <3> QED BY <3>1
  <2>4. lapses \subseteq lapses'
    BY <2>1 DEF Step, Write, Delete, DeltaBroadcast, CreateConflict, Resolve, DocDeleted, DocTombstoned,
                FallsSilent, Drop, UnchangedByFaults, Connect
  <2>5. Stepping
    BY <2>2, <2>3, <2>4 DEF Stepping
  <2>6. TypeOK' /\ Dead' /\ Lives'
    BY <2>1, <2>5, WriteKeeps, DeleteKeeps, DeltaBroadcastKeeps, CreateConflictKeeps, DocDeletedKeeps,
       DocTombstonedKeeps, FaultKeeps, ConnectKeeps DEF Step
  <2>7. NoClash'
    BY <2>2 DEF NoClash
  <2> QED BY <2>6, <2>7 DEF IInv
<1> QED BY <1>1, <1>2

LEMMA Invariant ==
  Spec => []IInv
BY InitGives, NextKeeps, PTL DEF Spec

(* Every field of every device, document and frame stays in its type: no     *)
(* operation belongs to a life that was not begun, no frame waits behind a   *)
(* socket that is down, and a live note on the server has no tombstone       *)
(* (src/sync-engine.ts, src/push-handler.ts, src/sync-initial.ts).           *)
THEOREM TypeCorrect ==
  Spec => []TypeOK
<1>1. IInv => TypeOK
  BY DEF IInv
<1> QED BY <1>1, Invariant, PTL

(* "Two independent CRDT histories ... MUST NOT be merged through Loro"      *)
(* (src/sync-initial.ts): where no operation is numbered like one of another *)
(* life, no flush put a text into an empty document in the middle of a       *)
(* broadcast, and no catch-up brought a history that the document does not   *)
(* share, the guards of the code (the server's probe, the check in           *)
(* onDeltaBroadcast, the one in syncOverlappingDoc) keep the operations of   *)
(* two lives out of every document and out of the server's.                  *)
THEOREM LivesStayApart ==
  Spec => []OneLifePerDocument
<1>1. IInv => OneLifePerDocument
  <2> SUFFICES ASSUME IInv PROVE OneLifePerDocument
    OBVIOUS
  <2>1. /\ lives \in Nat /\ server.history \in HistoriesTo(lives)
        /\ \A d \in Devices : note[d].doc \in HistoriesTo(lives)
    BY Fields DEF IInv
  <2>2. ~Apart => OneLife(server.history) /\ \A d \in Devices : OneLife(note[d].doc)
    BY <2>1, OneGives DEF IInv, Lives
  <2> QED BY <2>2 DEF OneLifePerDocument, NeverMerged, Apart
<1> QED BY <1>1, Invariant, PTL

=============================================================================
