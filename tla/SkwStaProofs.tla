----------------------------- MODULE SkwStaProofs -----------------------------
(***************************************************************************)
(* Proofs about the station, for any number of access points, contexts,    *)
(* scan requests and turns and any delays of the timers: the list of       *)
(* skw_timer.c implements TimerSet (its safety part); then, from one       *)
(* inductive invariant (StaInv), the types, NothingLeftBehind and          *)
(* PeersAgree.  LinkStep sums up what a step may do to the station's       *)
(* address and context and to its peers.                                   *)
(***************************************************************************)
EXTENDS SkwSta, SequenceTheorems, FiniteSetTheorems, TLAPS

(* Positions of the list. *)

\* A set of positions closed downwards is the interval of its size: that is
\* how the handler finds the expired timers.
LEMMA PrefixIsInterval ==
  ASSUME NEW L \in Nat, NEW D \in SUBSET (1 .. L), \A i \in D : 1 .. i \subseteq D
  PROVE  Cardinality(D) \in 0 .. L /\ D = 1 .. Cardinality(D)
<1>1. IsFiniteSet(1 .. L) /\ Cardinality(1 .. L) = L
  BY FS_Interval
<1>2. IsFiniteSet(D) /\ Cardinality(D) \in Nat /\ Cardinality(D) <= L
  BY <1>1, FS_Subset, FS_CardinalityType
<1>3. \A i \in D : i <= Cardinality(D)
  <2> TAKE i \in D
  <2>1. IsFiniteSet(1 .. i) /\ Cardinality(1 .. i) = i
    BY FS_Interval
  <2> QED BY <1>2, <2>1, FS_Subset
<1>4. D \subseteq 1 .. Cardinality(D)
  BY <1>2, <1>3
<1>5. IsFiniteSet(1 .. Cardinality(D)) /\ Cardinality(1 .. Cardinality(D)) = Cardinality(D)
  BY <1>2, FS_Interval
<1>6. D = 1 .. Cardinality(D)
  BY <1>4, <1>5, FS_Subset
<1> QED BY <1>2, <1>6

\* A set of positions that is not empty has a first one.
LEMMA FirstPosition ==
  ASSUME NEW L \in Nat, NEW S \in SUBSET (1 .. L), S # {}
  PROVE  \E i \in S : \A j \in S : i <= j
<1> DEFINE D == {i \in 1 .. L : \A j \in 1 .. i : j \notin S}
           n == Cardinality(D)
<1>1. n \in 0 .. L /\ D = 1 .. n
  <2>1. D \in SUBSET (1 .. L)
    OBVIOUS
  <2>2. \A i \in D : 1 .. i \subseteq D
    OBVIOUS
  <2> HIDE DEF D
  <2> QED BY <2>1, <2>2, PrefixIsInterval
<1> HIDE DEF n
<1>2. \A i \in S : n < i
  BY <1>1
<1>3. n + 1 \in 1 .. L /\ n + 1 \notin D
  <2>1. PICK i \in S : TRUE
    OBVIOUS
  <2>2. i \in 1 .. L /\ n < i
    BY <1>2, <2>1
  <2> HIDE DEF D
  <2> QED BY <1>1, <2>2
<1>4. n + 1 \in S
  BY <1>1, <1>3
<1> QED BY <1>1, <1>2, <1>4
-----------------------------------------------------------------------------
(* The timers as a function of the list. *)

Entry == [id : Ids, left : Nat]

\* A list whose ids differ.
IsTimerList(l) ==
  /\ l \in Seq(Entry)
  /\ \A i, j \in 1 .. Len(l) : l[i].id = l[j].id => i = j

ArmedIn(l) == [id \in {l[i].id : i \in DOMAIN l} |->
                 l[CHOOSE i \in DOMAIN l : l[i].id = id].left]

LEMMA ArmedInValues ==
  ASSUME NEW l, IsTimerList(l)
  PROVE  /\ DOMAIN l = 1 .. Len(l) /\ Len(l) \in Nat
         /\ \A i \in 1 .. Len(l) : l[i] \in Entry
         /\ DOMAIN ArmedIn(l) = {l[i].id : i \in 1 .. Len(l)}
         /\ \A i \in 1 .. Len(l) : ArmedIn(l)[l[i].id] = l[i].left
<1>1. DOMAIN l = 1 .. Len(l) /\ Len(l) \in Nat
  BY LenProperties DEF IsTimerList
<1>2. \A i \in 1 .. Len(l) : l[i] \in Entry
  BY ElementOfSeq DEF IsTimerList
<1>3. ASSUME NEW i \in 1 .. Len(l)
      PROVE  (CHOOSE j \in DOMAIN l : l[j].id = l[i].id) = i
  <2>1. \A j \in DOMAIN l : l[j].id = l[i].id <=> j = i
    BY <1>1, <1>3 DEF IsTimerList
  <2> QED BY <1>1, <1>3, <2>1
<1> QED BY <1>1, <1>2, <1>3 DEF ArmedIn

\* Two timer lists stand for the same timers if they have the same entries.
LEMMA ArmedInEqual ==
  ASSUME NEW l, IsTimerList(l), NEW f,
         f = [id \in DOMAIN f |-> f[id]],
         DOMAIN f = {l[i].id : i \in 1 .. Len(l)},
         \A i \in 1 .. Len(l) : f[l[i].id] = l[i].left
  PROVE  ArmedIn(l) = f
<1>1. DOMAIN ArmedIn(l) = DOMAIN f
  BY ArmedInValues
<1>2. ASSUME NEW id \in DOMAIN f PROVE ArmedIn(l)[id] = f[id]
  <2>1. PICK i \in 1 .. Len(l) : id = l[i].id
    BY <1>2
  <2> QED BY <2>1, ArmedInValues
<1>3. ArmedIn(l) = [id \in DOMAIN ArmedIn(l) |-> ArmedIn(l)[id]]
  BY DEF ArmedIn
<1> QED BY <1>1, <1>2, <1>3

\* A new timer in the list.
LEMMA InsertArms ==
  ASSUME NEW l, IsTimerList(l), NEW e \in Entry, e.id \notin DOMAIN ArmedIn(l),
         NEW k \in 1 .. Len(l) + 1
  PROVE  /\ IsTimerList(InsertAt(l, k, e))
         /\ ArmedIn(InsertAt(l, k, e)) = Timers!Put(ArmedIn(l), e.id, e.left)
<1> DEFINE m == InsertAt(l, k, e)
<1>0. Len(l) \in Nat /\ l \in Seq(Entry) /\ DOMAIN l = 1 .. Len(l)
  BY ArmedInValues DEF IsTimerList
<1>1. /\ m \in Seq(Entry) /\ Len(m) = Len(l) + 1
      /\ \A j \in 1 .. Len(l) + 1 :
           m[j] = IF j < k THEN l[j] ELSE IF j = k THEN e ELSE l[j - 1]
  <2>1. /\ SubSeq(l, 1, k - 1) \in Seq(Entry) /\ Len(SubSeq(l, 1, k - 1)) = k - 1
        /\ \A j \in 1 .. k - 1 : SubSeq(l, 1, k - 1)[j] = l[j]
    BY <1>0, SubSeqProperties, ElementOfSeq
  <2>2. /\ SubSeq(l, k, Len(l)) \in Seq(Entry) /\ Len(SubSeq(l, k, Len(l))) = Len(l) - k + 1
        /\ \A j \in 1 .. Len(l) - k + 1 : SubSeq(l, k, Len(l))[j] = l[k + j - 1]
    BY <1>0, SubSeqProperties, ElementOfSeq
  <2>3. <<e>> \in Seq(Entry) /\ Len(<<e>>) = 1 /\ <<e>>[1] = e
    OBVIOUS
  <2> DEFINE h == SubSeq(l, 1, k - 1)
             t == SubSeq(l, k, Len(l))
             h2 == h \o <<e>>
  <2>4. m = h2 \o t
    BY DEF InsertAt
  <2> HIDE DEF h, t, m
  <2>5. /\ h2 \in Seq(Entry) /\ Len(h2) = k
        /\ \A j \in 1 .. k : h2[j] = IF j < k THEN h[j] ELSE e
    BY <2>1, <2>3, ConcatProperties DEF h
  <2> HIDE DEF h2
  <2>6. /\ m \in Seq(Entry) /\ Len(m) = k + (Len(l) - k + 1)
        /\ \A j \in 1 .. k + (Len(l) - k + 1) : m[j] = IF j <= k THEN h2[j] ELSE t[j - k]
    BY <2>2, <2>4, <2>5, ConcatProperties DEF t
  <2>7. Len(m) = Len(l) + 1
    BY <1>0, <2>6
  <2> QED BY <1>0, <2>1, <2>2, <2>5, <2>6, <2>7 DEF h, t
<1> HIDE DEF m
<1>2. \A i \in 1 .. Len(l) : l[i].id # e.id /\ l[i] \in Entry
  BY ArmedInValues
<1>3. IsTimerList(m)
  <2> SUFFICES ASSUME NEW i \in 1 .. Len(m), NEW j \in 1 .. Len(m), m[i].id = m[j].id
               PROVE  i = j
    BY <1>1 DEF IsTimerList
  <2> DEFINE From(x) == IF x < k THEN x ELSE x - 1
  <2>1. \A x \in 1 .. Len(m) : x # k => From(x) \in 1 .. Len(l) /\ m[x] = l[From(x)]
    BY <1>0, <1>1
  <2>2. m[k] = e
    BY <1>1
  <2> HIDE DEF From
  <2>3. i = k <=> j = k
    <3>1. \A x \in 1 .. Len(m) : x # k => m[x].id # e.id
      BY <1>2, <2>1
    <3> QED BY <2>2, <3>1
  <2>4. ASSUME i # k PROVE i = j
    <3>1. From(i) = From(j)
      BY <2>1, <2>3, <2>4 DEF IsTimerList
    <3> QED BY <1>0, <1>1, <2>3, <2>4, <3>1 DEF From
  <2> QED BY <2>3, <2>4
<1>4. {m[i].id : i \in 1 .. Len(m)} = {l[i].id : i \in 1 .. Len(l)} \cup {e.id}
  <2>1. ASSUME NEW i \in 1 .. Len(m)
        PROVE  m[i].id \in {l[j].id : j \in 1 .. Len(l)} \cup {e.id}
    <3>1. CASE i < k
      BY <1>1, <1>0, <3>1
    <3>2. CASE i > k
      <4>1. i - 1 \in 1 .. Len(l) /\ m[i] = l[i - 1]
        BY <1>1, <1>0, <3>2
      <4> QED BY <4>1
    <3>3. CASE i = k
      BY <1>1, <3>3
    <3> QED BY <3>1, <3>2, <3>3
  <2>2. ASSUME NEW i \in 1 .. Len(l) PROVE l[i].id \in {m[j].id : j \in 1 .. Len(m)}
    <3>1. CASE i < k
      <4>1. i \in 1 .. Len(m) /\ m[i] = l[i]
        BY <1>1, <1>0, <3>1
      <4> QED BY <4>1
    <3>2. CASE i >= k
      <4>1. i + 1 \in 1 .. Len(m) /\ m[i + 1] = l[i]
        BY <1>1, <1>0, <3>2
      <4> QED BY <4>1
    <3> QED BY <3>1, <3>2
  <2>3. e.id \in {m[j].id : j \in 1 .. Len(m)}
    <3>1. k \in 1 .. Len(m) /\ m[k] = e
      BY <1>1
    <3> QED BY <3>1
  <2> QED BY <2>1, <2>2, <2>3
<1> DEFINE f == Timers!Put(ArmedIn(l), e.id, e.left)
<1>5. /\ f = [id \in DOMAIN f |-> f[id]]
      /\ DOMAIN f = {m[i].id : i \in 1 .. Len(m)}
      /\ f[e.id] = e.left
      /\ \A i \in 1 .. Len(l) : f[l[i].id] = l[i].left
  BY <1>2, <1>4, ArmedInValues DEF Timers!Put
<1>6. \A i \in 1 .. Len(m) : f[m[i].id] = m[i].left
  <2> HIDE DEF f
  <2> TAKE i \in 1 .. Len(m)
  <2>1. CASE i < k
    BY <1>0, <1>1, <1>5, <2>1
  <2>2. CASE i > k
    <3>1. i - 1 \in 1 .. Len(l) /\ m[i] = l[i - 1]
      BY <1>1, <1>0, <2>2
    <3> QED BY <1>5, <3>1
  <2>3. CASE i = k
    BY <1>1, <1>5, <2>3
  <2> QED BY <2>1, <2>2, <2>3
<1> HIDE DEF f
<1>7. ArmedIn(m) = f
  BY <1>3, <1>5, <1>6, ArmedInEqual
<1> QED BY <1>3, <1>7 DEF m, f

\* A list with some entries of another one stands for those timers.
LEMMA SubListArms ==
  ASSUME NEW l, IsTimerList(l), NEW m, IsTimerList(m), NEW out,
         \A i \in 1 .. Len(m) : \E j \in 1 .. Len(l) : m[i] = l[j] /\ l[j].id \notin out,
         \A j \in 1 .. Len(l) : l[j].id \notin out => \E i \in 1 .. Len(m) : m[i] = l[j]
  PROVE  ArmedIn(m) = Timers!Without(ArmedIn(l), out)
<1> DEFINE f == Timers!Without(ArmedIn(l), out)
<1>0. /\ DOMAIN ArmedIn(l) = {l[i].id : i \in 1 .. Len(l)}
      /\ \A i \in 1 .. Len(l) : ArmedIn(l)[l[i].id] = l[i].left
  <2> HIDE DEF f
  <2> QED BY ONLY IsTimerList(l), ArmedInValues
<1>3. /\ f = [id \in DOMAIN f |-> f[id]] /\ DOMAIN f = DOMAIN ArmedIn(l) \ out
      /\ \A id \in DOMAIN f : f[id] = ArmedIn(l)[id]
  BY DEF Timers!Without
<1> HIDE DEF f
<1>4. ASSUME NEW i \in 1 .. Len(m) PROVE m[i].id \in DOMAIN f /\ f[m[i].id] = m[i].left
  <2>1. PICK j \in 1 .. Len(l) : m[i] = l[j] /\ l[j].id \notin out
    OBVIOUS
  <2>2. l[j].id \in DOMAIN ArmedIn(l) /\ ArmedIn(l)[l[j].id] = l[j].left
    BY <1>0
  <2>3. l[j].id \in DOMAIN f /\ f[l[j].id] = l[j].left
    BY ONLY <1>3, <2>1, <2>2
  <2> QED BY <2>1, <2>3
<1>5. ASSUME NEW id \in DOMAIN f PROVE id \in {m[i].id : i \in 1 .. Len(m)}
  <2>1. PICK j \in 1 .. Len(l) : id = l[j].id /\ l[j].id \notin out
    BY <1>0, <1>3, <1>5
  <2>2. PICK i \in 1 .. Len(m) : m[i] = l[j]
    BY <2>1
  <2> QED BY <2>1, <2>2
<1>6. DOMAIN f = {m[i].id : i \in 1 .. Len(m)}
  <2>1. \A id \in {m[i].id : i \in 1 .. Len(m)} : id \in DOMAIN f
    BY <1>4
  <2> QED BY <1>5, <2>1
<1>7. ArmedIn(m) = f
  <2>1. \A i \in 1 .. Len(m) : f[m[i].id] = m[i].left
    BY <1>4
  <2> QED BY ONLY IsTimerList(m), <1>3, <1>6, <2>1, ArmedInEqual
<1> QED BY <1>7 DEF f

\* Without the entry at position k.
LEMMA RemoveDisarms ==
  ASSUME NEW l, IsTimerList(l), NEW k \in 1 .. Len(l)
  PROVE  /\ IsTimerList(RemoveAt(l, k))
         /\ ArmedIn(RemoveAt(l, k)) = Timers!Without(ArmedIn(l), {l[k].id})
<1> DEFINE m == RemoveAt(l, k)
           From == [i \in 1 .. Len(l) - 1 |-> IF i < k THEN i ELSE i + 1]
<1>0. Len(l) \in Nat /\ l \in Seq(Entry)
  BY ArmedInValues DEF IsTimerList
<1>1. /\ m \in Seq(Entry) /\ Len(m) = Len(l) - 1
      /\ \A i \in 1 .. Len(l) - 1 : m[i] = l[From[i]]
  <2> DEFINE h == SubSeq(l, 1, k - 1)
             t == SubSeq(l, k + 1, Len(l))
  <2>1. /\ h \in Seq(Entry) /\ Len(h) = k - 1 /\ \A j \in 1 .. k - 1 : h[j] = l[j]
    BY <1>0, SubSeqProperties, ElementOfSeq
  <2>2. /\ t \in Seq(Entry) /\ Len(t) = Len(l) - k
        /\ \A j \in 1 .. Len(l) - k : t[j] = l[k + j]
    BY <1>0, SubSeqProperties, ElementOfSeq
  <2>3. m = h \o t
    BY DEF RemoveAt
  <2> HIDE DEF h, t, m
  <2>4. /\ m \in Seq(Entry) /\ Len(m) = Len(h) + Len(t)
        /\ \A j \in 1 .. Len(h) + Len(t) : m[j] = IF j <= Len(h) THEN h[j] ELSE t[j - Len(h)]
    BY ONLY <2>1, <2>2, <2>3, ConcatProperties
  <2>5. Len(h) + Len(t) = Len(l) - 1 /\ Len(m) = Len(l) - 1
    BY <1>0, <2>1, <2>2, <2>4
  <2>6. ASSUME NEW i \in 1 .. Len(l) - 1 PROVE m[i] = IF i < k THEN l[i] ELSE l[i + 1]
    <3>1. CASE i < k
      <4>1. i <= Len(h) /\ h[i] = l[i]
        BY <1>0, <2>1, <3>1
      <4> QED BY <2>4, <2>5, <3>1, <4>1
    <3>2. CASE i >= k
      <4>1. ~(i <= Len(h)) /\ i - Len(h) = i - (k - 1) /\ i - (k - 1) \in 1 .. Len(l) - k
        BY <1>0, <2>1, <3>2
      <4>2. t[i - (k - 1)] = l[i + 1]
        BY <1>0, <2>2, <4>1
      <4> QED BY <2>4, <2>5, <3>2, <4>1, <4>2
    <3> QED BY <3>1, <3>2
  <2> QED BY <2>4, <2>5, <2>6
<1> HIDE DEF m
<1>2. /\ From \in [1 .. Len(m) -> 1 .. Len(l)]
      /\ \A i, j \in 1 .. Len(m) : From[i] = From[j] => i = j
  BY <1>0, <1>1
<1> HIDE DEF From
<1>3. IsTimerList(m)
  <2> SUFFICES ASSUME NEW i \in 1 .. Len(m), NEW j \in 1 .. Len(m), m[i].id = m[j].id
               PROVE  i = j
    BY <1>1 DEF IsTimerList
  <2>1. From[i] \in 1 .. Len(l) /\ From[j] \in 1 .. Len(l) /\ l[From[i]].id = l[From[j]].id
    BY <1>1, <1>2
  <2>2. From[i] = From[j]
    BY ONLY IsTimerList(l), <2>1 DEF IsTimerList
  <2> QED BY <1>2, <2>2
<1>4. \A i \in 1 .. Len(m) : \E j \in 1 .. Len(l) : m[i] = l[j] /\ l[j].id \notin {l[k].id}
  <2> TAKE i \in 1 .. Len(m)
  <2>1. From[i] \in 1 .. Len(l) /\ From[i] # k
    BY <1>0, <1>1, <1>2 DEF From
  <2>2. m[i] = l[From[i]] /\ l[From[i]].id # l[k].id
    BY <1>1, <2>1 DEF IsTimerList
  <2> QED BY <2>1, <2>2
<1>5. ASSUME NEW j \in 1 .. Len(l), l[j].id \notin {l[k].id}
      PROVE  \E i \in 1 .. Len(m) : m[i] = l[j]
  <2>1. CASE j < k
    <3>1. j \in 1 .. Len(m) /\ From[j] = j
      BY <1>0, <1>1, <2>1 DEF From
    <3> QED BY <1>1, <3>1
  <2>2. CASE j > k
    <3>1. j - 1 \in 1 .. Len(m) /\ From[j - 1] = j
      BY <1>0, <1>1, <2>2 DEF From
    <3> QED BY <1>1, <3>1
  <2> QED BY <1>5, <2>1, <2>2
<1>6. ArmedIn(m) = Timers!Without(ArmedIn(l), {l[k].id})
  BY ONLY IsTimerList(l), <1>3, <1>4, <1>5, SubListArms
<1> QED BY <1>3, <1>6 DEF m

\* Without the first n entries.
LEMMA SuffixDisarms ==
  ASSUME NEW l, IsTimerList(l), NEW n \in 0 .. Len(l)
  PROVE  /\ IsTimerList(SubSeq(l, n + 1, Len(l)))
         /\ ArmedIn(SubSeq(l, n + 1, Len(l))) =
              Timers!Without(ArmedIn(l), {l[i].id : i \in 1 .. n})
<1> DEFINE m == SubSeq(l, n + 1, Len(l))
           From == [i \in 1 .. Len(l) - n |-> n + i]
<1>0. Len(l) \in Nat /\ l \in Seq(Entry)
  BY ArmedInValues DEF IsTimerList
<1>1. /\ m \in Seq(Entry) /\ Len(m) = Len(l) - n
      /\ \A i \in 1 .. Len(l) - n : m[i] = l[n + i]
  BY <1>0, SubSeqProperties, ElementOfSeq
<1> HIDE DEF m
<1>2. /\ From \in [1 .. Len(m) -> 1 .. Len(l)]
      /\ \A i, j \in 1 .. Len(m) : From[i] = From[j] => i = j
      /\ \A i \in 1 .. Len(m) : m[i] = l[From[i]]
  BY <1>0, <1>1
<1> HIDE DEF From
<1>3. IsTimerList(m)
  <2> SUFFICES ASSUME NEW i \in 1 .. Len(m), NEW j \in 1 .. Len(m), m[i].id = m[j].id
               PROVE  i = j
    BY <1>1 DEF IsTimerList
  <2>1. From[i] \in 1 .. Len(l) /\ From[j] \in 1 .. Len(l) /\ l[From[i]].id = l[From[j]].id
    BY <1>2
  <2>2. From[i] = From[j]
    BY ONLY IsTimerList(l), <2>1 DEF IsTimerList
  <2> QED BY <1>2, <2>2
<1> DEFINE out == {l[i].id : i \in 1 .. n}
<1>4. \A i \in 1 .. Len(m) : \E j \in 1 .. Len(l) : m[i] = l[j] /\ l[j].id \notin out
  <2> TAKE i \in 1 .. Len(m)
  <2>1. n + i \in 1 .. Len(l) /\ n + i \notin 1 .. n /\ m[i] = l[n + i]
    BY <1>0, <1>1
  <2>2. \A j \in 1 .. n : j \in 1 .. Len(l) /\ j # n + i
    BY <1>0, <2>1
  <2>3. \A j \in 1 .. n : l[j].id # l[n + i].id
    BY <2>1, <2>2 DEF IsTimerList
  <2> QED BY <2>1, <2>3
<1>5. ASSUME NEW j \in 1 .. Len(l), l[j].id \notin out
      PROVE  \E i \in 1 .. Len(m) : m[i] = l[j]
  <2>1. j \notin 1 .. n
    BY <1>5
  <2>2. j - n \in 1 .. Len(m) /\ n + (j - n) = j
    BY <1>0, <1>1, <2>1
  <2>3. m[j - n] = l[j]
    BY <1>1, <2>2
  <2> QED BY <2>2, <2>3
<1> HIDE DEF out
<1>6. ArmedIn(m) = Timers!Without(ArmedIn(l), out)
  BY ONLY IsTimerList(l), <1>3, <1>4, <1>5, SubListArms
<1> QED BY <1>3, <1>6 DEF m, out

\* Time passes for every entry.
LEMMA TickArms ==
  ASSUME NEW l, IsTimerList(l)
  PROVE  LET m == [i \in DOMAIN l |-> Aged(l[i])]
             a == ArmedIn(l)
         IN  /\ IsTimerList(m)
             /\ ArmedIn(m) = [id \in DOMAIN a |-> IF a[id] > 0 THEN a[id] - 1 ELSE 0]
<1> DEFINE m == [i \in DOMAIN l |-> Aged(l[i])]
           a == ArmedIn(l)
           f == [id \in DOMAIN a |-> IF a[id] > 0 THEN a[id] - 1 ELSE 0]
<1>1. /\ DOMAIN l = 1 .. Len(l) /\ Len(l) \in Nat
      /\ \A i \in 1 .. Len(l) : l[i] \in Entry
      /\ DOMAIN a = {l[i].id : i \in 1 .. Len(l)}
      /\ \A i \in 1 .. Len(l) : a[l[i].id] = l[i].left
  BY ArmedInValues
<1> HIDE DEF a
<1>2. \A i \in 1 .. Len(l) :
        /\ m[i] \in Entry /\ m[i].id = l[i].id
        /\ m[i].left = IF l[i].left > 0 THEN l[i].left - 1 ELSE 0
  BY <1>1 DEF Entry, Older, Aged
<1>3. m \in Seq(Entry) /\ Len(m) = Len(l)
  <2>1. m \in [1 .. Len(l) -> Entry]
    BY <1>1, <1>2
  <2> HIDE DEF m
  <2>2. m \in Seq(Entry)
    BY <1>1, <2>1, SeqDef
  <2>3. DOMAIN m = 1 .. Len(m) /\ Len(m) \in Nat
    BY <2>2, LenProperties
  <2>4. DOMAIN m = 1 .. Len(l)
    BY <2>1
  <2>5. \A i \in Int : i \in 1 .. Len(m) <=> i \in 1 .. Len(l)
    BY <2>3, <2>4
  <2>6. (Len(m) > 0 => Len(m) \in 1 .. Len(l)) /\ (Len(l) > 0 => Len(l) \in 1 .. Len(m))
    BY <1>1, <2>3, <2>5
  <2>7. Len(m) = Len(l)
    <3>1. PICK x \in Nat : x = Len(m)
      BY <2>3
    <3>2. PICK y \in Nat : y = Len(l)
      BY <1>1
    <3> QED BY ONLY <2>6, <3>1, <3>2
  <2> QED BY <2>2, <2>7
<1> HIDE DEF m
<1>4. IsTimerList(m)
  BY <1>2, <1>3 DEF IsTimerList
<1>5. DOMAIN f = {m[i].id : i \in 1 .. Len(m)}
  BY <1>1, <1>2, <1>3
<1>6. \A i \in 1 .. Len(m) : f[m[i].id] = m[i].left
  BY <1>1, <1>2, <1>3
<1>7. f = [id \in DOMAIN f |-> f[id]]
  OBVIOUS
<1> HIDE DEF f
<1>8. ArmedIn(m) = f
  BY ONLY <1>4, <1>5, <1>6, <1>7, ArmedInEqual
<1> QED BY <1>4, <1>8 DEF m, f, a
-----------------------------------------------------------------------------
(* The operations of skw_timer.c. *)

\* The handler has taken the expired timers off the list, and each one once.
TimerInv ==
  /\ timer_data \in [list : Seq(Entry), kernel : Nat \cup {Off},
                     expired : Seq(Ids), runs : BOOLEAN]
  /\ IsTimerList(timer_data.list)
  /\ \A i, j \in 1 .. Len(timer_data.expired) :
       timer_data.expired[i] = timer_data.expired[j] => i = j
  /\ ~timer_data.runs => timer_data.expired = <<>>

LEMMA ArmedIsArmedIn == Armed_ = ArmedIn(timer_data.list) /\ Armed = DOMAIN ArmedIn(timer_data.list)
  BY DEF Armed_, Armed, ArmedIn

LEMMA InvValues ==
  ASSUME TimerInv
  PROVE  LET l == timer_data.list
         IN  /\ IsTimerList(l) /\ l \in Seq(Entry)
             /\ DOMAIN l = 1 .. Len(l) /\ Len(l) \in Nat
             /\ \A i \in 1 .. Len(l) : l[i] \in Entry
             /\ DOMAIN ArmedIn(l) = {l[i].id : i \in 1 .. Len(l)}
             /\ \A i \in 1 .. Len(l) : ArmedIn(l)[l[i].id] = l[i].left
<1> DEFINE l == timer_data.list
<1>1. IsTimerList(l)
  BY DEF TimerInv
<1> HIDE DEF l
<1>2. l \in Seq(Entry)
  BY <1>1 DEF IsTimerList
<1>3. /\ DOMAIN l = 1 .. Len(l) /\ Len(l) \in Nat
      /\ \A i \in 1 .. Len(l) : l[i] \in Entry
      /\ DOMAIN ArmedIn(l) = {l[i].id : i \in 1 .. Len(l)}
      /\ \A i \in 1 .. Len(l) : ArmedIn(l)[l[i].id] = l[i].left
  BY ONLY <1>1, ArmedInValues
<1> QED BY <1>1, <1>2, <1>3 DEF l

\* A list that is changed, with the kernel timer armed for its head.
LEMMA RearmedKeepsInv ==
  ASSUME TimerInv, NEW list, IsTimerList(list),
         timer_data' = [timer_data EXCEPT !.list = list, !.kernel = mod_timer(list)]
  PROVE  /\ TimerInv' /\ timer_data'.list = list
         /\ UNCHANGED ToSet(timer_data.expired)
<1>1. list \in Seq(Entry)
  BY DEF IsTimerList
<1>2. mod_timer(list) \in Nat \cup {Off}
  <2>1. list # <<>> => Head(list) \in Entry
    BY <1>1, HeadTailProperties
  <2> QED BY <2>1 DEF mod_timer, TimerInv, Entry
<1> QED BY <1>1, <1>2 DEF TimerInv

LEMMA AddStep ==
  ASSUME TimerInv, NEW id \in Ids, skw_add_timer_work(id)
  PROVE  TimerInv' /\ (Timers!Arm(id) \/ UNCHANGED Timers!vars)
<1> DEFINE old == timer_data.list
<1>0. IsTimerList(old) /\ DOMAIN old = 1 .. Len(old) /\ Len(old) \in Nat
  BY InvValues
<1>1. CASE id \in Armed
  BY <1>1 DEF skw_add_timer_work, TimerInv, Timers!vars, Armed_, Armed
<1>2. CASE id \notin Armed
  <2> DEFINE e == [id |-> id, left |-> Delay[id]]
             list == list_add(old, id)
             later == {i \in DOMAIN old : Delay[id] <= old[i].left}
  <2>1. e \in Entry
    BY TimerAssumption DEF Entry
  <2>2. \E k \in 1 .. Len(old) + 1 : list = InsertAt(old, k, e)
    <3>1. CASE later = {}
      BY <1>0, <3>1 DEF list_add
    <3>2. CASE later # {}
      <4>1. \E i \in later : \A j \in later : i <= j
        <5>1. later \in SUBSET (1 .. Len(old))
          BY <1>0
        <5> HIDE DEF later
        <5> QED BY <1>0, <3>2, <5>1, FirstPosition
      <4>2. (CHOOSE i \in later : \A j \in later : i <= j) \in 1 .. Len(old)
        BY <1>0, <4>1
      <4> DEFINE p == CHOOSE i \in later : \A j \in later : i <= j
      <4>3. list = InsertAt(old, p + 1, e)
        BY <3>2 DEF list_add
      <4> HIDE DEF p, list
      <4>4. p + 1 \in 1 .. Len(old) + 1
        BY <1>0, <4>2 DEF p
      <4> QED BY <4>3, <4>4
    <3> QED BY <3>1, <3>2
  <2>3. e.id \notin DOMAIN ArmedIn(old)
    BY <1>2, ArmedIsArmedIn
  <2>4. IsTimerList(list) /\ ArmedIn(list) = Timers!Put(ArmedIn(old), id, Delay[id])
    <3> HIDE DEF list
    <3>1. PICK k \in 1 .. Len(old) + 1 : list = InsertAt(old, k, e)
      BY <2>2
    <3>2. /\ IsTimerList(list)
          /\ ArmedIn(list) = Timers!Put(ArmedIn(old), e.id, e.left)
      BY ONLY <1>0, <2>1, <2>3, <3>1, InsertArms
    <3> QED BY <3>2
  <2>5. timer_data' = [timer_data EXCEPT !.list = list, !.kernel = mod_timer(list)]
    BY <1>2 DEF skw_add_timer_work
  <2> HIDE DEF list
  <2>6. TimerInv' /\ timer_data'.list = list /\ UNCHANGED ToSet(timer_data.expired)
    BY <2>4, <2>5, RearmedKeepsInv
  <2>7. Armed_ = ArmedIn(old) /\ Armed_' = ArmedIn(list) /\ id \notin DOMAIN Armed_
    BY <1>2, <2>6, ArmedIsArmedIn DEF Armed_, Armed, ArmedIn
  <2> QED BY <2>4, <2>6, <2>7 DEF Timers!Arm
<1> QED BY <1>1, <1>2

LEMMA DelStep ==
  ASSUME TimerInv, NEW id, skw_del_timer_work(id)
  PROVE  /\ TimerInv'
         /\ \/ id \in Ids /\ Timers!Cancel(id)
            \/ id \notin Armed /\ UNCHANGED Timers!vars
<1> DEFINE old == timer_data.list
           list == list_del(old, id)
           found == {i \in DOMAIN old : old[i].id = id}
<1>0. /\ IsTimerList(old) /\ DOMAIN old = 1 .. Len(old)
      /\ \A i \in 1 .. Len(old) : old[i] \in Entry
      /\ DOMAIN ArmedIn(old) = {old[i].id : i \in 1 .. Len(old)}
  BY InvValues
<1>1. timer_data' = [timer_data EXCEPT !.list = list, !.kernel = mod_timer(list)]
  BY DEF skw_del_timer_work
<1>2. CASE found = {}
  <2>0. id \notin Armed
    BY <1>2 DEF Armed
  <2>1. list = old
    BY <1>2 DEF list_del
  <2> HIDE DEF list, found
  <2>2. TimerInv' /\ timer_data'.list = old /\ UNCHANGED ToSet(timer_data.expired)
    BY <1>0, <1>1, <2>1, RearmedKeepsInv
  <2>3. UNCHANGED Armed_
    BY <2>2, ArmedIsArmedIn DEF Armed_, Armed, ArmedIn
  <2> QED BY <2>0, <2>2, <2>3 DEF Timers!vars
<1>3. CASE found # {}
  <2>1. PICK k \in 1 .. Len(old) : list = RemoveAt(old, k) /\ old[k].id = id
    BY <1>0, <1>3 DEF list_del
  <2> HIDE DEF list, found
  <2>2. IsTimerList(list) /\ ArmedIn(list) = Timers!Without(ArmedIn(old), {id})
    BY ONLY <1>0, <2>1, RemoveDisarms
  <2>3. TimerInv' /\ timer_data'.list = list /\ UNCHANGED ToSet(timer_data.expired)
    BY <1>1, <2>2, RearmedKeepsInv
  <2>4. Armed_ = ArmedIn(old) /\ Armed_' = ArmedIn(list)
    BY <2>3, ArmedIsArmedIn DEF Armed_, Armed, ArmedIn
  <2>5. id \in Ids /\ id \in DOMAIN ArmedIn(old)
    BY <1>0, <2>1 DEF Entry
  <2> QED BY <2>2, <2>3, <2>4, <2>5 DEF Timers!Cancel
<1> QED BY <1>2, <1>3

\* The timers that expire are those at the head of the list.
LEMMA FireStep ==
  ASSUME TimerInv, skw_timer_work
  PROVE  TimerInv' /\ \E S \in SUBSET DOMAIN Armed_ : Timers!Expire(S)
<1> DEFINE old == timer_data.list
           L == Len(old)
           due == {i \in DOMAIN old : \A j \in 1 .. i : old[j].left = 0}
           n == Cardinality(due)
           list == SubSeq(old, n + 1, L)
           ids == [i \in 1 .. n |-> old[i].id]
           S == {old[i].id : i \in 1 .. n}
<1>0. /\ IsTimerList(old) /\ DOMAIN old = 1 .. L /\ L \in Nat
      /\ \A i \in 1 .. L : old[i] \in Entry
      /\ DOMAIN ArmedIn(old) = {old[i].id : i \in 1 .. L}
      /\ \A i \in 1 .. L : ArmedIn(old)[old[i].id] = old[i].left
  BY InvValues
<1>1. n \in 0 .. L /\ due = 1 .. n
  <2>1. due \in SUBSET (1 .. L)
    BY <1>0
  <2>2. \A i \in due : 1 .. i \subseteq due
    BY <1>0
  <2>3. L \in Nat
    BY <1>0
  <2> HIDE DEF due, L
  <2> QED BY ONLY <2>1, <2>2, <2>3, PrefixIsInterval
<1>2. /\ timer_data' = [list |-> list, kernel |-> Off, expired |-> Reverse(ids), runs |-> TRUE]
      /\ timer_data.expired = <<>>
  BY DEF skw_timer_work, TimerInv
<1>3. \A i \in 1 .. n : i \in 1 .. L /\ old[i].left = 0
  BY <1>0, <1>1
<1> HIDE DEF n
<1>4. IsTimerList(list) /\ ArmedIn(list) = Timers!Without(ArmedIn(old), S)
  <2>1. IsTimerList(old) /\ n \in 0 .. Len(old)
    BY <1>0, <1>1
  <2> HIDE DEF old
  <2>2. /\ IsTimerList(SubSeq(old, n + 1, Len(old)))
        /\ ArmedIn(SubSeq(old, n + 1, Len(old))) =
             Timers!Without(ArmedIn(old), {old[i].id : i \in 1 .. n})
    BY ONLY <2>1, SuffixDisarms
  <2> QED BY <2>2
<1>5. /\ ids \in Seq(Ids) /\ Len(ids) = n
      /\ \A i, j \in 1 .. n : ids[i] = ids[j] => i = j
  <2>1. ids \in [1 .. n -> Ids]
    BY <1>0, <1>3 DEF Entry
  <2>2. \A i, j \in 1 .. n : ids[i] = ids[j] => i = j
    BY <1>0, <1>3 DEF IsTimerList
  <2>3. DOMAIN ids = 1 .. n
    OBVIOUS
  <2> HIDE DEF ids
  <2>4. ids \in Seq(Ids)
    BY <1>1, <2>1, SeqDef
  <2>5. DOMAIN ids = 1 .. Len(ids) /\ Len(ids) \in Nat
    BY <2>4, LenProperties
  <2>6. Len(ids) = n
    <3>1. \A i \in Int : i \in 1 .. Len(ids) <=> i \in 1 .. n
      BY <2>3, <2>5
    <3>2. PICK x \in Nat : x = Len(ids)
      BY <2>5
    <3>3. PICK y \in Nat : y = n
      BY <1>1
    <3>4. (x > 0 => x \in 1 .. y) /\ (y > 0 => y \in 1 .. x)
      BY <3>1, <3>2, <3>3
    <3> QED BY ONLY <3>2, <3>3, <3>4
  <2> QED BY <2>2, <2>4, <2>6
<1> DEFINE ex == Reverse(ids)
<1>6. /\ ex \in Seq(Ids) /\ Len(ex) = n
      /\ \A i \in 1 .. n : ex[i] = ids[n - i + 1]
  <2>1. \A i \in 1 .. n : n - i + 1 \in 1 .. n
    BY <1>1
  <2> HIDE DEF ids
  <2>2. ex = [i \in 1 .. n |-> ids[n - i + 1]]
    BY <1>5 DEF Reverse
  <2> HIDE DEF ex
  <2>3. ex \in [1 .. n -> Ids] /\ DOMAIN ex = 1 .. n /\ \A i \in 1 .. n : ex[i] = ids[n - i + 1]
    <3>1. \A i \in 1 .. n : ids[i] \in Ids
      BY <1>5, ElementOfSeq
    <3> QED BY <2>1, <2>2, <3>1
  <2>4. ex \in Seq(Ids)
    BY <1>1, <2>3, SeqDef
  <2>5. DOMAIN ex = 1 .. Len(ex) /\ Len(ex) \in Nat
    BY <2>4, LenProperties
  <2>6. Len(ex) = n
    <3>1. \A i \in Int : i \in 1 .. Len(ex) <=> i \in 1 .. n
      BY <2>3, <2>5
    <3>2. PICK x \in Nat : x = Len(ex)
      BY <2>5
    <3>3. PICK y \in Nat : y = n
      BY <1>1
    <3>4. (x > 0 => x \in 1 .. y) /\ (y > 0 => y \in 1 .. x)
      BY <3>1, <3>2, <3>3
    <3> QED BY ONLY <3>2, <3>3, <3>4
  <2> QED BY <2>3, <2>4, <2>6
<1> HIDE DEF ex
<1>7. \A i, j \in 1 .. n : ex[i] = ex[j] => i = j
  <2> HIDE DEF ids
  <2> SUFFICES ASSUME NEW i \in 1 .. n, NEW j \in 1 .. n, ex[i] = ex[j] PROVE i = j
    OBVIOUS
  <2>1. n - i + 1 \in 1 .. n /\ n - j + 1 \in 1 .. n
    BY <1>1
  <2>2. n - i + 1 = n - j + 1
    BY <1>5, <1>6, <2>1
  <2> QED BY <1>1, <2>2
<1>8. ToSet(ex) = S
  <2>1. DOMAIN ex = 1 .. n
    BY <1>6, LenProperties
  <2>2. ASSUME NEW i \in 1 .. n PROVE ex[i] \in S
    <3>1. n - i + 1 \in 1 .. n
      BY <1>1
    <3> QED BY <1>6, <3>1
  <2>3. ASSUME NEW i \in 1 .. n PROVE \E j \in 1 .. n : ex[j] = old[i].id
    <3>1. n - i + 1 \in 1 .. n /\ n - (n - i + 1) + 1 = i
      BY <1>1
    <3>2. ex[n - i + 1] = ids[n - (n - i + 1) + 1]
      BY ONLY <1>6, <3>1
    <3> QED BY <3>1, <3>2
  <2>4. S \subseteq ToSet(ex)
    BY <2>1, <2>3 DEF ToSet
  <2> QED BY <2>1, <2>2, <2>4 DEF ToSet
<1>9. /\ timer_data'.list = list /\ timer_data'.kernel = Off
      /\ timer_data'.expired = ex /\ timer_data'.runs = TRUE
      /\ timer_data' \in [list : Seq(Entry), kernel : Nat \cup {Off}, expired : Seq(Ids), runs : BOOLEAN]
  <2>1. list \in Seq(Entry)
    BY <1>4 DEF IsTimerList
  <2> HIDE DEF list
  <2> QED BY <1>2, <1>6, <2>1 DEF ex
<1>10. TimerInv'
  BY <1>4, <1>6, <1>7, <1>9 DEF TimerInv
<1>11. Timers!Expire(S) /\ S \in SUBSET DOMAIN Armed_
  <2>1. Armed_ = ArmedIn(old) /\ Armed_' = ArmedIn(list)
    BY <1>9, ArmedIsArmedIn DEF Armed_, Armed, ArmedIn
  <2>2. \A id \in S : id \in DOMAIN Armed_ /\ Armed_[id] = 0
    BY <1>0, <1>3, <2>1
  <2>3. ToSet(timer_data.expired) = {} /\ ToSet(timer_data.expired)' = S
    <3>1. DOMAIN timer_data.expired = {}
      BY <1>2
    <3>2. ToSet(timer_data.expired)' = ToSet(ex)
      BY <1>9
    <3> QED BY <1>8, <3>1, <3>2 DEF ToSet
  <2> QED BY <1>4, <2>1, <2>2, <2>3 DEF Timers!Expire
<1> QED BY <1>10, <1>11

LEMMA CallStep ==
  ASSUME TimerInv, NEW id, callback(id)
  PROVE  TimerInv' /\ id \in Ids /\ Timers!Call(id)
<1> DEFINE e == timer_data.expired
           t == Tail(e)
<1>1. /\ e \in Seq(Ids) /\ e # <<>> /\ id = Head(e)
      /\ timer_data' = [timer_data EXCEPT !.expired = t]
      /\ \A i, j \in 1 .. Len(e) : e[i] = e[j] => i = j
      /\ timer_data.runs
  BY DEF callback, TimerInv
<1>2. /\ DOMAIN e = 1 .. Len(e) /\ Len(e) \in Nat
      /\ t \in Seq(Ids) /\ Len(t) = Len(e) - 1
      /\ \A i \in 1 .. Len(t) : t[i] = e[i + 1]
  BY <1>1, LenProperties, HeadTailProperties
<1>3. id = e[1] /\ 1 \in 1 .. Len(e) /\ id \in Ids
  <2>1. Len(e) # 0
    BY <1>1
  <2>2. 1 \in 1 .. Len(e)
    BY <1>2, <2>1
  <2>3. e[1] \in Ids
    BY <1>1, <2>2, ElementOfSeq
  <2> QED BY <1>1, <2>2, <2>3
<1>4. DOMAIN t = 1 .. Len(t) /\ Len(t) \in Nat
  BY <1>2, LenProperties
<1> HIDE DEF t
<1>5. TimerInv'
  <2>1. ASSUME NEW i \in 1 .. Len(t), NEW j \in 1 .. Len(t), t[i] = t[j]
        PROVE  i = j
    <3>1. i + 1 \in 1 .. Len(e) /\ j + 1 \in 1 .. Len(e) /\ e[i + 1] = e[j + 1]
      BY <1>2, <2>1
    <3>2. i + 1 = j + 1
      BY <1>1, <3>1
    <3> QED BY <3>2
  <2>2. timer_data'.expired = t /\ timer_data'.list = timer_data.list /\ timer_data'.runs
    BY <1>1, <1>2 DEF TimerInv
  <2>3. timer_data' \in [list : Seq(Entry), kernel : Nat \cup {Off}, expired : Seq(Ids), runs : BOOLEAN]
    BY <1>1, <1>2 DEF TimerInv
  <2> QED BY <2>1, <2>2, <2>3 DEF TimerInv
<1>6. ToSet(t) = ToSet(e) \ {id}
  <2>1. ASSUME NEW i \in 1 .. Len(t) PROVE t[i] \in ToSet(e) \ {id}
    <3>1. i + 1 \in 1 .. Len(e) /\ i + 1 # 1
      BY <1>2
    <3>2. e[i + 1] # e[1]
      BY <1>1, <1>3, <3>1
    <3> QED BY <1>2, <1>3, <3>1, <3>2 DEF ToSet
  <2>2. ASSUME NEW i \in 1 .. Len(e), e[i] # id PROVE e[i] \in ToSet(t)
    <3>1. i # 1
      BY <1>3, <2>2
    <3>2. i - 1 \in 1 .. Len(t) /\ (i - 1) + 1 = i
      BY <1>2, <3>1
    <3>3. t[i - 1] = e[i]
      BY <1>2, <3>2
    <3> QED BY <1>4, <3>2, <3>3 DEF ToSet
  <2> QED BY <1>2, <1>4, <2>1, <2>2 DEF ToSet
<1>7. id \in ToSet(e)
  BY <1>2, <1>3 DEF ToSet
<1>8. UNCHANGED Armed_ /\ ToSet(timer_data.expired)' = ToSet(t)
  BY <1>1 DEF Armed_, Armed, TimerInv
<1> QED BY <1>3, <1>5, <1>6, <1>7, <1>8 DEF Timers!Call

LEMMA RearmStep ==
  ASSUME TimerInv, rearm
  PROVE  TimerInv' /\ UNCHANGED Timers!vars
<1>1. mod_timer(timer_data.list) \in Nat \cup {Off}
  <2>1. timer_data.list # <<>> => Head(timer_data.list) \in Entry
    BY HeadTailProperties DEF TimerInv
  <2> QED BY <2>1 DEF mod_timer, TimerInv, Entry
<1>2. /\ timer_data' = [timer_data EXCEPT !.runs = FALSE, !.kernel = mod_timer(timer_data.list)]
      /\ timer_data.expired = <<>>
  BY DEF rearm
<1> DEFINE k == mod_timer(timer_data.list)
<1> HIDE DEF k
<1>3. /\ timer_data'.list = timer_data.list /\ timer_data'.expired = timer_data.expired
      /\ timer_data' \in [list : Seq(Entry), kernel : Nat \cup {Off},
                         expired : Seq(Ids), runs : BOOLEAN]
  BY <1>1, <1>2 DEF TimerInv, k
<1>4. TimerInv'
  BY <1>2, <1>3 DEF TimerInv
<1>5. UNCHANGED Armed_
  BY <1>3 DEF Armed_, Armed
<1> QED BY <1>3, <1>4, <1>5 DEF Timers!vars

LEMMA TickStep ==
  ASSUME TimerInv, Tick
  PROVE  TimerInv' /\ Timers!Tick
<1> DEFINE old == timer_data.list
           list == [i \in DOMAIN old |-> Aged(old[i])]
           a == ArmedIn(old)
<1>1. IsTimerList(list) /\ ArmedIn(list) = [id \in DOMAIN a |-> IF a[id] > 0 THEN a[id] - 1 ELSE 0]
  BY TickArms DEF TimerInv
<1>2. timer_data' = [timer_data EXCEPT !.list = list, !.kernel = Older(@)]
  BY DEF Tick
<1>3. Older(timer_data.kernel) \in Nat \cup {Off}
  BY DEF TimerInv, Older, Off
<1> HIDE DEF list
<1>4. list \in Seq(Entry)
  BY <1>1 DEF IsTimerList
<1>5. TimerInv' /\ timer_data'.list = list /\ UNCHANGED ToSet(timer_data.expired)
  BY <1>1, <1>2, <1>3, <1>4 DEF TimerInv
<1>6. Armed_ = a /\ Armed_' = ArmedIn(list)
  BY <1>5, ArmedIsArmedIn DEF Armed_, Armed, ArmedIn
<1> QED BY <1>1, <1>5, <1>6 DEF Timers!Tick
-----------------------------------------------------------------------------
(* The steps of SkwSta. *)

UserPcs == {"idle", "auth_unjoin", "auth_join", "auth_cmd", "failed", "assoc_unjoin",
            "assoc_join", "assoc_cmd", "deauth", "scan_timer", "scan_cmd"}

\* A scan adds its timer under the address of its request.
UserInv ==
  /\ user \in [pc : UserPcs, arg : Reqs \cup Bss \cup {NoReq}, roam : BOOLEAN]
  /\ user.pc = "scan_timer" => user.arg \in Reqs

Inv == TimerInv /\ UserInv

\* What a step may do to the timers.
TimersStep == Timers!Next \/ UNCHANGED Timers!vars

LEMMA TimersStay ==
  ASSUME TimerInv, UNCHANGED timer_data
  PROVE  TimerInv' /\ TimersStep
  BY DEF TimerInv, TimersStep, Timers!vars, Armed_, Armed

LEMMA Adds ==
  ASSUME TimerInv, NEW id \in Ids, skw_add_timer_work(id)
  PROVE  TimerInv' /\ TimersStep
  BY AddStep DEF TimersStep, Timers!Next

LEMMA Deletes ==
  ASSUME TimerInv, NEW id, skw_del_timer_work(id)
  PROVE  TimerInv' /\ TimersStep
  BY DelStep DEF TimersStep, Timers!Next

LEMMA ScanDone ==
  ASSUME TimerInv, skw_scan_done
  PROVE  TimerInv' /\ TimersStep
  BY TimersStay, Deletes DEF skw_scan_done

LEMMA RequestStep ==
  ASSUME Inv, Request
  PROVE  Inv' /\ TimersStep
<1>1. ASSUME NEW b \in Bss, skw_auth(b) PROVE Inv' /\ TimersStep
  <2>1. TimerInv' /\ TimersStep
    BY <1>1, ScanDone DEF skw_auth, Inv
  <2>2. \/ UNCHANGED user
        \/ \E p \in {"auth_unjoin", "auth_join", "auth_cmd"}, roam \in BOOLEAN :
             user' = [pc |-> p, arg |-> b, roam |-> roam]
    <3>1. CASE sta.state \in {"AUTHING", "ASSOCING"} \/ (Associated /\ sta.bss = b)
      BY <1>1, <3>1 DEF skw_auth
    <3>2. CASE ~(sta.state \in {"AUTHING", "ASSOCING"} \/ (Associated /\ sta.bss = b))
      <4>1. user' = [pc |-> "auth_unjoin", arg |-> b, roam |-> TRUE]
            \/ user' = [pc |-> "auth_unjoin", arg |-> b, roam |-> FALSE]
            \/ user' = [pc |-> "auth_join", arg |-> b, roam |-> FALSE]
            \/ user' = [pc |-> "auth_cmd", arg |-> b, roam |-> FALSE]
        BY <1>1, <3>2 DEF skw_auth
      <4> QED BY <4>1
    <3> QED BY <3>1, <3>2
  <2>3. UserInv'
    BY <2>2 DEF Inv, UserInv, UserPcs
  <2> QED BY <2>1, <2>3 DEF Inv
<1>2. ASSUME NEW b \in Bss, skw_assoc(b) PROVE Inv' /\ TimersStep
  <2>1. TimerInv' /\ TimersStep
    BY <1>2, TimersStay DEF skw_assoc, Inv
  <2>2. UserInv'
    BY <1>2 DEF skw_assoc, Inv, UserInv, UserPcs, NoUser
  <2> QED BY <2>1, <2>2 DEF Inv
<1>3. ASSUME NEW b \in Bss, skw_cfg80211_deauth(b) PROVE Inv' /\ TimersStep
  <2>1. TimerInv' /\ TimersStep
    BY <1>3, TimersStay DEF skw_cfg80211_deauth, Inv
  <2>2. UserInv'
    BY <1>3 DEF skw_cfg80211_deauth, Inv, UserInv, UserPcs, NoUser
  <2> QED BY <2>1, <2>2 DEF Inv
<1>4. ASSUME skw_change_station PROVE Inv' /\ TimersStep
  BY <1>4, TimersStay DEF skw_change_station, Inv, UserInv
<1>5. ASSUME NEW id \in Reqs, Scan(id) PROVE Inv' /\ TimersStep
  <2>1. TimerInv' /\ TimersStep
    BY <1>5, TimersStay, Deletes DEF Scan, skw_cqm_bg_scan, Inv
  <2>2. UserInv'
    BY <1>5 DEF Scan, skw_cqm_bg_scan, UserInv, UserPcs, NoUser
  <2> QED BY <2>1, <2>2 DEF Inv
<1> QED BY <1>1, <1>2, <1>3, <1>4, <1>5 DEF Request

LEMMA UserMoves ==
  ASSUME UserInv,
         \/ UNCHANGED user \/ user' = NoUser
         \/ user' = [user EXCEPT !.pc = "auth_unjoin", !.roam = FALSE]
         \/ user' = [user EXCEPT !.pc = "auth_join", !.roam = FALSE]
         \/ \E p \in UserPcs \ {"scan_timer"} : user' = [user EXCEPT !.pc = p]
  PROVE  UserInv'
<1>1. user.pc \in UserPcs /\ user.arg \in Reqs \cup Bss \cup {NoReq} /\ user.roam \in BOOLEAN
  BY DEF UserInv
<1>2. CASE UNCHANGED user
  BY <1>2 DEF UserInv
<1>3. CASE user' = NoUser
  BY <1>3 DEF UserInv, UserPcs, NoUser
<1>4. CASE user' = [user EXCEPT !.pc = "auth_unjoin", !.roam = FALSE]
  <2>1. user' = [pc |-> "auth_unjoin", arg |-> user.arg, roam |-> FALSE]
    BY <1>4 DEF UserInv
  <2> QED BY <1>1, <2>1 DEF UserInv, UserPcs
<1>5. CASE user' = [user EXCEPT !.pc = "auth_join", !.roam = FALSE]
  <2>1. user' = [pc |-> "auth_join", arg |-> user.arg, roam |-> FALSE]
    BY <1>5 DEF UserInv
  <2> QED BY <1>1, <2>1 DEF UserInv, UserPcs
<1>6. ASSUME NEW p \in UserPcs \ {"scan_timer"}, user' = [user EXCEPT !.pc = p]
      PROVE  UserInv'
  <2>1. user' = [pc |-> p, arg |-> user.arg, roam |-> user.roam]
    BY <1>6 DEF UserInv
  <2> QED BY <1>1, <1>6, <2>1 DEF UserInv
<1> QED BY <1>2, <1>3, <1>4, <1>5, <1>6

LEMMA UserSteps ==
  ASSUME Inv, UserStep
  PROVE  Inv' /\ TimersStep
<1>1. CASE ScanTimer
  <2>1. user.arg \in Ids /\ skw_add_timer_work(user.arg)
    BY <1>1, ScanAssumption DEF ScanTimer, scan_timer, Inv, UserInv
  <2>2. TimerInv' /\ TimersStep
    BY <2>1, Adds DEF Inv
  <2>3. UserInv'
    BY <1>1 DEF ScanTimer, scan_timer, Inv, UserInv, UserPcs
  <2> QED BY <2>2, <2>3 DEF Inv
<1>2. ASSUME NEW ok \in BOOLEAN, ScanCmd(ok) PROVE Inv' /\ TimersStep
  <2>1. TimerInv' /\ TimersStep
    BY <1>2, TimersStay, Deletes DEF ScanCmd, scan_cmd, Inv
  <2>2. UserInv'
    BY <1>2 DEF ScanCmd, scan_cmd, UserInv, UserPcs, NoUser
  <2> QED BY <2>1, <2>2 DEF Inv
<1>3. ASSUME NEW ok \in BOOLEAN, NEW confirm \in BOOLEAN,
             \/ auth_unjoin(ok) \/ auth_join(ok) \/ auth_failed(ok)
             \/ skw_cmd_auth(ok, confirm)
             \/ assoc_unjoin(ok) \/ assoc_join(ok) \/ skw_cmd_assoc(ok)
             \/ deauth_unjoin(ok)
      PROVE Inv' /\ TimersStep
  <2>1. UNCHANGED timer_data
    BY <1>3 DEF auth_unjoin, auth_join, auth_failed, skw_cmd_auth, assoc_unjoin,
                assoc_join, skw_cmd_assoc, deauth_unjoin
  <2>2. CASE auth_unjoin(ok)
    <3>1. UNCHANGED user \/ user' = NoUser
          \/ user' = [user EXCEPT !.pc = "auth_unjoin", !.roam = FALSE]
          \/ user' = [user EXCEPT !.pc = "auth_join", !.roam = FALSE]
      BY <2>2 DEF auth_unjoin, Done
    <3>2. UserInv'
      BY <3>1, UserMoves DEF Inv
    <3> QED BY <2>1, <3>2, TimersStay DEF Inv
  <2>3. CASE ~auth_unjoin(ok)
    <3>1. \/ user' = NoUser
          \/ \E p \in {"auth_cmd", "failed", "assoc_join", "assoc_cmd"} : User(p)
      BY <1>3, <2>3 DEF auth_join, auth_failed, skw_cmd_auth, assoc_unjoin, assoc_join,
                skw_cmd_assoc, deauth_unjoin, Done
    <3>2. UserInv'
      BY <3>1, UserMoves DEF Inv, User, UserPcs
    <3> QED BY <2>1, <3>2, TimersStay DEF Inv
  <2> QED BY <2>2, <2>3
<1> QED BY <1>1, <1>2, <1>3 DEF UserStep

LEMMA EventSteps ==
  ASSUME Inv, EventStep \/ StaTimer
  PROVE  Inv' /\ TimersStep
<1>1. CASE ScanEvent
  <2>1. UNCHANGED user /\ (skw_scan_done \/ skw_event_cqm)
    BY <1>1 DEF ScanEvent
  <2>2. Cqm \in Ids
    BY ScanAssumption
  <2>3. TimerInv' /\ TimersStep
    BY <2>1, <2>2, ScanDone, TimersStay, Adds DEF skw_event_cqm, Inv
  <2> QED BY <2>1, <2>3 DEF Inv, UserInv
<1>2. CASE ~ScanEvent
  <2>1. UNCHANGED <<timer_data, user>>
    BY <1>2 DEF EventStep, StaTimer, leave_unjoin, sta_resent, disconnect_unjoin, sta_work,
                skw_sta_rx_auth, skw_sta_rx_assoc, skw_sta_rx_deauth, skw_event_disconnect
  <2> QED BY <2>1, TimersStay DEF Inv, UserInv
<1> QED BY <1>1, <1>2

LEMMA OwnSteps ==
  ASSUME Inv, Timers_ \/ Work \/ TimePasses
  PROVE  Inv' /\ TimersStep
<1>1. UNCHANGED user
  BY DEF Timers_, TimerStep, skw_scan_timeout, skw_cqm_scan_timeout, Work, skw_work, TimePasses
<1>2. CASE Work
  BY <1>1, <1>2, ScanDone DEF Work, skw_work, Inv, UserInv
<1>3. CASE TimePasses
  BY <1>1, <1>3, TickStep DEF TimePasses, Inv, UserInv, TimersStep, Timers!Next
<1>4. CASE Timers_
  <2>1. CASE skw_timer_work
    BY <1>1, <2>1, FireStep DEF Inv, UserInv, TimersStep, Timers!Next
  <2>2. CASE rearm
    BY <1>1, <2>2, RearmStep DEF Inv, UserInv, TimersStep
  <2>3. ASSUME NEW id, callback(id) PROVE Inv' /\ TimersStep
    BY <1>1, <2>3, CallStep DEF Inv, UserInv, TimersStep, Timers!Next
  <2> QED BY <1>4, <2>1, <2>2, <2>3
         DEF Timers_, TimerStep, skw_scan_timeout, skw_cqm_scan_timeout
<1> QED BY <1>2, <1>3, <1>4

LEMMA OtherSteps ==
  ASSUME Inv, RecoveryStep \/ FwStep
  PROVE  Inv' /\ TimersStep
<1>1. UNCHANGED <<timer_data, user>>
  <2>1. CASE RecoveryStep
    BY <2>1 DEF RecoveryStep, skw_recovery_prepare, recovery_enable, recovery_calib,
                skw_cmd_open_dev, replay_peer, replay_cancel, replay_unjoin, recovery_finish
  <2>2. CASE FwStep
    BY <2>2 DEF FwStep, Answered, AnsweredAgain, Unasked, FwDies, FwReady
  <2> QED BY <2>1, <2>2
<1> QED BY <1>1, TimersStay DEF Inv, UserInv

LEMMA Start ==
  ASSUME Init
  PROVE  Inv /\ Timers!Init
<1>1. timer_data = NoTimers /\ user = NoUser
  BY DEF Init, InitScan
<1>2. <<>> \in Seq(Entry) /\ <<>> \in Seq(Ids) /\ Len(<<>>) = 0 /\ DOMAIN <<>> = {}
  OBVIOUS
<1>3. Inv
  BY <1>1, <1>2 DEF Inv, TimerInv, UserInv, NoTimers, NoUser, UserPcs, IsTimerList, Off
<1>4. Timers!Init
  <2>1. Armed = {} /\ ToSet(timer_data.expired) = {}
    BY <1>1, <1>2 DEF NoTimers, Armed, ToSet
  <2>2. DOMAIN Armed_ = {} /\ Armed_ = [id \in {} |-> Armed_[id]]
    BY <2>1 DEF Armed_
  <2>3. Armed_ = <<>>
    BY <2>1 DEF Armed_
  <2> QED BY <2>1, <2>3 DEF Timers!Init
<1> QED BY <1>3, <1>4

LEMMA InvSteps ==
  ASSUME Inv, [Next]_vars
  PROVE  Inv'
<1>1. CASE UNCHANGED vars
  BY <1>1, TimersStay DEF vars, Inv, UserInv
<1> QED BY <1>1, RequestStep, UserSteps, EventSteps, OwnSteps, OtherSteps DEF Next

\* The handler of the timers takes each one once, and a timer's id is one of
\* skw_timer.c's users.
THEOREM TimersInvariance == Spec => []Inv
<1>1. Init => Inv
  BY Start
<1>2. Inv /\ [Next]_vars => Inv'
  BY InvSteps
<1> QED BY <1>1, <1>2, PTL DEF Spec

\* The list of skw_timer.c behind one kernel timer implements a set of timers:
\* a timer expires when its time has passed and no earlier, is called once, and
\* not after it was deleted from the list.
THEOREM TimersRefinement == Spec => Timers!Init /\ [][Timers!Next]_(Timers!vars)
<1>1. Init => Timers!Init
  BY Start
<1>2. Inv /\ [Next]_vars => [Timers!Next]_(Timers!vars)
  <2> SUFFICES ASSUME Inv, [Next]_vars PROVE TimersStep
    BY DEF TimersStep
  <2>1. CASE UNCHANGED vars
    BY <2>1, TimersStay DEF vars, Inv
  <2> QED BY <2>1, RequestStep, UserSteps, EventSteps, OwnSteps, OtherSteps DEF Next
<1> QED BY <1>1, <1>2, TimersInvariance, PTL DEF Spec
-----------------------------------------------------------------------------
(* The types of the station's state. *)

Addrs == Bss \cup {NoBss}
States == {"NONE", "AUTHING", "AUTHED", "ASSOCING", "ASSOCED", "COMPLETED"}
StaRecord ==
  [state : States, bss : Addrs, ctx : Ctxs \cup {0}, sae : BOOLEAN, timer : BOOLEAN,
   work : BOOLEAN, retry : 0 .. MaxRetry, fresh : BOOLEAN, pending : {"AUTH", "ASSOC"}]
EventRecord ==
  {e \in [pc : {"idle", "leave", "resend", "disconnect"}, bss : Addrs,
          tell : {"nothing", "confirm", "deauth", "timeout", "late"}] :
     e.pc = "leave" => e.tell # "late"}
RdRecord ==
  [recovering : BOOLEAN, peer : [Ctxs -> [addr : Addrs, deauthed : BOOLEAN]],
   peer_map : SUBSET Ctxs]
RecoveryRecord ==
  [pc : {"idle", "scheduled", "enable", "calib", "open", "replay", "cancel", "unjoin", "finish"},
   ret : BOOLEAN, map : SUBSET Ctxs]
Items ==
  {"auth", "confirm", "auth_fail", "confirm_fail", "assoc", "assoc_fail", "scan_done",
   "deauth", "disconnect", "cqm"} \X Addrs
FwRecord ==
  [up : BOOLEAN, opened : BOOLEAN, peers : [Ctxs -> Addrs], air : SUBSET Items,
   again : SUBSET Items]
PeersType == [Ctxs -> [addr : Addrs, open : BOOLEAN]]
CfgRecord == [conn : Addrs, auth : Addrs]

StaType ==
  /\ sta \in StaRecord /\ peers \in PeersType /\ cfg \in CfgRecord
  /\ event \in EventRecord /\ queue \in Seq(Items) /\ Len(queue) <= MaxQueue
  /\ rd \in RdRecord /\ recovery \in RecoveryRecord /\ asserted \in BOOLEAN
  /\ fw \in FwRecord

\* The requests that hold core.lock, each for an access point.
LockedPcs == UserPcs \ {"idle", "scan_timer", "scan_cmd"}

LockInv ==
  /\ lock \in {NoBss, "user", "event"}
  /\ lock = "user" <=> user.pc \in LockedPcs
  /\ lock = "event" <=> event.pc \in {"leave", "resend"}
  /\ user.pc \in LockedPcs => user.arg \in Bss

\* An attempt that goes on has a retry left.
RetryInv ==
  /\ sta.state \in {"AUTHING", "AUTHED", "ASSOCING"} => sta.retry < MaxRetry
  /\ user.pc \in {"auth_cmd", "assoc_cmd"} => sta.retry < MaxRetry

StateInv == StaType /\ LockInv /\ RetryInv

LEMMA Contexts ==
  /\ Cardinality(Ctxs) \in Nat /\ Ctxs = 1 .. Cardinality(Ctxs) /\ 1 \in Ctxs /\ 0 \notin Ctxs
<1>1. Cardinality(Ctxs) \in Nat
  BY StaAssumption, FS_CardinalityType
<1> DEFINE n == Cardinality(Ctxs)
<1>2. n \in Nat /\ Ctxs = 1 .. n /\ Ctxs # {}
  BY <1>1, StaAssumption
<1> HIDE DEF n
<1>3. 1 \in Ctxs /\ 0 \notin Ctxs
  BY <1>2
<1> QED BY <1>2, <1>3 DEF n

\* skw_peer_ctx finds the context of an address.
LEMMA PeerCtx ==
  ASSUME NEW b
  PROVE  /\ skw_peer_ctx(b) \in Ctxs \cup {0}
         /\ skw_peer_ctx(b) # 0 => peers[skw_peer_ctx(b)].addr = b /\ b # NoBss
         /\ skw_peer_ctx(b) = 0 => b = NoBss \/ \A c \in Ctxs : peers[c].addr # b
<1> DEFINE S == {c \in Ctxs : peers[c].addr = b}
<1>1. CASE b = NoBss \/ S = {}
  BY <1>1 DEF skw_peer_ctx
<1>2. CASE b # NoBss /\ S # {}
  <2>1. S \in SUBSET (1 .. Cardinality(Ctxs)) /\ Cardinality(Ctxs) \in Nat
    BY Contexts
  <2>2. \E c \in S : \A d \in S : c <= d
    <3> HIDE DEF S
    <3> QED BY <1>2, <2>1, FirstPosition
  <2>3. skw_peer_ctx(b) \in S
    BY <1>2, <2>2 DEF skw_peer_ctx
  <2> QED BY <1>2, <2>3, Contexts
<1> QED BY <1>1, <1>2

\* What skw_unjoin does to the station, its peers and the firmware.
LEMMA UnjoinEffect ==
  ASSUME StaType, NEW b, NEW ok \in BOOLEAN, NEW s \in StaRecord, skw_unjoin(b, ok, s)
  PROVE  /\ sta' \in StaRecord /\ peers' \in PeersType /\ fw' \in FwRecord
         /\ sta'.state = s.state /\ sta'.retry = s.retry
<1> DEFINE c == skw_peer_ctx(b)
<1>1. c \in Ctxs \cup {0}
  BY PeerCtx
<1>2. CASE c = 0
  BY <1>2 DEF skw_unjoin, StaType
<1>3. CASE c # 0
  <2>0. c \in Ctxs
    BY <1>1, <1>3
  <2>1. sta' = IF ok THEN [s EXCEPT !.bss = NoBss, !.ctx = 0] ELSE s
    BY <1>3 DEF skw_unjoin
  <2>2. peers' = [peers EXCEPT ![c] = IF ok THEN NoPeer ELSE [peers[c] EXCEPT !.open = FALSE]]
    BY <1>3 DEF skw_unjoin
  <2>3. fw' = IF ok THEN [fw EXCEPT !.peers[c] = NoBss, !.air = {}, !.again = {}] ELSE fw
    BY <1>3 DEF skw_unjoin
  <2> HIDE DEF c
  <2>4. sta' \in StaRecord /\ sta'.state = s.state /\ sta'.retry = s.retry
    BY <2>1 DEF StaRecord, Addrs
  <2>5. peers' \in PeersType
    BY <2>0, <2>2 DEF StaType, PeersType, NoPeer, Addrs
  <2>6. fw' \in FwRecord
    BY <2>0, <2>3 DEF StaType, FwRecord, Addrs
  <2> QED BY <2>4, <2>5, <2>6
<1> QED BY <1>2, <1>3

LEMMA JoinEffect ==
  ASSUME StaType, NEW b \in Bss, NEW s \in StaRecord, skw_join(b, s)
  PROVE  /\ sta' \in StaRecord /\ peers' \in PeersType /\ fw' \in FwRecord
         /\ sta'.state = s.state /\ sta'.retry = s.retry
<1>1. PICK c \in Ctxs :
        /\ fw' = [fw EXCEPT !.peers[c] = b]
        /\ peers' = [peers EXCEPT ![c] = [addr |-> b, open |-> FALSE]]
        /\ sta' = [s EXCEPT !.bss = b, !.ctx = c]
  BY DEF skw_join
<1> QED BY <1>1 DEF StaType, StaRecord, PeersType, FwRecord, Addrs

LEMMA StationStates ==
  ASSUME NEW s \in StaRecord, NEW state \in States
  PROVE  /\ Leaving(s) \in StaRecord /\ Leaving(s).state = "NONE" /\ Leaving(s).retry = s.retry
         /\ Started(s, state) \in StaRecord /\ Started(s, state).state = state
         /\ Started(s, state).retry = 0
         /\ [s EXCEPT !.state = state] \in StaRecord
         /\ [s EXCEPT !.state = state].state = state /\ [s EXCEPT !.state = state].retry = s.retry
<1>1. "NONE" \in States /\ 0 \in 0 .. MaxRetry
  BY StaAssumption DEF States
<1> QED BY <1>1 DEF Leaving, Started, StaRecord

LEMMA TellType ==
  ASSUME StaType, NEW b, Tell(b)
  PROVE  cfg' \in CfgRecord
BY DEF StaType, Tell, CfgRecord, Addrs

LEMMA StateStart ==
  ASSUME Init
  PROVE  StateInv
<1>1. PICK b \in {Home, NoBss}, open \in BOOLEAN :
       LET c == IF b = NoBss THEN 0 ELSE 1 IN
       /\ c = 0 => ~open
       /\ sta = [NoSta EXCEPT
                  !.state = IF c = 0 THEN "NONE" ELSE IF open THEN "COMPLETED" ELSE "AUTHED",
                  !.bss = b, !.ctx = c, !.timer = c # 0 /\ ~open,
                  !.pending = IF open THEN "ASSOC" ELSE "AUTH"]
       /\ peers = [d \in Ctxs |-> IF d = c THEN [addr |-> b, open |-> open] ELSE NoPeer]
       /\ fw = [up |-> TRUE, opened |-> TRUE, air |-> {}, again |-> {},
                peers |-> [d \in Ctxs |-> IF d = c THEN b ELSE NoBss]]
       /\ cfg = [conn |-> IF open THEN b ELSE NoBss, auth |-> b]
  BY DEF Init
<1> DEFINE c == IF b = NoBss THEN 0 ELSE 1
<1>2. b \in Addrs /\ c \in Ctxs \cup {0} /\ MaxRetry \in Nat /\ MaxRetry > 0 /\ MaxQueue \in Nat
  BY StaAssumption, Contexts DEF Addrs
<1>3. sta = [state |-> IF c = 0 THEN "NONE" ELSE IF open THEN "COMPLETED" ELSE "AUTHED",
             bss |-> b, ctx |-> c, sae |-> FALSE, timer |-> c # 0 /\ ~open, work |-> FALSE,
             retry |-> 0, fresh |-> FALSE, pending |-> IF open THEN "ASSOC" ELSE "AUTH"]
  BY <1>1 DEF NoSta
<1>4. /\ peers = [d \in Ctxs |-> IF d = c THEN [addr |-> b, open |-> open] ELSE NoPeer]
      /\ fw = [up |-> TRUE, opened |-> TRUE, air |-> {}, again |-> {},
               peers |-> [d \in Ctxs |-> IF d = c THEN b ELSE NoBss]]
      /\ cfg = [conn |-> IF open THEN b ELSE NoBss, auth |-> b]
  BY <1>1
<1> HIDE DEF c
<1>5. sta \in StaRecord /\ sta.retry = 0
  BY <1>2, <1>3 DEF StaRecord, States
<1>6. peers \in PeersType /\ fw \in FwRecord /\ cfg \in CfgRecord
  BY <1>2, <1>4 DEF PeersType, FwRecord, CfgRecord, Addrs, NoPeer
<1>7. /\ event = NoEvent /\ queue = <<>> /\ rd = NoRecovery /\ asserted = FALSE
      /\ recovery = [pc |-> "idle", ret |-> TRUE, map |-> {}]
      /\ lock = NoBss /\ user = NoUser
  BY DEF Init, InitScan
<1>8. event \in EventRecord /\ rd \in RdRecord /\ recovery \in RecoveryRecord
  BY <1>7 DEF EventRecord, RdRecord, RecoveryRecord, NoEvent, NoRecovery, Addrs
<1>9. queue \in Seq(Items) /\ Len(queue) <= MaxQueue
  <2>1. <<>> \in Seq(Items) /\ Len(<<>>) = 0
    OBVIOUS
  <2> QED BY <1>2, <1>7, <2>1
<1>10. StaType
  <2>1. asserted = FALSE
    BY <1>7
  <2> QED BY ONLY <1>5, <1>6, <2>1, <1>8, <1>9 DEF StaType
<1>11. LockInv /\ RetryInv
  BY <1>2, <1>5, <1>7 DEF LockInv, RetryInv, LockedPcs, NoUser, NoEvent, NoBss
<1> QED BY <1>10, <1>11 DEF StateInv

\* The actions keep the types: the requests,
LEMMA RequestTypes ==
  ASSUME Inv, StateInv, Request
  PROVE  StateInv'
<1> USE DEF StateInv
<1>1. ASSUME NEW b \in Bss, skw_auth(b) PROVE StateInv'
  <2>1. UNCHANGED <<peers, queue, event, rd, recovery, asserted, fw>> /\ lock = NoBss /\ user.pc = "idle"
    BY <1>1 DEF skw_auth, restart
  <2>2. CASE UNCHANGED <<lock, user, sta, cfg>>
    BY <2>1, <2>2 DEF StaType, LockInv, RetryInv
  <2>3. CASE /\ Tell(sta.bss)
             /\ sta' = [sta EXCEPT !.state = "NONE"]
             /\ lock' = "user"
             /\ user' = [pc |-> "auth_unjoin", arg |-> b, roam |-> TRUE]
    <3>1. sta' \in StaRecord /\ sta'.state = "NONE" /\ cfg' \in CfgRecord
      BY <2>3, StationStates, TellType DEF StaType, States
    <3> QED BY <2>1, <2>3, <3>1 DEF StaType, LockInv, RetryInv, LockedPcs, UserPcs, NoBss
  <2>4. CASE /\ lock' = "user"
             /\ user' = [pc |-> IF sta.bss # NoBss THEN "auth_unjoin" ELSE "auth_join",
                         arg |-> b, roam |-> FALSE]
             /\ UNCHANGED <<sta, cfg>>
    BY <2>1, <2>4 DEF StaType, LockInv, RetryInv, LockedPcs, UserPcs, NoBss
  <2>5. CASE /\ lock' = "user"
             /\ user' = [pc |-> "auth_cmd", arg |-> b, roam |-> FALSE]
             /\ sta' = Started(sta, "AUTHING")
             /\ UNCHANGED cfg
    <3>1. sta' \in StaRecord /\ sta'.retry = 0
      BY <2>5, StationStates DEF StaType, States
    <3> QED BY <2>1, <2>5, <3>1, StaAssumption
            DEF StaType, LockInv, RetryInv, LockedPcs, UserPcs, NoBss
  <2> QED BY <1>1, <2>2, <2>3, <2>4, <2>5 DEF skw_auth
<1>2. ASSUME NEW b \in Bss, skw_assoc(b) PROVE StateInv'
  <2>1. UNCHANGED <<peers, queue, event, rd, recovery, asserted, fw, cfg>> /\ lock = NoBss /\ user.pc = "idle"
    BY <1>2 DEF skw_assoc, restart
  <2>2. CASE UNCHANGED <<lock, user, sta>>
    BY <2>1, <2>2 DEF StaType, LockInv, RetryInv
  <2>3. CASE /\ lock' = "user"
             /\ user' = [NoUser EXCEPT !.pc = "assoc_cmd", !.arg = b]
             /\ sta' = Started(sta, "ASSOCING")
    <3>1. sta' \in StaRecord /\ sta'.retry = 0
      BY <2>3, StationStates DEF StaType, States
    <3> QED BY <2>1, <2>3, <3>1, StaAssumption
            DEF StaType, LockInv, RetryInv, LockedPcs, UserPcs, NoBss, NoUser
  <2>4. CASE /\ lock' = "user"
             /\ user' = [NoUser EXCEPT !.pc = "assoc_unjoin", !.arg = b]
             /\ sta' = [sta EXCEPT !.state = "NONE"]
    <3>1. sta' \in StaRecord /\ sta'.state = "NONE"
      BY <2>4, StationStates DEF StaType, States
    <3> QED BY <2>1, <2>4, <3>1 DEF StaType, LockInv, RetryInv, LockedPcs, UserPcs, NoBss, NoUser
  <2> QED BY <1>2, <2>2, <2>3, <2>4 DEF skw_assoc
<1>3. ASSUME NEW b \in Bss, skw_cfg80211_deauth(b) PROVE StateInv'
  <2>1. /\ UNCHANGED <<peers, queue, event, rd, recovery, asserted, fw, cfg>> /\ lock = NoBss
        /\ lock' = "user" /\ user' = [NoUser EXCEPT !.pc = "deauth", !.arg = b]
        /\ sta' = Leaving(sta)
    BY <1>3 DEF skw_cfg80211_deauth, restart, Locked
  <2>2. sta' \in StaRecord /\ sta'.state = "NONE"
    BY <2>1, StationStates DEF StaType, States
  <2> QED BY <2>1, <2>2 DEF StaType, LockInv, RetryInv, LockedPcs, UserPcs, NoBss, NoUser
<1>4. ASSUME skw_change_station PROVE StateInv'
  <2>1. /\ UNCHANGED <<user, peers, lock, queue, event, rd, recovery, asserted, fw, cfg>>
        /\ sta' = [sta EXCEPT !.state = "COMPLETED"]
    BY <1>4 DEF skw_change_station, restart, external
  <2>2. sta' \in StaRecord /\ sta'.state = "COMPLETED" /\ sta'.retry = sta.retry
    BY <2>1, StationStates DEF StaType, States
  <2> QED BY <2>1, <2>2 DEF StaType, LockInv, RetryInv
<1>5. ASSUME NEW id \in Reqs, Scan(id) PROVE StateInv'
  <2>1. /\ UNCHANGED <<sta, peers, lock, queue, event, rd, recovery, asserted, fw, cfg>>
        /\ user.pc = "idle" /\ user' = [NoUser EXCEPT !.pc = "scan_timer", !.arg = id]
    BY <1>5 DEF Scan, skw_cqm_bg_scan, restart
  <2> QED BY <2>1 DEF StaType, LockInv, RetryInv, LockedPcs, UserPcs, NoUser
<1> QED BY <1>1, <1>2, <1>3, <1>4, <1>5 DEF Request

\* Unjoined and the answer of a command leave the rest alone.
LEMMA UnjoinedEffect ==
  ASSUME StaType, NEW b, NEW ok \in BOOLEAN, NEW s \in StaRecord, Unjoined(b, ok, s)
  PROVE  /\ sta' \in StaRecord /\ peers' \in PeersType /\ fw' \in FwRecord
         /\ sta'.state = s.state /\ sta'.retry = s.retry
BY UnjoinEffect DEF Unjoined

LEMMA UserTypes ==
  ASSUME Inv, StateInv, UserStep
  PROVE  StateInv'
<1> USE DEF StateInv
<1>0. user = [pc |-> user.pc, arg |-> user.arg, roam |-> user.roam]
  BY DEF Inv, UserInv
<1>1. ASSUME NEW ok \in BOOLEAN, auth_unjoin(ok) PROVE StateInv'
  <2>1. /\ UNCHANGED <<queue, event, rd, recovery, asserted, cfg>>
        /\ user.pc = "auth_unjoin" /\ Unjoined(sta.bss, ok, sta)
    BY <1>1 DEF auth_unjoin, restart
  <2>2. /\ sta' \in StaRecord /\ peers' \in PeersType /\ fw' \in FwRecord
        /\ sta'.state = sta.state /\ sta'.retry = sta.retry
    BY <2>1, UnjoinedEffect DEF StaType
  <2>3. \/ user'.pc \in {"auth_unjoin", "auth_join"} /\ user'.arg = user.arg /\ UNCHANGED lock
        \/ user' = NoUser /\ lock' = NoBss
    BY <1>0, <1>1 DEF auth_unjoin, Done
  <2> QED BY <2>1, <2>2, <2>3 DEF StaType, LockInv, RetryInv, LockedPcs, UserPcs, NoUser, NoBss
<1>2. ASSUME NEW ok \in BOOLEAN, auth_join(ok) PROVE StateInv'
  <2>1. /\ UNCHANGED <<queue, event, rd, recovery, asserted, cfg>> /\ user.pc = "auth_join"
    BY <1>2 DEF auth_join, restart
  <2>2. CASE ok
    <3>1. /\ skw_join(user.arg, Started(sta, "AUTHING"))
          /\ user' = [user EXCEPT !.pc = "auth_cmd"] /\ UNCHANGED lock
      BY <1>2, <2>2 DEF auth_join, User
    <3>2. Started(sta, "AUTHING") \in StaRecord /\ Started(sta, "AUTHING").retry = 0
      BY StationStates DEF StaType, States
    <3>3. user.arg \in Bss
      BY <2>1 DEF LockInv, LockedPcs, UserPcs
    <3>4. /\ sta' \in StaRecord /\ peers' \in PeersType /\ fw' \in FwRecord /\ sta'.retry = 0
      BY <3>1, <3>2, <3>3, JoinEffect
    <3>5. user'.pc = "auth_cmd" /\ user'.arg = user.arg
      BY <1>0, <3>1
    <3> QED BY <2>1, <3>1, <3>3, <3>4, <3>5, StaAssumption
            DEF StaType, LockInv, RetryInv, LockedPcs, UserPcs, NoBss
  <2>3. CASE ~ok
    <3>1. UNCHANGED <<sta, peers, fw>> /\ user' = NoUser /\ lock' = NoBss
      BY <1>2, <2>3 DEF auth_join, Done
    <3> QED BY <2>1, <3>1 DEF StaType, LockInv, RetryInv, LockedPcs, UserPcs, NoUser, NoBss
  <2> QED BY <2>2, <2>3
<1>3. ASSUME NEW ok \in BOOLEAN, NEW confirm \in BOOLEAN, skw_cmd_auth(ok, confirm) PROVE StateInv'
  <2>1. /\ UNCHANGED <<peers, queue, event, rd, recovery, asserted, cfg>> /\ user.pc = "auth_cmd"
    BY <1>3 DEF skw_cmd_auth, restart
  <2>2. sta.retry < MaxRetry /\ user.arg \in Bss
    BY <2>1 DEF RetryInv, LockInv, LockedPcs, UserPcs
  <2>3. CASE ok
    <3>1. /\ sta' = [sta EXCEPT !.pending = "AUTH",
                                !.state = IF confirm /\ sta.sae THEN "AUTHED" ELSE @]
          /\ fw' = [fw EXCEPT !.air = @ \cup {<<"auth", user.arg>>}]
          /\ user' = NoUser /\ lock' = NoBss
      BY <1>3, <2>3 DEF skw_cmd_auth, Done
    <3>2. sta' \in StaRecord /\ sta'.retry = sta.retry
      BY <3>1 DEF StaType, StaRecord, States
    <3>3. fw' \in FwRecord
      BY <2>2, <3>1 DEF StaType, FwRecord, Items, Addrs
    <3> QED BY <2>1, <2>2, <3>1, <3>2, <3>3
            DEF StaType, LockInv, RetryInv, LockedPcs, UserPcs, NoUser, NoBss
  <2>4. CASE ~ok
    <3>1. /\ sta' = [sta EXCEPT !.pending = "AUTH", !.timer = FALSE]
          /\ user' = [user EXCEPT !.pc = "failed"]
          /\ UNCHANGED <<fw, lock>>
      BY <1>3, <2>4 DEF skw_cmd_auth, User
    <3>2. sta' \in StaRecord /\ sta'.retry = sta.retry /\ sta'.state = sta.state
      BY <3>1 DEF StaType, StaRecord
    <3>3. user'.pc = "failed" /\ user'.arg = user.arg
      BY <1>0, <3>1
    <3> QED BY <2>1, <2>2, <3>1, <3>2, <3>3
            DEF StaType, LockInv, RetryInv, LockedPcs, UserPcs, NoUser, NoBss
  <2> QED BY <2>3, <2>4
<1>4. ASSUME NEW ok \in BOOLEAN, auth_failed(ok) PROVE StateInv'
  <2>1. /\ UNCHANGED <<queue, event, rd, recovery, asserted, cfg>> /\ user.pc = "failed"
        /\ Unjoined(user.arg, ok, [sta EXCEPT !.state = "NONE"])
        /\ user' = NoUser /\ lock' = NoBss
    BY <1>4 DEF auth_failed, restart, Done
  <2>2. [sta EXCEPT !.state = "NONE"] \in StaRecord /\ [sta EXCEPT !.state = "NONE"].state = "NONE"
    BY StationStates DEF StaType, States
  <2>3. /\ sta' \in StaRecord /\ peers' \in PeersType /\ fw' \in FwRecord
        /\ sta'.state = "NONE"
    BY <2>1, <2>2, UnjoinedEffect
  <2> QED BY <2>1, <2>3 DEF StaType, LockInv, RetryInv, LockedPcs, UserPcs, NoUser, NoBss
<1>5. ASSUME NEW ok \in BOOLEAN, assoc_unjoin(ok) PROVE StateInv'
  <2>1. /\ UNCHANGED <<queue, event, rd, recovery, asserted, cfg>>
        /\ user.pc = "assoc_unjoin" /\ Unjoined(sta.bss, ok, sta)
    BY <1>5 DEF assoc_unjoin, restart
  <2>2. /\ sta' \in StaRecord /\ peers' \in PeersType /\ fw' \in FwRecord
        /\ sta'.state = sta.state /\ sta'.retry = sta.retry
    BY <2>1, UnjoinedEffect DEF StaType
  <2>3. \/ user'.pc = "assoc_join" /\ user'.arg = user.arg /\ UNCHANGED lock
        \/ user' = NoUser /\ lock' = NoBss
    BY <1>0, <1>5 DEF assoc_unjoin, Done, User
  <2> QED BY <2>1, <2>2, <2>3 DEF StaType, LockInv, RetryInv, LockedPcs, UserPcs, NoUser, NoBss
<1>6. ASSUME NEW ok \in BOOLEAN, assoc_join(ok) PROVE StateInv'
  <2>1. /\ UNCHANGED <<queue, event, rd, recovery, asserted, cfg>> /\ user.pc = "assoc_join"
    BY <1>6 DEF assoc_join, restart
  <2>2. CASE ok
    <3>1. /\ skw_join(user.arg, Started(sta, "ASSOCING"))
          /\ user' = [user EXCEPT !.pc = "assoc_cmd"] /\ UNCHANGED lock
      BY <1>6, <2>2 DEF assoc_join, User
    <3>2. Started(sta, "ASSOCING") \in StaRecord /\ Started(sta, "ASSOCING").retry = 0
      BY StationStates DEF StaType, States
    <3>3. user.arg \in Bss
      BY <2>1 DEF LockInv, LockedPcs, UserPcs
    <3>4. /\ sta' \in StaRecord /\ peers' \in PeersType /\ fw' \in FwRecord /\ sta'.retry = 0
      BY <3>1, <3>2, <3>3, JoinEffect
    <3>5. user'.pc = "assoc_cmd" /\ user'.arg = user.arg
      BY <1>0, <3>1
    <3> QED BY <2>1, <3>1, <3>3, <3>4, <3>5, StaAssumption
            DEF StaType, LockInv, RetryInv, LockedPcs, UserPcs, NoBss
  <2>3. CASE ~ok
    <3>1. UNCHANGED <<sta, peers, fw>> /\ user' = NoUser /\ lock' = NoBss
      BY <1>6, <2>3 DEF assoc_join, Done
    <3> QED BY <2>1, <3>1 DEF StaType, LockInv, RetryInv, LockedPcs, UserPcs, NoUser, NoBss
  <2> QED BY <2>2, <2>3
<1>7. ASSUME NEW ok \in BOOLEAN, skw_cmd_assoc(ok) PROVE StateInv'
  <2>1. /\ UNCHANGED <<peers, queue, event, rd, recovery, asserted, cfg>> /\ user.pc = "assoc_cmd"
    BY <1>7 DEF skw_cmd_assoc, restart
  <2>2. sta.retry < MaxRetry /\ user.arg \in Bss
    BY <2>1 DEF RetryInv, LockInv, LockedPcs, UserPcs
  <2>3. CASE ok
    <3>1. /\ sta' = [sta EXCEPT !.pending = "ASSOC"]
          /\ fw' = [fw EXCEPT !.air = @ \cup {<<"assoc", user.arg>>}]
          /\ user' = NoUser /\ lock' = NoBss
      BY <1>7, <2>3 DEF skw_cmd_assoc, Done
    <3>2. sta' \in StaRecord /\ sta'.retry = sta.retry
      BY <3>1 DEF StaType, StaRecord
    <3>3. fw' \in FwRecord
      BY <2>2, <3>1 DEF StaType, FwRecord, Items, Addrs
    <3> QED BY <2>1, <2>2, <3>1, <3>2, <3>3
            DEF StaType, LockInv, RetryInv, LockedPcs, UserPcs, NoUser, NoBss
  <2>4. CASE ~ok
    <3>1. /\ sta' = [sta EXCEPT !.pending = "ASSOC", !.timer = FALSE]
          /\ user' = [user EXCEPT !.pc = "failed"]
          /\ UNCHANGED <<fw, lock>>
      BY <1>7, <2>4 DEF skw_cmd_assoc, User
    <3>2. sta' \in StaRecord /\ sta'.retry = sta.retry /\ sta'.state = sta.state
      BY <3>1 DEF StaType, StaRecord
    <3>3. user'.pc = "failed" /\ user'.arg = user.arg
      BY <1>0, <3>1
    <3> QED BY <2>1, <2>2, <3>1, <3>2, <3>3
            DEF StaType, LockInv, RetryInv, LockedPcs, UserPcs, NoUser, NoBss
  <2> QED BY <2>3, <2>4
<1>8. ASSUME NEW ok \in BOOLEAN, deauth_unjoin(ok) PROVE StateInv'
  <2>1. /\ UNCHANGED <<queue, event, rd, recovery, asserted>> /\ user.pc = "deauth"
        /\ Unjoined(user.arg, ok, sta) /\ Tell(user.arg)
        /\ user' = NoUser /\ lock' = NoBss
    BY <1>8 DEF deauth_unjoin, restart, Done
  <2>2. /\ sta' \in StaRecord /\ peers' \in PeersType /\ fw' \in FwRecord
        /\ sta'.state = sta.state /\ sta'.retry = sta.retry /\ cfg' \in CfgRecord
    BY <2>1, UnjoinedEffect, TellType DEF StaType
  <2> QED BY <2>1, <2>2 DEF StaType, LockInv, RetryInv, LockedPcs, UserPcs, NoUser, NoBss
<1>9. ASSUME NEW ok \in BOOLEAN, ScanCmd(ok) PROVE StateInv'
  <2>1. /\ UNCHANGED <<sta, peers, cfg, lock, queue, event, rd, recovery, asserted>>
        /\ fw' = IF ok THEN [fw EXCEPT !.air = @ \cup {<<"scan_done", NoBss>>}] ELSE fw
        /\ user.pc = "scan_cmd" /\ user' = NoUser
    BY <1>9 DEF ScanCmd, scan_cmd, link, restart
  <2>2. fw' \in FwRecord
    BY <2>1 DEF StaType, FwRecord, Items, Addrs
  <2> QED BY <2>1, <2>2 DEF StaType, LockInv, RetryInv, LockedPcs, UserPcs, NoUser
<1>10. ASSUME ScanTimer PROVE StateInv'
  <2>1. /\ UNCHANGED <<sta, peers, cfg, lock, queue, event, rd, recovery, asserted, fw>>
        /\ user.pc = "scan_timer" /\ user'.pc = "scan_cmd"
    BY <1>0, <1>10 DEF ScanTimer, scan_timer, link, restart, external
  <2> QED BY <2>1 DEF StaType, LockInv, RetryInv, LockedPcs, UserPcs
<1> QED BY <1>1, <1>2, <1>3, <1>4, <1>5, <1>6, <1>7, <1>8, <1>9, <1>10 DEF UserStep

LEMMA HandlesTypes ==
  ASSUME StaType, NEW what, NEW b, Handles(what, b)
  PROVE  queue' \in Seq(Items) /\ Len(queue') <= MaxQueue
<1>1. queue \in Seq(Items) /\ queue # <<>> /\ queue' = Tail(queue)
  BY DEF StaType, Handles
<1>2. Tail(queue) \in Seq(Items) /\ Len(Tail(queue)) = Len(queue) - 1 /\ Len(queue) \in Nat
  BY <1>1, HeadTailProperties, LenProperties
<1> QED BY <1>1, <1>2, StaAssumption DEF StaType

LEMMA EventTypes ==
  ASSUME Inv, StateInv, EventStep \/ StaTimer
  PROVE  StateInv'
<1> USE DEF StateInv
<1>1. ASSUME NEW ok \in BOOLEAN, leave_unjoin(ok) PROVE StateInv'
  <2>1. /\ UNCHANGED <<user, queue, rd, recovery, asserted>> /\ event.pc = "leave"
        /\ Unjoined(event.bss, ok, [sta EXCEPT !.sae = (event.tell = "confirm")])
        /\ event' = NoEvent /\ lock' = NoBss
        /\ Tell(event.bss) \/ cfg' = [cfg EXCEPT !.auth = NoBss] \/ UNCHANGED cfg
    BY <1>1 DEF leave_unjoin, restart, StaType, EventRecord
  <2>2. [sta EXCEPT !.sae = (event.tell = "confirm")] \in StaRecord
    BY DEF StaType, StaRecord
  <2>3. /\ [sta EXCEPT !.sae = (event.tell = "confirm")].state = sta.state
        /\ [sta EXCEPT !.sae = (event.tell = "confirm")].retry = sta.retry
    BY DEF StaType, StaRecord
  <2>4. /\ sta' \in StaRecord /\ peers' \in PeersType /\ fw' \in FwRecord
        /\ sta'.state = sta.state /\ sta'.retry = sta.retry
    BY <2>1, <2>2, <2>3, UnjoinedEffect
  <2>5. cfg' \in CfgRecord
    <3>1. cfg' = [cfg EXCEPT !.auth = NoBss] => cfg' \in CfgRecord
      BY DEF StaType, CfgRecord, Addrs
    <3> QED BY <2>1, <3>1, TellType DEF StaType
  <2>6. NoEvent \in EventRecord
    BY DEF NoEvent, EventRecord, Addrs
  <2> QED BY <2>1, <2>4, <2>5, <2>6 DEF StaType, LockInv, RetryInv, NoEvent, NoBss
<1>2. ASSUME NEW ok \in BOOLEAN, sta_resent(ok) PROVE StateInv'
  <2>1. /\ UNCHANGED <<user, queue, peers, rd, recovery, asserted, cfg>> /\ event.pc = "resend"
        /\ lock = "event" /\ user.pc \notin LockedPcs
    BY <1>2 DEF sta_resent, restart, LockInv
  <2>2. fw' \in FwRecord
    <3>1. {<<IF sta.pending = "AUTH" THEN "auth" ELSE "assoc", sta.bss>>} \subseteq Items
      BY DEF StaType, StaRecord, Items
    <3> DEFINE new == {<<IF sta.pending = "AUTH" THEN "auth" ELSE "assoc", sta.bss>>}
    <3>2. fw' = [fw EXCEPT !.air = @ \cup new] \/ fw' = fw
      BY <1>2 DEF sta_resent
    <3> HIDE DEF new
    <3>3. new \subseteq Items
      BY <3>1 DEF new
    <3> QED BY <3>2, <3>3 DEF StaType, FwRecord
  <2>3. CASE /\ sta' = [sta EXCEPT !.timer = TRUE, !.fresh = FALSE]
             /\ lock' = NoBss
             /\ event' = NoEvent
    <3>1. sta' \in StaRecord /\ sta'.state = sta.state /\ sta'.retry = sta.retry
      BY <2>3 DEF StaType, StaRecord
    <3>2. NoEvent \in EventRecord
      BY DEF NoEvent, EventRecord, Addrs
    <3> QED BY <2>1, <2>2, <2>3, <3>1, <3>2 DEF StaType, LockInv, RetryInv, NoEvent, NoBss
  <2>4. CASE /\ sta' = Leaving(sta)
             /\ Leave(sta.bss, "timeout")
    <3>1. sta' \in StaRecord /\ sta'.state = "NONE"
      BY <2>4, StationStates DEF StaType, States
    <3>2. event' \in EventRecord /\ event'.pc = "leave" /\ lock' = "event"
      BY <2>4 DEF Leave, EventRecord, StaType, StaRecord
    <3> QED BY <2>1, <2>2, <3>1, <3>2 DEF StaType, LockInv, RetryInv, LockedPcs, UserPcs
  <2> QED BY <1>2, <2>3, <2>4 DEF sta_resent
<1>3. ASSUME NEW ok \in BOOLEAN, disconnect_unjoin(ok) PROVE StateInv'
  <2>1. /\ UNCHANGED <<user, queue, lock, rd, recovery, asserted>> /\ event.pc = "disconnect"
        /\ Unjoined(event.bss, ok, sta) /\ Tell(event.bss) /\ event' = NoEvent
    BY <1>3 DEF disconnect_unjoin, restart
  <2>2. /\ sta' \in StaRecord /\ peers' \in PeersType /\ fw' \in FwRecord
        /\ sta'.state = sta.state /\ sta'.retry = sta.retry /\ cfg' \in CfgRecord
    BY <2>1, UnjoinedEffect, TellType DEF StaType
  <2>3. NoEvent \in EventRecord
    BY DEF NoEvent, EventRecord, Addrs
  <2> QED BY <2>1, <2>2, <2>3 DEF StaType, LockInv, RetryInv, NoEvent
<1>4. ASSUME NEW elapsed \in BOOLEAN, NEW late \in BOOLEAN, sta_work(elapsed, late) PROVE StateInv'
  <2>1. /\ UNCHANGED <<user, queue, peers, rd, recovery, asserted, cfg, fw>>
        /\ event.pc = "idle" /\ lock = NoBss
    BY <1>4 DEF sta_work, restart, external
  <2> DEFINE s     == [sta EXCEPT !.work = FALSE]
             retry == sta.retry + 1
             tries == sta.state \in {"AUTHING", "AUTHED", "ASSOCING"}
             sae   == sta.state = "AUTHED" /\ sta.sae
             counted == IF tries /\ ~sae /\ elapsed THEN [s EXCEPT !.retry = retry] ELSE s
  <2>2. s \in StaRecord /\ s.state = sta.state /\ s.retry = sta.retry
    BY DEF StaType, StaRecord
  <2>3. sta.retry \in 0 .. MaxRetry /\ MaxRetry \in Nat /\ (tries => sta.retry < MaxRetry)
    BY StaAssumption DEF StaType, StaRecord, RetryInv
  <2>4. counted \in StaRecord /\ counted.state = sta.state
        /\ counted.retry = IF tries /\ ~sae /\ elapsed THEN retry ELSE sta.retry
    <3>1. CASE tries /\ ~sae /\ elapsed
      <4>1. retry \in 0 .. MaxRetry
        BY <2>3, <3>1
      <4>2. counted = [s EXCEPT !.retry = retry]
        BY <3>1
      <4> HIDE DEF s, retry, counted
      <4>3. counted \in StaRecord /\ counted.state = s.state /\ counted.retry = retry
        BY <2>2, <4>1, <4>2 DEF StaRecord
      <4> QED BY <2>2, <3>1, <4>3
    <3>2. CASE ~(tries /\ ~sae /\ elapsed)
      BY <2>2, <3>2
    <3> QED BY <3>1, <3>2
  <2>5. \/ sta' = s /\ UNCHANGED <<lock, event>> /\ ~tries
        \/ /\ tries /\ ~sae /\ elapsed /\ retry < MaxRetry
           /\ sta' = [counted EXCEPT !.state = IF @ = "AUTHED" THEN "AUTHING" ELSE @]
           /\ lock' = "event"
           /\ event' = [pc |-> "resend", bss |-> sta.bss, tell |-> IF late THEN "late" ELSE "nothing"]
        \/ /\ sta' = Leaving(counted)
           /\ Leave(sta.bss, "timeout")
        \/ /\ tries /\ ~(elapsed /\ ~sae /\ retry < MaxRetry) /\ ~(elapsed /\ retry >= MaxRetry)
           /\ sta' = [counted EXCEPT !.timer = TRUE, !.fresh = FALSE]
           /\ UNCHANGED <<lock, event>>
    BY <1>4 DEF sta_work
  <2> HIDE DEF s, retry, counted
  <2>6. CASE sta' = s /\ UNCHANGED <<lock, event>>
    BY <2>1, <2>2, <2>6 DEF StaType, LockInv, RetryInv
  <2>7. CASE /\ tries /\ ~sae /\ elapsed /\ retry < MaxRetry
             /\ sta' = [counted EXCEPT !.state = IF @ = "AUTHED" THEN "AUTHING" ELSE @]
             /\ lock' = "event"
             /\ event' = [pc |-> "resend", bss |-> sta.bss, tell |-> IF late THEN "late" ELSE "nothing"]
    <3>1. sta' \in StaRecord /\ sta'.retry = counted.retry
      BY <2>4, <2>7 DEF StaRecord, States
    <3>2. event' \in EventRecord /\ event'.pc = "resend"
      BY <2>7 DEF EventRecord, StaType, StaRecord
    <3> QED BY <2>1, <2>4, <2>7, <3>1, <3>2 DEF StaType, LockInv, RetryInv, LockedPcs, UserPcs, NoBss
  <2>8. CASE sta' = Leaving(counted) /\ Leave(sta.bss, "timeout")
    <3>1. sta' \in StaRecord /\ sta'.state = "NONE"
      BY <2>4, <2>8, StationStates DEF StaType, States
    <3>2. event' \in EventRecord /\ event'.pc = "leave" /\ lock' = "event"
      BY <2>8 DEF Leave, EventRecord, StaType, StaRecord
    <3> QED BY <2>1, <3>1, <3>2 DEF StaType, LockInv, RetryInv, LockedPcs, UserPcs, NoBss
  <2>9. CASE /\ tries /\ ~(elapsed /\ ~sae /\ retry < MaxRetry) /\ ~(elapsed /\ retry >= MaxRetry)
             /\ sta' = [counted EXCEPT !.timer = TRUE, !.fresh = FALSE]
             /\ UNCHANGED <<lock, event>>
    <3>1. sta' \in StaRecord /\ sta'.retry = counted.retry /\ sta'.state = counted.state
      BY <2>4, <2>9 DEF StaRecord
    <3>2. retry \in Int
      BY <2>3 DEF retry
    <3>3. ~(tries /\ ~sae /\ elapsed)
      BY <2>3, <2>9, <3>2
    <3> QED BY <2>1, <2>3, <2>4, <2>9, <3>1, <3>3 DEF StaType, LockInv, RetryInv, LockedPcs, UserPcs, NoBss
  <2> QED BY <2>5, <2>6, <2>7, <2>8, <2>9
<1>5. ASSUME NEW b \in Bss, NEW what \in {"auth", "confirm", "auth_fail", "confirm_fail"},
             skw_sta_rx_auth(what, b)
      PROVE StateInv'
  <2>1. /\ UNCHANGED <<user, peers, rd, recovery, asserted, fw>> /\ lock = NoBss
        /\ event.pc = "idle" /\ Handles(what, b)
    BY <1>5 DEF skw_sta_rx_auth, restart, external, Handles
  <2>2. queue' \in Seq(Items) /\ Len(queue') <= MaxQueue
    BY <2>1, HandlesTypes
  <2> DEFINE s == [sta EXCEPT !.state = "AUTHED", !.fresh = TRUE, !.retry = 0]
  <2>3. s \in StaRecord /\ s.retry = 0 /\ 0 < MaxRetry /\ b \in Addrs
    <3>1. 0 \in 0 .. MaxRetry /\ 0 < MaxRetry /\ b \in Addrs /\ "AUTHED" \in States
      BY StaAssumption DEF States, Addrs
    <3> QED BY <3>1 DEF StaType, StaRecord
  <2>4. \/ UNCHANGED <<sta, cfg, lock, event>>
        \/ /\ sta' = Leaving(s) /\ UNCHANGED cfg
           /\ Leave(b, IF what = "confirm_fail" THEN "confirm" ELSE "nothing")
        \/ /\ sta' = [s EXCEPT !.sae = @ \/ what = "confirm"]
           /\ cfg' = [cfg EXCEPT !.auth = b]
           /\ UNCHANGED <<lock, event>>
    BY <1>5 DEF skw_sta_rx_auth
  <2> HIDE DEF s
  <2>5. CASE UNCHANGED <<sta, cfg, lock, event>>
    BY <2>1, <2>2, <2>5 DEF StaType, LockInv, RetryInv
  <2>6. CASE /\ sta' = Leaving(s) /\ UNCHANGED cfg
             /\ Leave(b, IF what = "confirm_fail" THEN "confirm" ELSE "nothing")
    <3>1. sta' \in StaRecord /\ sta'.state = "NONE"
      BY <2>3, <2>6, StationStates DEF States
    <3>2. event' \in EventRecord /\ event'.pc = "leave" /\ lock' = "event"
      BY <2>3, <2>6 DEF Leave, EventRecord
    <3> QED BY <2>1, <2>2, <2>6, <3>1, <3>2 DEF StaType, LockInv, RetryInv, LockedPcs, UserPcs, NoBss
  <2>7. CASE /\ sta' = [s EXCEPT !.sae = @ \/ what = "confirm"]
             /\ cfg' = [cfg EXCEPT !.auth = b]
             /\ UNCHANGED <<lock, event>>
    <3>1. sta' \in StaRecord /\ sta'.retry = 0
      BY <2>3, <2>7 DEF StaRecord
    <3>2. cfg' \in CfgRecord
      BY <2>3, <2>7 DEF StaType, CfgRecord
    <3> QED BY <2>1, <2>2, <2>3, <2>7, <3>1, <3>2 DEF StaType, LockInv, RetryInv
  <2> QED BY <2>4, <2>5, <2>6, <2>7
<1>6. ASSUME NEW b \in Bss, NEW what \in {"assoc", "assoc_fail"}, skw_sta_rx_assoc(what, b)
      PROVE StateInv'
  <2>1. /\ UNCHANGED <<user, lock, event, rd, recovery, asserted, fw>> /\ lock = NoBss
        /\ Handles(what, b)
    BY <1>6 DEF skw_sta_rx_assoc, restart, external
  <2>2. queue' \in Seq(Items) /\ Len(queue') <= MaxQueue
    BY <2>1, HandlesTypes
  <2>3. \/ UNCHANGED <<sta, peers, cfg>>
        \/ /\ sta' = [sta EXCEPT !.state = "ASSOCED"] /\ sta.ctx # 0
           /\ peers' = [peers EXCEPT ![sta.ctx].open = TRUE]
           /\ cfg' = [conn |-> b, auth |-> b]
        \/ sta' = [sta EXCEPT !.state = "NONE"] /\ UNCHANGED <<peers, cfg>>
    BY <1>6 DEF skw_sta_rx_assoc
  <2>4. \A state \in {"ASSOCED", "NONE"} :
          /\ [sta EXCEPT !.state = state] \in StaRecord
          /\ [sta EXCEPT !.state = state].state = state
          /\ [sta EXCEPT !.state = state].retry = sta.retry
    <3>1. sta \in StaRecord /\ {"ASSOCED", "NONE"} \subseteq States
      BY DEF StaType, States
    <3> QED BY <3>1, StationStates
  <2>5. CASE UNCHANGED <<sta, peers, cfg>>
    BY <2>1, <2>2, <2>5 DEF StaType, LockInv, RetryInv
  <2>6. CASE /\ sta' = [sta EXCEPT !.state = "ASSOCED"] /\ sta.ctx # 0
             /\ peers' = [peers EXCEPT ![sta.ctx].open = TRUE]
             /\ cfg' = [conn |-> b, auth |-> b]
    <3>1. sta.ctx \in Ctxs
      BY <2>6 DEF StaType, StaRecord
    <3>2. peers' \in PeersType
      BY <2>6, <3>1 DEF StaType, PeersType
    <3>3. cfg' \in CfgRecord
      BY <2>6 DEF CfgRecord, Addrs
    <3> QED BY <2>1, <2>2, <2>4, <2>6, <3>2, <3>3 DEF StaType, LockInv, RetryInv
  <2>7. CASE sta' = [sta EXCEPT !.state = "NONE"] /\ UNCHANGED <<peers, cfg>>
    BY <2>1, <2>2, <2>4, <2>7 DEF StaType, LockInv, RetryInv
  <2> QED BY <2>3, <2>5, <2>6, <2>7
<1>7. ASSUME NEW b \in Bss, skw_sta_rx_deauth(b) PROVE StateInv'
  <2>1. /\ UNCHANGED <<user, peers, rd, recovery, asserted, fw, cfg>> /\ lock = NoBss
        /\ Handles("deauth", b)
    BY <1>7 DEF skw_sta_rx_deauth, restart, external
  <2>2. queue' \in Seq(Items) /\ Len(queue') <= MaxQueue
    BY <2>1, HandlesTypes
  <2>3. \/ UNCHANGED <<sta, lock, event>>
        \/ sta' = Leaving(sta) /\ Leave(b, "deauth")
    BY <1>7 DEF skw_sta_rx_deauth
  <2>4. CASE UNCHANGED <<sta, lock, event>>
    BY <2>1, <2>2, <2>4 DEF StaType, LockInv, RetryInv
  <2>5. CASE sta' = Leaving(sta) /\ Leave(b, "deauth")
    <3>1. sta' \in StaRecord /\ sta'.state = "NONE"
      BY <2>5, StationStates DEF StaType, States
    <3>2. event' \in EventRecord /\ event'.pc = "leave" /\ lock' = "event"
      BY <2>5 DEF Leave, EventRecord, Addrs
    <3> QED BY <2>1, <2>2, <3>1, <3>2 DEF StaType, LockInv, RetryInv, LockedPcs, UserPcs, NoBss
  <2> QED BY <2>3, <2>4, <2>5
<1>8. ASSUME NEW b \in Bss, skw_event_disconnect(b) PROVE StateInv'
  <2>1. /\ UNCHANGED <<user, peers, lock, rd, recovery, asserted, fw, cfg>>
        /\ Handles("disconnect", b) /\ event.pc = "idle"
        /\ sta' = Leaving(sta) /\ event' = [pc |-> "disconnect", bss |-> b, tell |-> "deauth"]
    BY <1>8 DEF skw_event_disconnect, restart, external, Handles
  <2>2. queue' \in Seq(Items) /\ Len(queue') <= MaxQueue
    BY <2>1, HandlesTypes
  <2>3. sta' \in StaRecord /\ sta'.state = "NONE" /\ sta'.retry = sta.retry
    BY <2>1, StationStates DEF StaType, States
  <2>4. event' \in EventRecord /\ event'.pc = "disconnect"
    BY <2>1 DEF EventRecord, Addrs
  <2> QED BY <2>1, <2>2, <2>3, <2>4 DEF StaType, LockInv, RetryInv
<1>9. ASSUME ScanEvent PROVE StateInv'
  <2>1. /\ UNCHANGED <<user, sta, peers, cfg, lock, event, rd, recovery, asserted, fw>>
        /\ \E what : Handles(what, NoBss)
    BY <1>9 DEF ScanEvent, link, restart, external
  <2>2. queue' \in Seq(Items) /\ Len(queue') <= MaxQueue
    BY <2>1, HandlesTypes
  <2> QED BY <2>1, <2>2 DEF StaType, LockInv, RetryInv
<1>10. ASSUME StaTimer PROVE StateInv'
  <2>1. /\ UNCHANGED <<user, peers, lock, queue, event, rd, recovery, asserted, fw, cfg>>
        /\ sta' = [sta EXCEPT !.timer = FALSE, !.work = TRUE]
    BY <1>10 DEF StaTimer, restart, external
  <2>2. sta' \in StaRecord /\ sta'.state = sta.state /\ sta'.retry = sta.retry
    BY <2>1 DEF StaType, StaRecord
  <2> QED BY <2>1, <2>2 DEF StaType, LockInv, RetryInv
<1> QED BY <1>1, <1>2, <1>3, <1>4, <1>5, <1>6, <1>7, <1>8, <1>9, <1>10 DEF EventStep

\* The peers still to replay are those that prepare took away; what has been
\* taken away has an address.
MapInv ==
  /\ recovery.map \subseteq rd.peer_map
  /\ recovery.pc \notin {"replay", "cancel", "unjoin"} => recovery.map = {}
  /\ recovery.pc \in {"cancel", "unjoin"} => recovery.map # {}
  /\ recovery.pc \notin {"idle", "scheduled"} => rd.recovering
  /\ rd.recovering => \A c \in rd.peer_map : rd.peer[c].addr # NoBss

LEMMA FirstBit ==
  ASSUME NEW S \in SUBSET Ctxs, S # {}
  PROVE  First(S) \in S
<1>1. S \in SUBSET (1 .. Cardinality(Ctxs)) /\ Cardinality(Ctxs) \in Nat
  BY Contexts
<1>2. \E c \in S : \A d \in S : c <= d
  BY <1>1, FirstPosition
<1> QED BY <1>2 DEF First

LEMMA RecoveryTypes ==
  ASSUME StateInv, MapInv, RecoveryStep
  PROVE  StateInv'
<1> USE DEF StateInv
<1>0. recovery = [pc |-> recovery.pc, ret |-> recovery.ret, map |-> recovery.map]
      /\ recovery \in RecoveryRecord /\ rd \in RdRecord
  BY DEF StaType, RecoveryRecord
<1>m. recovery.map # {} => First(recovery.map) \in Ctxs
  BY <1>0, FirstBit DEF RecoveryRecord
<1>1. ASSUME skw_recovery_prepare PROVE StateInv'
  <2>1. /\ UNCHANGED <<user, sta, lock, queue, event, asserted, fw, cfg>>
        /\ recovery' = [recovery EXCEPT !.pc = "enable"]
    BY <1>1 DEF skw_recovery_prepare, external, Recovers
  <2>2. \/ UNCHANGED <<rd, peers>>
        \/ /\ rd' = [recovering |-> TRUE,
                     peer |-> [c \in Ctxs |-> [addr |-> peers[c].addr, deauthed |-> FALSE]],
                     peer_map |-> {c \in Ctxs : peers[c].addr # NoBss}]
           /\ peers' = [c \in Ctxs |-> NoPeer]
    BY <1>1 DEF skw_recovery_prepare
  <2>3. recovery' \in RecoveryRecord
    BY <1>0, <2>1 DEF RecoveryRecord
  <2>4. rd' \in RdRecord /\ peers' \in PeersType
    <3>1. CASE UNCHANGED <<rd, peers>>
      BY <3>1 DEF StaType
    <3>2. CASE /\ rd' = [recovering |-> TRUE,
                         peer |-> [c \in Ctxs |-> [addr |-> peers[c].addr, deauthed |-> FALSE]],
                         peer_map |-> {c \in Ctxs : peers[c].addr # NoBss}]
               /\ peers' = [c \in Ctxs |-> NoPeer]
      <4>1. \A c \in Ctxs : peers[c].addr \in Addrs
        BY DEF StaType, PeersType
      <4>2. rd' \in RdRecord
        BY <3>2, <4>1 DEF RdRecord
      <4>3. peers' \in PeersType
        BY <3>2 DEF PeersType, NoPeer, Addrs
      <4> QED BY <4>2, <4>3
    <3> QED BY <2>2, <3>1, <3>2
  <2> QED BY <2>1, <2>3, <2>4 DEF StaType, LockInv, RetryInv
<1>2. ASSUME recovery_enable PROVE StateInv'
  <2>1. /\ UNCHANGED <<user, sta, peers, lock, queue, event, rd, fw, cfg>>
        /\ recovery' = [recovery EXCEPT !.pc = "calib"] /\ asserted' = FALSE
    BY <1>2 DEF recovery_enable, external, link, Recovers
  <2>2. recovery' \in RecoveryRecord /\ asserted' \in BOOLEAN
    BY <1>0, <2>1 DEF RecoveryRecord
  <2> QED BY <2>1, <2>2 DEF StaType, LockInv, RetryInv
<1>3. ASSUME recovery_calib PROVE StateInv'
  <2>1. /\ UNCHANGED <<user, sta, peers, lock, queue, event, rd, asserted, fw, cfg>>
        /\ recovery' = [recovery EXCEPT !.pc = "open", !.ret = fw.up /\ ~asserted]
    BY <1>3 DEF recovery_calib, external, link
  <2>2. recovery' \in RecoveryRecord
    BY <1>0, <2>1 DEF RecoveryRecord
  <2> QED BY <2>1, <2>2 DEF StaType, LockInv, RetryInv
<1>4. ASSUME NEW ok \in BOOLEAN, skw_cmd_open_dev(ok) PROVE StateInv'
  <2>1. UNCHANGED <<user, sta, peers, lock, queue, event, rd, cfg>>
    BY <1>4 DEF skw_cmd_open_dev, link
  <2>2. CASE asserted
    <3>1. recovery' = [recovery EXCEPT !.pc = "finish"] /\ UNCHANGED <<asserted, fw>>
      BY <1>4, <2>2 DEF skw_cmd_open_dev, Recovers
    <3>2. recovery' \in RecoveryRecord
      BY <1>0, <3>1 DEF RecoveryRecord
    <3> QED BY <2>1, <3>1, <3>2 DEF StaType, LockInv, RetryInv
  <2>3. CASE ~asserted
    <3>1. /\ asserted' = ~ok
          /\ recovery' = [pc  |-> IF ok /\ recovery.pc = "open" THEN "replay" ELSE "finish",
                          ret |-> ok,
                          map |-> IF ok /\ recovery.pc = "open" THEN rd.peer_map ELSE {}]
          /\ fw' = IF ok THEN [fw EXCEPT !.opened = TRUE] ELSE Dead
      BY <1>4, <2>3 DEF skw_cmd_open_dev
    <3>2. recovery' \in RecoveryRecord /\ asserted' \in BOOLEAN
      BY <1>0, <3>1 DEF RecoveryRecord, RdRecord
    <3>3. fw' \in FwRecord
      BY <3>1 DEF StaType, FwRecord, Dead, Addrs
    <3> QED BY <2>1, <3>2, <3>3 DEF StaType, LockInv, RetryInv
  <2> QED BY <2>2, <2>3
<1>5. ASSUME replay_peer PROVE StateInv'
  <2> DEFINE c == First(recovery.map)
  <2>1. UNCHANGED <<user, peers, lock, queue, event, asserted, fw, cfg>> /\ c \in Ctxs
    BY <1>5, <1>m DEF replay_peer, external
  <2>2. \/ /\ sta' = [sta EXCEPT !.timer = FALSE]
           /\ recovery' = [recovery EXCEPT !.pc = "cancel"]
           /\ UNCHANGED rd
        \/ /\ rd' = [rd EXCEPT !.peer[c].deauthed = TRUE]
           /\ recovery' = [recovery EXCEPT !.map = @ \ {c}]
           /\ UNCHANGED sta
    BY <1>5 DEF replay_peer, Recovers
  <2> HIDE DEF c
  <2>3. sta' \in StaRecord /\ sta'.state = sta.state /\ sta'.retry = sta.retry
    BY <2>2 DEF StaType, StaRecord
  <2>4. rd' \in RdRecord
    <3>1. CASE rd' = [rd EXCEPT !.peer[c].deauthed = TRUE]
      BY <1>0, <2>1, <3>1 DEF RdRecord
    <3> QED BY <1>0, <2>2, <3>1
  <2>5. recovery' \in RecoveryRecord
    BY <1>0, <2>2 DEF RecoveryRecord
  <2> QED BY <2>1, <2>3, <2>4, <2>5 DEF StaType, LockInv, RetryInv
<1>6. ASSUME replay_cancel PROVE StateInv'
  <2>1. /\ UNCHANGED <<user, peers, lock, queue, event, rd, asserted, fw, cfg>>
        /\ sta' = [sta EXCEPT !.work = FALSE]
        /\ recovery' = [recovery EXCEPT !.pc = "unjoin"]
    BY <1>6 DEF replay_cancel, external, Recovers
  <2>2. sta' \in StaRecord /\ sta'.state = sta.state /\ sta'.retry = sta.retry
    BY <2>1 DEF StaType, StaRecord
  <2>3. recovery' \in RecoveryRecord
    BY <1>0, <2>1 DEF RecoveryRecord
  <2> QED BY <2>1, <2>2, <2>3 DEF StaType, LockInv, RetryInv
<1>7. ASSUME replay_unjoin PROVE StateInv'
  <2>0. recovery.map # {}
    BY <1>7 DEF replay_unjoin, MapInv
  <2> DEFINE c == First(recovery.map)
             b == rd.peer[c].addr
  <2>1. /\ UNCHANGED <<user, peers, lock, queue, event, asserted>> /\ c \in Ctxs
        /\ sta' = [sta EXCEPT !.state = "NONE", !.bss = NoBss, !.ctx = 0]
        /\ \/ fw' = [fw EXCEPT !.peers = [d \in Ctxs |-> IF @[d] = b THEN NoBss ELSE @[d]]]
           \/ fw' = fw
        /\ Tell(b)
        /\ rd' = [rd EXCEPT !.peer[c].deauthed = TRUE]
        /\ recovery' = [recovery EXCEPT !.pc = "replay", !.map = @ \ {c}]
    BY <1>7, <1>m, <2>0 DEF replay_unjoin
  <2> HIDE DEF c, b
  <2>2. sta' \in StaRecord /\ sta'.state = "NONE" /\ sta'.retry = sta.retry
    BY <2>1 DEF StaType, StaRecord, States, Addrs
  <2>3. rd' \in RdRecord
    BY <1>0, <2>1 DEF RdRecord
  <2>4. recovery' \in RecoveryRecord
    BY <1>0, <2>1 DEF RecoveryRecord
  <2>5. fw' \in FwRecord
    BY <2>1 DEF StaType, FwRecord, Addrs
  <2>6. cfg' \in CfgRecord
    BY <2>1, TellType
  <2> QED BY <2>1, <2>2, <2>3, <2>4, <2>5, <2>6 DEF StaType, LockInv, RetryInv
<1>8. ASSUME recovery_finish PROVE StateInv'
  <2>1. /\ UNCHANGED <<user, sta, peers, lock, queue, event, asserted, fw, cfg>>
        /\ rd' = IF recovery.ret THEN [NoRecovery EXCEPT !.peer_map = rd.peer_map] ELSE rd
        /\ recovery' = [recovery EXCEPT !.pc = "idle"]
    BY <1>8 DEF recovery_finish, link, external
  <2>2. rd' \in RdRecord
    BY <1>0, <2>1 DEF RdRecord, NoRecovery, Addrs
  <2>3. recovery' \in RecoveryRecord
    BY <1>0, <2>1 DEF RecoveryRecord
  <2> QED BY <2>1, <2>2, <2>3 DEF StaType, LockInv, RetryInv
<1> QED BY <1>1, <1>2, <1>3, <1>4, <1>5, <1>6, <1>7, <1>8 DEF RecoveryStep

LEMMA PushTypes ==
  ASSUME StaType, NEW what, NEW b, <<what, b>> \in Items, Push(what, b)
  PROVE  queue' \in Seq(Items) /\ Len(queue') <= MaxQueue
<1>1. queue \in Seq(Items) /\ Len(queue) \in Nat /\ Len(queue) < MaxQueue
      /\ queue' = Append(queue, <<what, b>>)
  BY LenProperties DEF StaType, Push
<1>2. queue' \in Seq(Items) /\ Len(queue') = Len(queue) + 1
  BY <1>1, AppendProperties
<1> QED BY <1>1, <1>2, StaAssumption

LEMMA FwTypes ==
  ASSUME StateInv, FwStep
  PROVE  StateInv'
<1> USE DEF StateInv
<1>1. ASSUME NEW what \in {"auth", "assoc", "scan_done"}, NEW b \in Addrs, NEW again \in BOOLEAN,
             Answered(what, b, again)
      PROVE StateInv'
  <2>1. UNCHANGED <<user, sta, peers, cfg, lock, event, rd, recovery, asserted>>
    BY <1>1 DEF Answered, link, restart
  <2>2. PICK answer \in Answers(what) :
          /\ Push(answer, b)
          /\ fw' = [fw EXCEPT !.air = @ \ {<<what, b>>},
                              !.again = IF again THEN @ \cup {<<answer, b>>} ELSE @]
    BY <1>1 DEF Answered
  <2>3. <<answer, b>> \in Items
    BY <2>2 DEF Answers, Items
  <2>4. queue' \in Seq(Items) /\ Len(queue') <= MaxQueue
    BY <2>2, <2>3, PushTypes
  <2>5. fw' \in FwRecord
    BY <2>2, <2>3 DEF StaType, FwRecord
  <2> QED BY <2>1, <2>4, <2>5 DEF StaType, LockInv, RetryInv
<1>2. ASSUME NEW item \in fw.again, AnsweredAgain(item[1], item[2]) PROVE StateInv'
  <2>1. /\ UNCHANGED <<user, sta, peers, cfg, lock, event, rd, recovery, asserted>>
        /\ Push(item[1], item[2]) /\ fw' = [fw EXCEPT !.again = @ \ {<<item[1], item[2]>>}]
    BY <1>2 DEF AnsweredAgain, link, restart
  <2>2. <<item[1], item[2]>> \in Items
    BY DEF StaType, FwRecord, Items
  <2>3. queue' \in Seq(Items) /\ Len(queue') <= MaxQueue
    BY <2>1, <2>2, PushTypes
  <2>4. fw' \in FwRecord
    BY <2>1 DEF StaType, FwRecord
  <2> QED BY <2>1, <2>3, <2>4 DEF StaType, LockInv, RetryInv
<1>3. ASSUME NEW what \in {"deauth", "disconnect", "cqm"}, NEW b \in Addrs, Unasked(what, b)
      PROVE StateInv'
  <2>1. /\ UNCHANGED <<user, sta, peers, cfg, lock, event, rd, recovery, asserted>>
        /\ Push(what, b)
        /\ \/ fw' = [fw EXCEPT !.peers = [c \in Ctxs |-> IF @[c] = b THEN NoBss ELSE @[c]]]
           \/ fw' = fw
    BY <1>3 DEF Unasked, link, restart
  <2>2. <<what, b>> \in Items
    BY DEF Items
  <2>3. queue' \in Seq(Items) /\ Len(queue') <= MaxQueue
    BY <2>1, <2>2, PushTypes
  <2>4. fw' \in FwRecord
    BY <2>1 DEF StaType, FwRecord, Addrs
  <2> QED BY <2>1, <2>3, <2>4 DEF StaType, LockInv, RetryInv
<1>4. ASSUME FwDies PROVE StateInv'
  <2>1. /\ UNCHANGED <<user, sta, peers, cfg, lock, queue, event, rd>>
        /\ fw' = Dead /\ asserted' = TRUE
        /\ recovery' = IF recovery.pc = "scheduled" THEN [recovery EXCEPT !.pc = "idle"] ELSE recovery
    BY <1>4 DEF FwDies, link
  <2>2. fw' \in FwRecord /\ asserted' \in BOOLEAN
    BY <2>1 DEF FwRecord, Dead, Addrs
  <2>3. recovery' \in RecoveryRecord
    BY <2>1 DEF StaType, RecoveryRecord
  <2> QED BY <2>1, <2>2, <2>3 DEF StaType, LockInv, RetryInv
<1>5. ASSUME FwReady PROVE StateInv'
  <2>1. /\ UNCHANGED <<user, sta, peers, cfg, lock, queue, event, rd, asserted>>
        /\ fw' = [fw EXCEPT !.up = TRUE]
        /\ recovery' = [recovery EXCEPT !.pc = "scheduled"]
    BY <1>5 DEF FwReady, link, Recovers
  <2>2. fw' \in FwRecord
    BY <2>1 DEF StaType, FwRecord
  <2>3. recovery' \in RecoveryRecord
    BY <2>1 DEF StaType, RecoveryRecord
  <2> QED BY <2>1, <2>2, <2>3 DEF StaType, LockInv, RetryInv
<1>6. NoBss \in Addrs /\ Bss \subseteq Addrs
  BY DEF Addrs
<1> QED BY <1>1, <1>2, <1>3, <1>4, <1>5, <1>6 DEF FwStep

\* The steps of the timers, the worker and time leave the station alone.
LEMMA OwnTypes ==
  ASSUME StateInv, Timers_ \/ Work \/ TimePasses
  PROVE  StateInv'
<1>1. UNCHANGED <<user, sta, peers, cfg, lock, queue, event, rd, recovery, asserted, fw>>
  BY DEF Timers_, TimerStep, skw_scan_timeout, skw_cqm_scan_timeout, Work, skw_work, TimePasses,
         link, restart, external
<1> QED BY <1>1 DEF StateInv, StaType, LockInv, RetryInv
-----------------------------------------------------------------------------
(* What a step does to the station's address and context and to its peers. *)

Address(b, c) == sta'.bss = b /\ sta'.ctx = c
LinkStays == Address(sta.bss, sta.ctx) /\ UNCHANGED peers
Leaves ==
  \E c \in Ctxs :
    /\ peers[c].addr # NoBss
    /\ \/ Address(NoBss, 0) /\ peers' = [peers EXCEPT ![c] = NoPeer]
       \/ Address(sta.bss, sta.ctx) /\ peers' = [peers EXCEPT ![c].open = FALSE]
Joins ==
  /\ user.pc \in {"auth_join", "assoc_join"} /\ user'.pc \in {"auth_cmd", "assoc_cmd"}
  /\ user.arg \in Bss
  /\ \E c \in Ctxs : /\ Address(user.arg, c)
                     /\ peers' = [peers EXCEPT ![c] = [addr |-> user.arg, open |-> FALSE]]
Opens ==
  /\ lock = NoBss /\ Address(sta.bss, sta.ctx) /\ sta'.state = "ASSOCED"
  /\ sta.ctx \in Ctxs /\ peers[sta.ctx].addr \in Bss
  /\ peers' = [peers EXCEPT ![sta.ctx].open = TRUE]
  /\ cfg' = [conn |-> peers[sta.ctx].addr, auth |-> peers[sta.ctx].addr]
  /\ UNCHANGED <<user, event>>
Resets == Reset /\ Address(NoBss, 0) /\ UNCHANGED peers
TakesAway ==
  /\ recovery.pc = "scheduled" /\ Address(sta.bss, sta.ctx)
  /\ peers' = [c \in Ctxs |-> NoPeer]

LinkStep == LinkStays \/ Leaves \/ Joins \/ Opens \/ Resets \/ TakesAway

LEMMA UnjoinLink ==
  ASSUME StaType, NEW b, NEW ok \in BOOLEAN, NEW s \in StaRecord, skw_unjoin(b, ok, s),
         s.bss = sta.bss, s.ctx = sta.ctx
  PROVE  LinkStays \/ Leaves
<1> DEFINE c == skw_peer_ctx(b)
<1>1. CASE c = 0
  BY <1>1 DEF skw_unjoin, LinkStays, Address
<1>2. CASE c # 0
  <2>1. c \in Ctxs /\ peers[c].addr # NoBss
    BY <1>2, PeerCtx
  <2>2. /\ sta' = IF ok THEN [s EXCEPT !.bss = NoBss, !.ctx = 0] ELSE s
        /\ peers' = [peers EXCEPT ![c] = IF ok THEN NoPeer ELSE [peers[c] EXCEPT !.open = FALSE]]
    BY <1>2 DEF skw_unjoin
  <2> HIDE DEF c
  <2>3. CASE ok
    <3>1. Address(NoBss, 0)
      BY <2>2, <2>3 DEF Address, StaRecord
    <3> QED BY <2>1, <2>2, <2>3, <3>1 DEF Leaves
  <2>4. CASE ~ok
    <3>1. Address(sta.bss, sta.ctx)
      BY <2>2, <2>4 DEF Address
    <3>2. peers' = [peers EXCEPT ![c].open = FALSE]
      BY <2>2, <2>4
    <3> QED BY <2>1, <3>1, <3>2 DEF Leaves
  <2> QED BY <2>3, <2>4
<1> QED BY <1>1, <1>2

LEMMA JoinLink ==
  ASSUME StateInv, user.pc \in {"auth_join", "assoc_join"}, NEW s \in StaRecord,
         skw_join(user.arg, s), user'.pc \in {"auth_cmd", "assoc_cmd"}
  PROVE  Joins
<1>1. user.arg \in Bss
  BY DEF StateInv, LockInv, LockedPcs, UserPcs
<1>2. PICK c \in Ctxs :
        /\ peers' = [peers EXCEPT ![c] = [addr |-> user.arg, open |-> FALSE]]
        /\ sta' = [s EXCEPT !.bss = user.arg, !.ctx = c]
  BY DEF skw_join
<1>3. Address(user.arg, c)
  BY <1>2 DEF Address, StaRecord
<1> QED BY <1>1, <1>2, <1>3 DEF Joins

\* A state or a timer of the station that changes, changes no address.
LEMMA SameAddress ==
  ASSUME NEW s \in StaRecord, NEW state
  PROVE  /\ [s EXCEPT !.state = state].bss = s.bss /\ [s EXCEPT !.state = state].ctx = s.ctx
         /\ Leaving(s).bss = s.bss /\ Leaving(s).ctx = s.ctx
         /\ Started(s, state).bss = s.bss /\ Started(s, state).ctx = s.ctx
BY DEF StaRecord, Leaving, Started

LEMMA RequestLink ==
  ASSUME Inv, StateInv, Request
  PROVE  LinkStep
<1>0. sta \in StaRecord
  BY DEF StateInv, StaType
<1>1. ASSUME NEW b \in Bss, skw_auth(b) PROVE LinkStays
  <2>1. sta' = sta \/ sta' = [sta EXCEPT !.state = "NONE"] \/ sta' = Started(sta, "AUTHING")
    BY <1>1 DEF skw_auth
  <2>2. UNCHANGED peers
    BY <1>1 DEF skw_auth
  <2>3. sta'.bss = sta.bss /\ sta'.ctx = sta.ctx
    BY <1>0, <2>1 DEF StaRecord, Started
  <2> QED BY <2>2, <2>3 DEF LinkStays, Address
<1>2. ASSUME NEW b \in Bss, skw_assoc(b) PROVE LinkStays
  <2>1. sta' = sta \/ sta' = [sta EXCEPT !.state = "NONE"] \/ sta' = Started(sta, "ASSOCING")
    BY <1>2 DEF skw_assoc
  <2>2. UNCHANGED peers
    BY <1>2 DEF skw_assoc
  <2>3. sta'.bss = sta.bss /\ sta'.ctx = sta.ctx
    BY <1>0, <2>1 DEF StaRecord, Started
  <2> QED BY <2>2, <2>3 DEF LinkStays, Address
<1>3. ASSUME NEW b \in Bss, skw_cfg80211_deauth(b) PROVE LinkStays
  BY <1>0, <1>3, SameAddress DEF skw_cfg80211_deauth, LinkStays, Address
<1>4. ASSUME skw_change_station PROVE LinkStays
  BY <1>0, <1>4, SameAddress DEF skw_change_station, LinkStays, Address
<1>5. ASSUME NEW id \in Reqs, Scan(id) PROVE LinkStays
  BY <1>5 DEF Scan, LinkStays, Address
<1> QED BY <1>1, <1>2, <1>3, <1>4, <1>5 DEF Request, LinkStep

LEMMA UserLink ==
  ASSUME Inv, StateInv, UserStep
  PROVE  LinkStep
<1>0. sta \in StaRecord /\ StaType
  BY DEF StateInv, StaType
<1>1. ASSUME NEW ok \in BOOLEAN, auth_unjoin(ok) \/ assoc_unjoin(ok) \/ deauth_unjoin(ok)
      PROVE  LinkStep
  <2>1. \E b : skw_unjoin(b, ok, sta)
    BY <1>1 DEF auth_unjoin, assoc_unjoin, deauth_unjoin, Unjoined
  <2> QED BY <1>0, <2>1, UnjoinLink DEF LinkStep
<1>2. ASSUME NEW ok \in BOOLEAN, auth_failed(ok) PROVE LinkStep
  <2>1. skw_unjoin(user.arg, ok, [sta EXCEPT !.state = "NONE"])
    BY <1>2 DEF auth_failed, Unjoined
  <2>2. [sta EXCEPT !.state = "NONE"] \in StaRecord
    BY <1>0, StationStates DEF States
  <2> QED BY <1>0, <2>1, <2>2, SameAddress, UnjoinLink DEF LinkStep
<1>3. ASSUME NEW ok \in BOOLEAN, auth_join(ok) \/ assoc_join(ok) PROVE LinkStep
  <2>1. CASE ok
    <3>1. \E state \in {"AUTHING", "ASSOCING"} : skw_join(user.arg, Started(sta, state))
      BY <1>3, <2>1 DEF auth_join, assoc_join
    <3>2. \A state \in {"AUTHING", "ASSOCING"} : Started(sta, state) \in StaRecord
      BY <1>0, StationStates DEF States
    <3>3. user.pc \in {"auth_join", "assoc_join"}
      BY <1>3 DEF auth_join, assoc_join
    <3>4. user'.pc \in {"auth_cmd", "assoc_cmd"}
      BY <1>3, <2>1 DEF auth_join, assoc_join, User, Inv, UserInv
    <3> QED BY <3>1, <3>2, <3>3, <3>4, JoinLink DEF LinkStep
  <2>2. CASE ~ok
    BY <1>3, <2>2 DEF auth_join, assoc_join, LinkStep, LinkStays, Address
  <2> QED BY <2>1, <2>2
<1>4. ASSUME NEW ok \in BOOLEAN, NEW confirm \in BOOLEAN, skw_cmd_auth(ok, confirm) \/ skw_cmd_assoc(ok)
      PROVE  LinkStep
  <2>1. sta'.bss = sta.bss /\ sta'.ctx = sta.ctx /\ UNCHANGED peers
    BY <1>0, <1>4 DEF skw_cmd_auth, skw_cmd_assoc, StaRecord
  <2> QED BY <2>1 DEF LinkStep, LinkStays, Address
<1>5. ASSUME (\E ok \in BOOLEAN : ScanCmd(ok)) \/ ScanTimer PROVE LinkStep
  BY <1>5 DEF ScanCmd, ScanTimer, link, LinkStep, LinkStays, Address
<1> QED BY <1>1, <1>2, <1>3, <1>4, <1>5 DEF UserStep

LEMMA RxAssocLink ==
  ASSUME StateInv, NEW b, NEW what, skw_sta_rx_assoc(what, b), b \in Bss
  PROVE  Opens \/ (LinkStays /\ UNCHANGED cfg)
<1>0. sta \in StaRecord /\ StaType
  BY DEF StateInv, StaType
<1>1. CASE sta.ctx = 0 \/ peers[sta.ctx].addr # b
  BY <1>1 DEF skw_sta_rx_assoc, LinkStays, Address
<1>2. CASE ~(sta.ctx = 0 \/ peers[sta.ctx].addr # b) /\ what = "assoc"
  <2>1. /\ sta' = [sta EXCEPT !.state = "ASSOCED"] /\ lock = NoBss /\ UNCHANGED <<user, event>>
        /\ peers' = [peers EXCEPT ![sta.ctx].open = TRUE]
        /\ cfg' = [conn |-> b, auth |-> b]
    BY <1>2 DEF skw_sta_rx_assoc
  <2>2. sta.ctx \in Ctxs /\ peers[sta.ctx].addr = b
    BY <1>0, <1>2 DEF StaRecord
  <2>3. sta'.bss = sta.bss /\ sta'.ctx = sta.ctx /\ sta'.state = "ASSOCED"
    BY <1>0, <2>1 DEF StaRecord
  <2> QED BY <2>1, <2>2, <2>3 DEF Opens, Address
<1>3. CASE ~(sta.ctx = 0 \/ peers[sta.ctx].addr # b) /\ what # "assoc"
  <2>1. sta' = [sta EXCEPT !.state = "NONE"] /\ UNCHANGED <<peers, cfg>>
    BY <1>3 DEF skw_sta_rx_assoc
  <2> QED BY <1>0, <2>1, SameAddress DEF LinkStays, Address
<1> QED BY <1>1, <1>2, <1>3

LEMMA EventLink ==
  ASSUME Inv, StateInv, EventStep \/ StaTimer
  PROVE  LinkStep
<1>0. sta \in StaRecord /\ StaType
  BY DEF StateInv, StaType
<1>1. ASSUME NEW ok \in BOOLEAN, leave_unjoin(ok) PROVE LinkStep
  <2> DEFINE s == [sta EXCEPT !.sae = (event.tell = "confirm")]
  <2>1. skw_unjoin(event.bss, ok, s)
    BY <1>1 DEF leave_unjoin, Unjoined
  <2>2. s \in StaRecord /\ s.bss = sta.bss /\ s.ctx = sta.ctx
    BY <1>0 DEF StaRecord
  <2> HIDE DEF s
  <2> QED BY <1>0, <2>1, <2>2, UnjoinLink DEF LinkStep
<1>2. ASSUME NEW ok \in BOOLEAN, disconnect_unjoin(ok) PROVE LinkStep
  <2>1. skw_unjoin(event.bss, ok, sta)
    BY <1>2 DEF disconnect_unjoin, Unjoined
  <2> QED BY <1>0, <2>1, UnjoinLink DEF LinkStep
<1>3. ASSUME NEW b \in Bss, NEW what \in {"assoc", "assoc_fail"}, skw_sta_rx_assoc(what, b)
      PROVE LinkStep
  BY <1>3, RxAssocLink DEF LinkStep
<1>4. ASSUME \/ \E ok \in BOOLEAN : sta_resent(ok)
             \/ \E elapsed, late \in BOOLEAN : sta_work(elapsed, late)
             \/ \E b \in Bss :
                  \/ \E what \in {"auth", "confirm", "auth_fail", "confirm_fail"} :
                       skw_sta_rx_auth(what, b)
                  \/ skw_sta_rx_deauth(b)
                  \/ skw_event_disconnect(b)
             \/ ScanEvent \/ StaTimer
      PROVE  LinkStep
  <2>1. UNCHANGED peers
    BY <1>4 DEF sta_resent, sta_work, skw_sta_rx_auth, skw_sta_rx_deauth, skw_event_disconnect,
                ScanEvent, StaTimer, link
  <2>2. sta'.bss = sta.bss /\ sta'.ctx = sta.ctx
    <3>1. ASSUME NEW ok \in BOOLEAN, sta_resent(ok) PROVE sta'.bss = sta.bss /\ sta'.ctx = sta.ctx
      BY <1>0, <3>1 DEF sta_resent, Leaving, StaRecord
    <3>2. ASSUME NEW elapsed \in BOOLEAN, NEW late \in BOOLEAN, sta_work(elapsed, late)
          PROVE sta'.bss = sta.bss /\ sta'.ctx = sta.ctx
      <4> DEFINE s == [sta EXCEPT !.work = FALSE]
                 k == [s EXCEPT !.retry = sta.retry + 1]
                 Shape == [state : States, bss : Addrs, ctx : Ctxs \cup {0}, sae : BOOLEAN,
                           timer : BOOLEAN, work : BOOLEAN, retry : Nat, fresh : BOOLEAN,
                           pending : {"AUTH", "ASSOC"}]
      <4>1. s.bss = sta.bss /\ s.ctx = sta.ctx /\ s \in Shape
        <5>1. 0 .. MaxRetry \subseteq Nat
          BY StaAssumption
        <5> QED BY <1>0, <5>1 DEF StaRecord
      <4>1a. k.bss = sta.bss /\ k.ctx = sta.ctx /\ k \in Shape
        <5>1. sta.retry + 1 \in Nat
          BY <1>0, StaAssumption DEF StaRecord
        <5> HIDE DEF s
        <5> QED BY <4>1, <5>1
      <4>2. \E t \in {s, k} :
              \/ sta' = t \/ sta' = Leaving(t) \/ sta' = [t EXCEPT !.timer = TRUE, !.fresh = FALSE]
              \/ sta' = [t EXCEPT !.state = IF @ = "AUTHED" THEN "AUTHING" ELSE @]
        BY <3>2 DEF sta_work
      <4> HIDE DEF s, k
      <4>3. PICK t \in {s, k} :
              \/ sta' = t \/ sta' = Leaving(t) \/ sta' = [t EXCEPT !.timer = TRUE, !.fresh = FALSE]
              \/ sta' = [t EXCEPT !.state = IF @ = "AUTHED" THEN "AUTHING" ELSE @]
        BY <4>2
      <4>4. t \in Shape /\ t.bss = sta.bss /\ t.ctx = sta.ctx
        BY <4>1, <4>1a
      <4>5. sta'.bss = t.bss /\ sta'.ctx = t.ctx
        BY <4>3, <4>4 DEF Leaving
      <4> QED BY <4>4, <4>5
    <3>3. ASSUME NEW b \in Bss, NEW what, skw_sta_rx_auth(what, b)
          PROVE sta'.bss = sta.bss /\ sta'.ctx = sta.ctx
      BY <1>0, <3>3 DEF skw_sta_rx_auth, Leaving, StaRecord
    <3>4. ASSUME NEW b \in Bss, skw_sta_rx_deauth(b) \/ skw_event_disconnect(b)
          PROVE sta'.bss = sta.bss /\ sta'.ctx = sta.ctx
      BY <1>0, <3>4 DEF skw_sta_rx_deauth, skw_event_disconnect, Leaving, StaRecord
    <3>5. ASSUME ScanEvent \/ StaTimer PROVE sta'.bss = sta.bss /\ sta'.ctx = sta.ctx
      BY <1>0, <3>5 DEF ScanEvent, StaTimer, link, StaRecord
    <3> QED BY <1>4, <3>1, <3>2, <3>3, <3>4, <3>5
  <2> QED BY <2>1, <2>2 DEF LinkStep, LinkStays, Address
<1> QED BY <1>1, <1>2, <1>3, <1>4 DEF EventStep

LEMMA RecoveryLink ==
  ASSUME Inv, StateInv, RecoveryStep
  PROVE  LinkStep
<1>0. sta \in StaRecord /\ recovery \in RecoveryRecord
  BY DEF StateInv, StaType
<1>1. ASSUME skw_recovery_prepare PROVE LinkStep
  BY <1>1 DEF skw_recovery_prepare, LinkStep, LinkStays, TakesAway, Address
<1>2. ASSUME replay_unjoin PROVE LinkStep
  <2>1. Address(NoBss, 0) /\ UNCHANGED peers
    BY <1>0, <1>2 DEF replay_unjoin, Address, StaRecord
  <2>2. Reset
    BY <1>0, <1>2 DEF replay_unjoin, Reset, RecoveryRecord
  <2> QED BY <2>1, <2>2 DEF LinkStep, Resets
<1>3. ASSUME replay_peer \/ replay_cancel PROVE LinkStep
  <2>1. sta'.bss = sta.bss /\ sta'.ctx = sta.ctx /\ UNCHANGED peers
    BY <1>0, <1>3 DEF replay_peer, replay_cancel, StaRecord
  <2> QED BY <2>1 DEF LinkStep, LinkStays, Address
<1>4. ASSUME \/ recovery_enable \/ recovery_calib \/ recovery_finish
             \/ \E ok \in BOOLEAN : skw_cmd_open_dev(ok)
      PROVE LinkStep
  BY <1>4 DEF recovery_enable, recovery_calib, recovery_finish, skw_cmd_open_dev, link,
              LinkStep, LinkStays, Address
<1> QED BY <1>1, <1>2, <1>3, <1>4 DEF RecoveryStep

LEMMA OtherLink ==
  ASSUME FwStep \/ Timers_ \/ Work \/ TimePasses
  PROVE  LinkStep
<1>1. UNCHANGED <<sta, peers>>
  <2>1. CASE FwStep
    BY <2>1 DEF FwStep, Answered, AnsweredAgain, Unasked, FwDies, FwReady, link
  <2>2. CASE ~FwStep
    BY <2>2 DEF Timers_, Work, TimePasses, link
  <2> QED BY <2>1, <2>2
<1> QED BY <1>1 DEF LinkStep, LinkStays, Address

LEMMA LinkSteps ==
  ASSUME Inv, StateInv, [Next]_vars
  PROVE  LinkStep
<1>1. CASE UNCHANGED vars
  BY <1>1 DEF vars, LinkStep, LinkStays, Address
<1> QED BY <1>1, RequestLink, UserLink, EventLink, RecoveryLink, OtherLink DEF Next
-----------------------------------------------------------------------------
(* The recovery. *)

\* Who does not recover leaves the recovery alone.
LEMMA RestartStays ==
  ASSUME Request \/ UserStep \/ StaTimer \/ EventStep \/ Timers_ \/ Work \/ TimePasses
  PROVE  UNCHANGED <<rd, recovery, asserted>>
<1>1. CASE Request
  BY <1>1 DEF Request, skw_auth, skw_assoc, skw_cfg80211_deauth, skw_change_station, Scan, restart
<1>2. CASE UserStep
  BY <1>2 DEF UserStep, auth_unjoin, auth_join, auth_failed, skw_cmd_auth, assoc_unjoin,
              assoc_join, skw_cmd_assoc, deauth_unjoin, ScanCmd, ScanTimer, restart
<1>3. CASE EventStep \/ StaTimer
  BY <1>3 DEF EventStep, StaTimer, leave_unjoin, sta_resent, disconnect_unjoin, sta_work,
              skw_sta_rx_auth, skw_sta_rx_assoc, skw_sta_rx_deauth, skw_event_disconnect,
              ScanEvent, restart
<1>4. CASE Timers_ \/ Work \/ TimePasses
  BY <1>4 DEF Timers_, Work, TimePasses, restart
<1> QED BY <1>1, <1>2, <1>3, <1>4

\* What a step of the firmware and the platform does to the recovery.
LEMMA FwRestart ==
  ASSUME StateInv, FwStep
  PROVE  /\ UNCHANGED rd
         /\ \/ UNCHANGED <<recovery, asserted>>
            \/ recovery.pc = "scheduled" /\ recovery' = [recovery EXCEPT !.pc = "idle"] /\ asserted'
            \/ UNCHANGED recovery /\ asserted'
            \/ /\ recovery.pc = "idle" /\ recovery' = [recovery EXCEPT !.pc = "scheduled"]
               /\ UNCHANGED asserted
<1>1. CASE FwDies
  BY <1>1 DEF FwDies
<1>2. CASE FwReady
  BY <1>2 DEF FwReady, Recovers
<1>3. CASE ~FwDies /\ ~FwReady
  BY <1>3 DEF FwStep, Answered, AnsweredAgain, Unasked, restart
<1> QED BY <1>1, <1>2, <1>3

\* The peers that the replay is done with.
Handled ==
  IF recovery.pc \in {"replay", "cancel", "unjoin"} THEN rd.peer_map \ recovery.map
  ELSE IF recovery.pc = "finish" /\ recovery.ret /\ ~asserted THEN rd.peer_map ELSE {}

BssBound == \E c \in Ctxs : peers[c].addr = sta.bss

\* If the station has the address of one of them, it has joined it again.
ReplayInv == \A c \in Handled : sta.bss = rd.peer[c].addr => BssBound

RecoveryInv == MapInv /\ ReplayInv

LEMMA HandledAddress ==
  ASSUME StateInv, MapInv, NEW c \in Handled
  PROVE  c \in rd.peer_map /\ c \in Ctxs /\ rd.peer[c].addr # NoBss /\ recovery.pc # "scheduled"
BY DEF Handled, MapInv, StateInv, StaType, RdRecord

LEMMA HandledStays ==
  ASSUME StateInv, RecoveryInv, LinkStep, NEW c \in Handled,
         rd'.peer[c].addr = rd.peer[c].addr, sta'.bss = rd'.peer[c].addr
  PROVE  BssBound'
<1>1. rd.peer[c].addr # NoBss /\ recovery.pc # "scheduled"
  BY HandledAddress DEF RecoveryInv
<1>2. sta.bss = rd.peer[c].addr => BssBound
  BY DEF RecoveryInv, ReplayInv
<1>3. peers \in PeersType
  BY DEF StateInv, StaType
<1>4. CASE LinkStays
  BY <1>2, <1>4 DEF LinkStays, Address, BssBound
<1>5. CASE Leaves
  <2>1. PICK d \in Ctxs : \/ Address(NoBss, 0)
                          \/ Address(sta.bss, sta.ctx) /\ peers' = [peers EXCEPT ![d].open = FALSE]
    BY <1>5 DEF Leaves
  <2>2. /\ sta'.bss = sta.bss
        /\ peers' = [peers EXCEPT ![d].open = FALSE]
    BY <1>1, <2>1 DEF Address
  <2>3. \A e \in Ctxs : peers'[e].addr = peers[e].addr
    BY <1>3, <2>2 DEF PeersType
  <2> QED BY <1>2, <2>2, <2>3 DEF BssBound
<1>6. CASE Joins
  <2>1. PICK d \in Ctxs : Address(user.arg, d)
                          /\ peers' = [peers EXCEPT ![d] = [addr |-> user.arg, open |-> FALSE]]
    BY <1>6 DEF Joins
  <2>2. sta'.bss = user.arg /\ peers'[d].addr = user.arg
    BY <1>3, <2>1 DEF Address, PeersType
  <2> QED BY <2>2 DEF BssBound
<1>7. CASE Opens
  <2>1. sta'.bss = sta.bss /\ peers' = [peers EXCEPT ![sta.ctx].open = TRUE]
    BY <1>7 DEF Opens, Address
  <2>2. \A e \in Ctxs : peers'[e].addr = peers[e].addr
    BY <1>3, <2>1 DEF PeersType
  <2> QED BY <1>2, <2>1, <2>2 DEF BssBound
<1>8. CASE Resets
  BY <1>1, <1>8 DEF Resets, Address
<1>9. CASE TakesAway
  BY <1>1, <1>9 DEF TakesAway
<1> QED BY <1>4, <1>5, <1>6, <1>7, <1>8, <1>9 DEF LinkStep

\* It is enough to look at the peers that a step is done with.
LEMMA ReplayStep ==
  ASSUME StateInv, RecoveryInv, LinkStep,
         \A c \in Handled' : /\ rd'.peer[c].addr = rd.peer[c].addr
                             /\ c \in Handled \/ sta'.bss # rd.peer[c].addr
  PROVE  ReplayInv'
<1> SUFFICES ASSUME NEW c \in Handled', sta'.bss = rd'.peer[c].addr PROVE BssBound'
  BY DEF ReplayInv
<1>1. c \in Handled /\ rd'.peer[c].addr = rd.peer[c].addr
  OBVIOUS
<1> QED BY <1>1, HandledStays

LEMMA RecoverySteps ==
  ASSUME Inv, StateInv, RecoveryInv, [Next]_vars
  PROVE  RecoveryInv'
<1> USE DEF RecoveryInv
<1>0. /\ recovery \in RecoveryRecord /\ rd \in RdRecord /\ sta \in StaRecord
      /\ recovery = [pc |-> recovery.pc, ret |-> recovery.ret, map |-> recovery.map]
  BY DEF StateInv, StaType, RecoveryRecord
<1>l. LinkStep
  BY LinkSteps
<1>m. recovery.map # {} => First(recovery.map) \in recovery.map /\ recovery.map \subseteq Ctxs
  BY <1>0, FirstBit DEF RecoveryRecord
<1>1. CASE UNCHANGED <<rd, recovery, asserted>>
  <2>1. MapInv' /\ Handled' = Handled
    BY <1>1 DEF MapInv, Handled
  <2>2. ReplayInv'
    BY <1>1, <1>l, <2>1, ReplayStep
  <2> QED BY <2>1, <2>2
<1>2. CASE FwStep
  <2>1. UNCHANGED rd
    BY <1>2, FwRestart
  <2>2. MapInv'
    BY <1>0, <1>2, FwRestart DEF MapInv
  <2>3. Handled' \subseteq Handled
    BY <1>0, <1>2, FwRestart DEF Handled
  <2>4. ReplayInv'
    BY <1>l, <2>1, <2>3, ReplayStep
  <2> QED BY <2>2, <2>4
<1>3. CASE skw_recovery_prepare
  <2>1. /\ recovery.pc = "scheduled" /\ recovery' = [recovery EXCEPT !.pc = "enable"]
        /\ IF rd.recovering
           THEN UNCHANGED <<rd, peers>>
           ELSE rd' = [recovering |-> TRUE,
                       peer |-> [c \in Ctxs |-> [addr |-> peers[c].addr, deauthed |-> FALSE]],
                       peer_map |-> {c \in Ctxs : peers[c].addr # NoBss}]
    BY <1>3 DEF skw_recovery_prepare, Recovers
  <2>2. recovery.map = {} /\ recovery'.map = {} /\ recovery'.pc = "enable"
    BY <1>0, <2>1 DEF MapInv
  <2>3. MapInv'
    BY <2>1, <2>2 DEF MapInv
  <2>4. ReplayInv'
    BY <2>2 DEF ReplayInv, Handled
  <2> QED BY <2>3, <2>4
<1>4. CASE recovery_enable \/ recovery_calib
  <2>1. /\ recovery.pc \in {"enable", "calib"} /\ UNCHANGED rd
        /\ recovery'.pc \in {"calib", "open"} /\ recovery'.map = recovery.map
    BY <1>0, <1>4 DEF recovery_enable, recovery_calib, Recovers
  <2>2. MapInv'
    BY <2>1 DEF MapInv
  <2>3. ReplayInv'
    BY <2>1 DEF ReplayInv, Handled
  <2> QED BY <2>2, <2>3
<1>5. ASSUME NEW ok \in BOOLEAN, skw_cmd_open_dev(ok) PROVE RecoveryInv'
  <2>1. UNCHANGED rd /\ (recovery.pc = "open" \/ (recovery.pc = "replay" /\ recovery.map = {}))
    BY <1>5 DEF skw_cmd_open_dev
  <2>2. rd.recovering /\ recovery.map = {}
    BY <2>1 DEF MapInv
  <2>3. CASE asserted
    <3>1. recovery'.pc = "finish" /\ recovery'.map = {} /\ asserted'
      BY <1>0, <1>5, <2>2, <2>3 DEF skw_cmd_open_dev, Recovers
    <3>2. MapInv'
      BY <2>1, <2>2, <3>1 DEF MapInv
    <3>3. ReplayInv'
      BY <3>1 DEF ReplayInv, Handled
    <3> QED BY <3>2, <3>3
  <2>4. CASE ~asserted
    <3>1. /\ asserted' = ~ok
          /\ recovery'.pc = IF ok /\ recovery.pc = "open" THEN "replay" ELSE "finish"
          /\ recovery'.ret = ok
          /\ recovery'.map = IF ok /\ recovery.pc = "open" THEN rd.peer_map ELSE {}
      BY <1>5, <2>4 DEF skw_cmd_open_dev
    <3>2. MapInv'
      BY <2>1, <2>2, <3>1 DEF MapInv
    <3>3. Handled' \subseteq Handled
      BY <2>1, <2>2, <3>1 DEF Handled
    <3>4. ReplayInv'
      BY <1>l, <2>1, <3>3, ReplayStep
    <3> QED BY <3>2, <3>4
  <2> QED BY <2>3, <2>4
<1>6. CASE replay_peer
  <2> DEFINE c == First(recovery.map)
  <2>1. /\ recovery.pc = "replay" /\ recovery.map # {} /\ c \in recovery.map /\ c \in Ctxs
        /\ UNCHANGED asserted
    BY <1>6, <1>m DEF replay_peer
  <2>2. \/ /\ recovery'.pc = "cancel" /\ recovery'.map = recovery.map /\ UNCHANGED rd
        \/ /\ rd' = [rd EXCEPT !.peer[c].deauthed = TRUE] /\ UNCHANGED sta
           /\ recovery'.pc = "replay" /\ recovery'.map = recovery.map \ {c}
           /\ rd.peer[c].addr # sta.bss
    BY <1>0, <1>6, <2>1 DEF replay_peer, Recovers
  <2> HIDE DEF c
  <2>3. CASE recovery'.pc = "cancel" /\ recovery'.map = recovery.map /\ UNCHANGED rd
    <3>1. MapInv'
      BY <2>1, <2>3 DEF MapInv
    <3>2. Handled' = Handled
      BY <2>1, <2>3 DEF Handled
    <3>3. ReplayInv'
      BY <1>l, <2>3, <3>2, ReplayStep
    <3> QED BY <3>1, <3>3
  <2>4. CASE /\ rd' = [rd EXCEPT !.peer[c].deauthed = TRUE] /\ UNCHANGED sta
             /\ recovery'.pc = "replay" /\ recovery'.map = recovery.map \ {c}
             /\ rd.peer[c].addr # sta.bss
    <3>1. /\ rd'.peer_map = rd.peer_map /\ rd'.recovering = rd.recovering
          /\ \A d \in Ctxs : rd'.peer[d].addr = rd.peer[d].addr
      BY <1>0, <2>1, <2>4 DEF RdRecord
    <3>2. MapInv'
      BY <1>0, <2>1, <2>4, <3>1 DEF MapInv, RdRecord
    <3>3. Handled' \subseteq Handled \cup {c} /\ Handled' \subseteq Ctxs
      BY <1>0, <2>1, <2>4, <3>1 DEF Handled, RdRecord
    <3>4. ReplayInv'
      BY <1>l, <2>4, <3>1, <3>3, ReplayStep
    <3> QED BY <3>2, <3>4
  <2> QED BY <2>2, <2>3, <2>4
<1>7. CASE replay_cancel
  <2>1. /\ recovery.pc = "cancel" /\ recovery'.pc = "unjoin" /\ recovery'.map = recovery.map
        /\ UNCHANGED <<rd, asserted>>
    BY <1>0, <1>7 DEF replay_cancel, Recovers
  <2>2. MapInv'
    BY <2>1 DEF MapInv
  <2>3. Handled' = Handled
    BY <2>1 DEF Handled
  <2>4. ReplayInv'
    BY <1>l, <2>1, <2>3, ReplayStep
  <2> QED BY <2>2, <2>4
<1>8. CASE replay_unjoin
  <2> DEFINE c == First(recovery.map)
  <2>0. recovery.pc = "unjoin" /\ recovery.map # {}
    BY <1>8 DEF replay_unjoin, MapInv
  <2>1. /\ c \in recovery.map /\ c \in Ctxs
        /\ rd' = [rd EXCEPT !.peer[c].deauthed = TRUE] /\ sta'.bss = NoBss
        /\ recovery'.pc = "replay" /\ recovery'.map = recovery.map \ {c}
    BY <1>0, <1>8, <1>m, <2>0 DEF replay_unjoin, StaRecord
  <2> HIDE DEF c
  <2>2. /\ rd'.peer_map = rd.peer_map /\ rd'.recovering = rd.recovering
        /\ \A d \in Ctxs : rd'.peer[d].addr = rd.peer[d].addr
    BY <1>0, <2>1 DEF RdRecord
  <2>3. MapInv'
    BY <1>0, <2>0, <2>1, <2>2 DEF MapInv, RdRecord
  <2>4. \A d \in Handled' : d \in Ctxs /\ rd.peer[d].addr # NoBss
    BY <1>0, <2>0, <2>1, <2>2 DEF Handled, MapInv, RdRecord
  <2>5. ReplayInv'
    BY <1>l, <2>1, <2>2, <2>4, ReplayStep
  <2> QED BY <2>3, <2>5
<1>9. CASE recovery_finish
  <2>1. /\ recovery.pc = "finish" /\ recovery'.pc = "idle" /\ recovery'.map = recovery.map
        /\ rd' = IF recovery.ret THEN [NoRecovery EXCEPT !.peer_map = rd.peer_map] ELSE rd
    BY <1>0, <1>9 DEF recovery_finish
  <2>2. recovery.map = {}
    BY <2>1 DEF MapInv
  <2>3. MapInv'
    <3>1. CASE recovery.ret
      <4>1. rd'.recovering = FALSE
        BY <2>1, <3>1 DEF NoRecovery
      <4> QED BY <2>1, <2>2, <4>1 DEF MapInv
    <3>2. CASE ~recovery.ret
      BY <2>1, <2>2, <3>2 DEF MapInv
    <3> QED BY <3>1, <3>2
  <2>4. ReplayInv'
    BY <2>1 DEF ReplayInv, Handled
  <2> QED BY <2>3, <2>4
<1>10. CASE UNCHANGED vars
  BY <1>1, <1>10 DEF vars, restart
<1> QED
  BY <1>1, <1>2, <1>3, <1>4, <1>5, <1>6, <1>7, <1>8, <1>9, <1>10, RestartStays
  DEF Next, RecoveryStep
-----------------------------------------------------------------------------
(* Scans and their timers. *)

\* The ids on the list, after each operation of skw_timer.c.
LEMMA ArmedAdded ==
  ASSUME TimerInv, NEW id \in Ids, skw_add_timer_work(id)
  PROVE  Armed' \subseteq Armed \cup {id}
<1>1. Timers!Arm(id) \/ UNCHANGED Timers!vars
  BY AddStep
<1>2. Armed = DOMAIN Armed_ /\ Armed' = DOMAIN Armed_'
  BY DEF Armed_
<1> QED BY <1>1, <1>2 DEF Timers!Arm, Timers!Put, Timers!vars

LEMMA ArmedDeleted ==
  ASSUME TimerInv, NEW id, skw_del_timer_work(id)
  PROVE  Armed' = Armed \ {id}
<1>1. Timers!Cancel(id) \/ (id \notin Armed /\ UNCHANGED Timers!vars)
  BY DelStep
<1>2. Armed = DOMAIN Armed_ /\ Armed' = DOMAIN Armed_'
  BY DEF Armed_
<1> QED BY <1>1, <1>2 DEF Timers!Cancel, Timers!Without, Timers!vars

LEMMA ArmedLeft ==
  ASSUME TimerInv, skw_timer_work \/ (\E id : callback(id)) \/ rearm \/ Tick
  PROVE  Armed' \subseteq Armed
<1>0. Armed = DOMAIN Armed_ /\ Armed' = DOMAIN Armed_'
  BY DEF Armed_
<1>1. CASE skw_timer_work
  BY <1>0, <1>1, FireStep DEF Timers!Expire, Timers!Without
<1>2. ASSUME NEW id, callback(id) PROVE Armed' = Armed
  BY <1>0, <1>2, CallStep DEF Timers!Call
<1>3. CASE rearm
  BY <1>0, <1>3, RearmStep DEF Timers!vars
<1>4. CASE Tick
  BY <1>0, <1>4, TickStep DEF Timers!Tick
<1> QED BY <1>1, <1>2, <1>3, <1>4

\* A scan between its steps: the request is stored when its timer is started, and
\* stays as long as cfg80211's scan; no other request has a timer.
ScanInv ==
  /\ IF user.pc = "scan_timer" THEN scan_cfg = user.arg /\ scan_req = NoReq
                               ELSE scan_req = scan_cfg
  /\ user.pc = "scan_cmd" => scan_req \in {user.arg, NoReq}
  /\ user.pc \in {"scan_timer", "scan_cmd"} => user.arg \in Reqs
  /\ scan_cfg \in Reqs \cup {NoReq} /\ cqm_low \in BOOLEAN /\ work_list \in Nat
  /\ Armed \cap Reqs \subseteq {scan_req}

ScanPcs == {"scan_timer", "scan_cmd"}

LEMMA ScanStays ==
  ASSUME ScanInv, UNCHANGED <<timer_data, scanning>>,
         UNCHANGED user \/ (user.pc \notin ScanPcs /\ user'.pc \notin ScanPcs)
  PROVE  ScanInv'
<1>1. Armed' = Armed /\ UNCHANGED <<scan_req, scan_cfg, cqm_low, work_list>>
  BY DEF Armed, scanning
<1>2. CASE UNCHANGED user
  BY <1>1, <1>2 DEF ScanInv
<1>3. CASE user.pc \notin ScanPcs /\ user'.pc \notin ScanPcs
  BY <1>1, <1>3 DEF ScanInv, ScanPcs
<1> QED BY <1>2, <1>3

LEMMA DoneKeeps ==
  ASSUME TimerInv, ScanInv, skw_scan_done, cqm_low' \in BOOLEAN, work_list' \in Nat,
         UNCHANGED user \/ (user.pc \notin ScanPcs /\ user'.pc \notin ScanPcs)
  PROVE  ScanInv'
<1>1. CASE scan_req = NoReq
  <2>1. Armed' = Armed /\ UNCHANGED <<scan_req, scan_cfg>>
    BY <1>1 DEF skw_scan_done, Armed
  <2> QED BY <2>1 DEF ScanInv, ScanPcs
<1>2. CASE scan_req # NoReq
  <2>1. scan_req' = NoReq /\ scan_cfg' = NoReq /\ Armed' = Armed \ {scan_req}
    BY <1>2, ArmedDeleted DEF skw_scan_done
  <2>2. user.pc # "scan_timer" /\ user'.pc # "scan_timer"
    BY <1>2 DEF ScanInv, ScanPcs
  <2> QED BY <2>1, <2>2 DEF ScanInv, ScanPcs
<1> QED BY <1>1, <1>2

LEMMA ScanSteps ==
  ASSUME Inv, StateInv, ScanInv, [Next]_vars
  PROVE  ScanInv'
<1>0. TimerInv /\ user \in [pc : UserPcs, arg : Reqs \cup Bss \cup {NoReq}, roam : BOOLEAN]
  BY DEF Inv, UserInv
<1>c. /\ Cqm \in Ids /\ Cqm \notin Reqs /\ NoReq \notin Reqs /\ Reqs \subseteq Ids
      /\ cqm_low \in BOOLEAN /\ work_list \in Nat
  BY ScanAssumption DEF ScanInv, NoReq
<1>1. CASE Request
  <2>1. ASSUME NEW b \in Bss, skw_auth(b) PROVE ScanInv'
    <3>1. user.pc = "idle" /\ user'.pc \in UserPcs \ ScanPcs /\ UNCHANGED <<cqm_low, work_list>>
      <4>1. user.pc = "idle" /\ UNCHANGED <<cqm_low, work_list>>
        BY <2>1 DEF skw_auth
      <4>2. user' = user \/ user'.pc \in {"auth_unjoin", "auth_join", "auth_cmd"}
        BY <2>1 DEF skw_auth
      <4> QED BY <4>1, <4>2 DEF UserPcs, ScanPcs
    <3>2. skw_scan_done
      BY <2>1 DEF skw_auth
    <3>3. UNCHANGED user \/ (user.pc \notin ScanPcs /\ user'.pc \notin ScanPcs)
      BY <3>1 DEF ScanPcs
    <3> QED BY <1>0, <1>c, <3>1, <3>2, <3>3, DoneKeeps
  <2>2. ASSUME NEW b \in Bss, skw_assoc(b) \/ skw_cfg80211_deauth(b) PROVE ScanInv'
    <3>1. /\ UNCHANGED <<timer_data, scanning>> /\ user.pc = "idle"
          /\ user' = user \/ user'.pc \in {"assoc_cmd", "assoc_unjoin", "deauth"}
      BY <2>2 DEF skw_assoc, skw_cfg80211_deauth, NoUser
    <3> QED BY <3>1, ScanStays DEF ScanPcs
  <2>3. ASSUME skw_change_station PROVE ScanInv'
    BY <2>3, ScanStays DEF skw_change_station
  <2>4. ASSUME NEW id \in Reqs, Scan(id) PROVE ScanInv'
    <3>1. /\ user.pc = "idle" /\ scan_cfg = NoReq /\ scan_cfg' = id
          /\ user' = [NoUser EXCEPT !.pc = "scan_timer", !.arg = id]
          /\ UNCHANGED <<scan_req, work_list>>
          /\ UNCHANGED <<cqm_low, timer_data>> \/ (cqm_low' = FALSE /\ skw_del_timer_work(Cqm))
      BY <2>4 DEF Scan, skw_cqm_bg_scan
    <3>2. user'.pc = "scan_timer" /\ user'.arg = id
      BY <3>1 DEF NoUser
    <3>3. Armed' \subseteq Armed /\ cqm_low' \in BOOLEAN
      BY <1>0, <1>c, <3>1, ArmedDeleted DEF Armed
    <3> QED BY <1>c, <3>1, <3>2, <3>3 DEF ScanInv
  <2> QED BY <1>1, <2>1, <2>2, <2>3, <2>4 DEF Request
<1>2. CASE UserStep
  <2>1. CASE ScanTimer
    <3>1. /\ user.pc = "scan_timer" /\ scan_req' = user.arg /\ skw_add_timer_work(user.arg)
          /\ user' = [user EXCEPT !.pc = "scan_cmd"]
          /\ UNCHANGED <<scan_cfg, cqm_low, work_list>>
      BY <2>1 DEF ScanTimer, scan_timer
    <3>2. user'.pc = "scan_cmd" /\ user'.arg = user.arg
      BY <1>0, <3>1
    <3>3. user.arg \in Reqs /\ user.arg \in Ids
      BY <1>c, <3>1 DEF ScanInv
    <3>4. Armed' \subseteq Armed \cup {user.arg}
      BY <1>0, <3>1, <3>3, ArmedAdded
    <3> QED BY <1>c, <3>1, <3>2, <3>3, <3>4 DEF ScanInv
  <2>2. ASSUME NEW ok \in BOOLEAN, ScanCmd(ok) PROVE ScanInv'
    <3>1. /\ user.pc = "scan_cmd" /\ user'.pc = "idle" /\ UNCHANGED <<cqm_low, work_list>>
          /\ \/ UNCHANGED <<scan_req, scan_cfg, timer_data>>
             \/ scan_req' = NoReq /\ scan_cfg' = NoReq /\ skw_del_timer_work(user.arg)
      BY <2>2 DEF ScanCmd, scan_cmd, NoUser
    <3>2. CASE UNCHANGED <<scan_req, scan_cfg, timer_data>>
      <4>1. Armed' = Armed
        BY <3>2 DEF Armed
      <4> QED BY <1>c, <3>1, <3>2, <4>1 DEF ScanInv
    <3>3. CASE scan_req' = NoReq /\ scan_cfg' = NoReq /\ skw_del_timer_work(user.arg)
      <4>1. Armed' = Armed \ {user.arg}
        BY <1>0, <3>3, ArmedDeleted
      <4> QED BY <1>c, <3>1, <3>3, <4>1 DEF ScanInv
    <3> QED BY <3>1, <3>2, <3>3
  <2>3. CASE ~ScanTimer /\ ~(\E ok \in BOOLEAN : ScanCmd(ok))
    <3>1. UNCHANGED <<timer_data, scanning>> /\ user.pc \in LockedPcs
      BY <1>2, <2>3 DEF UserStep, auth_unjoin, auth_join, auth_failed, skw_cmd_auth,
         assoc_unjoin, assoc_join, skw_cmd_assoc, deauth_unjoin, LockedPcs, UserPcs
    <3>2. user'.pc \in LockedPcs \cup {"idle"}
      <4>1. \/ user' = NoUser
            \/ \E p \in {"auth_unjoin", "auth_join"} : user' = [user EXCEPT !.pc = p, !.roam = FALSE]
            \/ \E p \in {"auth_cmd", "failed", "assoc_join", "assoc_cmd"} : User(p)
        BY <1>2, <2>3 DEF UserStep, auth_unjoin, auth_join, auth_failed, skw_cmd_auth,
           assoc_unjoin, assoc_join, skw_cmd_assoc, deauth_unjoin, Done
      <4>2. \A p \in LockedPcs : /\ [user EXCEPT !.pc = p].pc = p
                                 /\ [user EXCEPT !.pc = p, !.roam = FALSE].pc = p
        BY <1>0
      <4>3. NoUser.pc = "idle"
        BY DEF NoUser
      <4>4. {"auth_unjoin", "auth_join", "auth_cmd", "failed", "assoc_join", "assoc_cmd"}
              \subseteq LockedPcs
        BY DEF LockedPcs, UserPcs
      <4>5. CASE user' = NoUser
        BY <4>3, <4>5
      <4>6. ASSUME NEW p \in {"auth_unjoin", "auth_join"},
                   user' = [user EXCEPT !.pc = p, !.roam = FALSE]
            PROVE user'.pc \in LockedPcs
        BY <4>2, <4>4, <4>6
      <4>7. ASSUME NEW p \in {"auth_cmd", "failed", "assoc_join", "assoc_cmd"}, User(p)
            PROVE user'.pc \in LockedPcs
        BY <4>2, <4>4, <4>7 DEF User
      <4> QED BY <4>1, <4>5, <4>6, <4>7
    <3> QED BY <3>1, <3>2, ScanStays DEF LockedPcs, UserPcs, ScanPcs
  <2> QED BY <2>1, <2>2, <2>3
<1>3. CASE EventStep \/ StaTimer
  <2>1. CASE ScanEvent
    <3>1. UNCHANGED user
      BY <2>1 DEF ScanEvent
    <3>2. CASE skw_scan_done /\ UNCHANGED <<cqm_low, work_list>>
      BY <1>0, <1>c, <3>1, <3>2, DoneKeeps
    <3>3. CASE skw_event_cqm
      <4>1. /\ cqm_low' = TRUE /\ UNCHANGED <<scan_req, scan_cfg, work_list>>
            /\ UNCHANGED timer_data \/ skw_add_timer_work(Cqm)
        BY <3>3 DEF skw_event_cqm
      <4>2. Armed' \subseteq Armed \cup {Cqm}
        BY <1>0, <1>c, <4>1, ArmedAdded DEF Armed
      <4> QED BY <1>c, <3>1, <4>1, <4>2 DEF ScanInv
    <3> QED BY <2>1, <3>2, <3>3 DEF ScanEvent
  <2>2. CASE ~ScanEvent
    <3>1. UNCHANGED <<timer_data, scanning, user>>
      BY <1>3, <2>2 DEF EventStep, StaTimer, leave_unjoin, sta_resent, disconnect_unjoin,
         sta_work, skw_sta_rx_auth, skw_sta_rx_assoc, skw_sta_rx_deauth, skw_event_disconnect
    <3> QED BY <3>1, ScanStays
  <2> QED BY <2>1, <2>2
<1>4. CASE Timers_ \/ TimePasses
  <2>1. /\ UNCHANGED <<user, scan_req, scan_cfg>>
        /\ cqm_low' \in {cqm_low, FALSE} /\ work_list' \in {work_list, work_list + 1}
        /\ skw_timer_work \/ (\E id : callback(id)) \/ rearm \/ Tick
    BY <1>4 DEF Timers_, TimePasses, TimerStep, skw_scan_timeout, skw_cqm_scan_timeout, scanning
  <2>2. Armed' \subseteq Armed
    BY <1>0, <2>1, ArmedLeft
  <2>3. work_list' \in Nat
    BY <1>c, <2>1
  <2>4. cqm_low' \in BOOLEAN
    BY <1>c, <2>1, Zenon
  <2> QED BY <1>c, <2>1, <2>2, <2>3, <2>4 DEF ScanInv
<1>5. CASE Work
  <2>1. /\ skw_scan_done /\ work_list > 0 /\ work_list' = work_list - 1
        /\ UNCHANGED <<cqm_low, user>>
    BY <1>5 DEF Work, skw_work
  <2>2. work_list' \in Nat
    BY <1>c, <2>1
  <2> QED BY <1>0, <1>c, <2>1, <2>2, DoneKeeps
<1>6. CASE RecoveryStep
  <2>1. UNCHANGED <<timer_data, scanning, user>>
    BY <1>6 DEF RecoveryStep, skw_recovery_prepare, recovery_enable, recovery_calib,
       skw_cmd_open_dev, replay_peer, replay_cancel, replay_unjoin, recovery_finish
  <2> QED BY <2>1, ScanStays
<1>7. CASE FwStep
  <2>1. UNCHANGED <<timer_data, scanning, user>>
    BY <1>7 DEF FwStep, Answered, AnsweredAgain, Unasked, FwDies, FwReady
  <2> QED BY <2>1, ScanStays
<1>8. CASE UNCHANGED vars
  BY <1>8, ScanStays DEF vars
<1> QED BY <1>1, <1>2, <1>3, <1>4, <1>5, <1>6, <1>7, <1>8 DEF Next
-----------------------------------------------------------------------------
(* The station and its peers. *)

JoinPcs == {"auth_join", "assoc_join"}

\* An address goes with a context, and a peer that is open has an address; a
\* station that is about to join has left the peer it had.
BssInv ==
  /\ sta.bss = NoBss <=> sta.ctx = 0
  /\ \A c \in Ctxs : peers[c].open => peers[c].addr # NoBss
  /\ user.pc \in JoinPcs =>
       \A c \in Ctxs : peers[c].addr # NoBss => ~(sta.ctx = c /\ sta.bss = peers[c].addr)

LEMMA JoinEntry ==
  ASSUME Inv, StateInv, BssInv, [Next]_vars, user'.pc \in JoinPcs
  PROVE  \/ UNCHANGED user
         \/ \A c \in Ctxs : peers'[c].addr # NoBss => ~(sta'.ctx = c /\ sta'.bss = peers'[c].addr)
<1> DEFINE Left == \A c \in Ctxs : peers'[c].addr # NoBss => ~(sta'.ctx = c /\ sta'.bss = peers'[c].addr)
<1>0. sta \in StaRecord /\ 0 \notin Ctxs
  BY Contexts DEF StateInv, StaType
<1>1. CASE Request
  <2>1. ASSUME NEW b \in Bss, skw_auth(b) PROVE UNCHANGED user \/ Left
    <3>1. CASE UNCHANGED user
      BY <3>1
    <3>2. CASE user'.pc = "auth_join" /\ sta.bss = NoBss /\ UNCHANGED <<sta, peers>>
      BY <3>2
    <3>3. user'.pc = "auth_join" => (sta.bss = NoBss /\ UNCHANGED <<sta, peers>>) \/ UNCHANGED user
      BY <2>1 DEF skw_auth
    <3>4. user'.pc # "assoc_join" \/ UNCHANGED user
      BY <2>1 DEF skw_auth
    <3> QED BY <3>1, <3>2, <3>3, <3>4 DEF JoinPcs
  <2>2. ~(\E b \in Bss : skw_auth(b)) => UNCHANGED user
    BY <1>1 DEF Request, skw_assoc, skw_cfg80211_deauth, skw_change_station, Scan,
       skw_cqm_bg_scan, NoUser, JoinPcs
  <2> QED BY <2>1, <2>2
<1>2. CASE UserStep
  <2>1. ASSUME NEW ok \in BOOLEAN, auth_unjoin(ok) \/ assoc_unjoin(ok) PROVE Left
    <3>1. ok
      BY <2>1 DEF auth_unjoin, assoc_unjoin, Done, NoUser, JoinPcs
    <3>2. skw_unjoin(sta.bss, TRUE, sta)
      BY <2>1, <3>1 DEF auth_unjoin, assoc_unjoin, Unjoined
    <3>3. CASE skw_peer_ctx(sta.bss) = 0
      <4>1. UNCHANGED <<sta, peers>>
        BY <3>2, <3>3 DEF skw_unjoin
      <4>2. sta.bss = NoBss \/ \A c \in Ctxs : peers[c].addr # sta.bss
        BY <3>3, PeerCtx
      <4> QED BY <4>1, <4>2
    <3>4. CASE skw_peer_ctx(sta.bss) # 0
      <4>1. sta' = [sta EXCEPT !.bss = NoBss, !.ctx = 0]
        BY <3>2, <3>4 DEF skw_unjoin
      <4>2. sta'.ctx = 0
        BY <1>0, <4>1 DEF StaRecord
      <4> QED BY <1>0, <4>2
    <3> QED BY <3>3, <3>4
  <2>2. ASSUME NEW ok \in BOOLEAN, NEW confirm \in BOOLEAN,
               \/ auth_join(ok) \/ auth_failed(ok) \/ skw_cmd_auth(ok, confirm)
               \/ assoc_join(ok) \/ skw_cmd_assoc(ok) \/ deauth_unjoin(ok) \/ ScanCmd(ok)
        PROVE FALSE
    <3>1. user' = NoUser \/ User("auth_cmd") \/ User("failed") \/ User("assoc_cmd")
      BY <2>2 DEF auth_join, auth_failed, skw_cmd_auth, assoc_join, skw_cmd_assoc, deauth_unjoin,
         ScanCmd, scan_cmd, Done
    <3>2. user'.pc \in {"idle", "auth_cmd", "failed", "assoc_cmd"}
      BY <3>1 DEF Inv, UserInv, User, NoUser
    <3> QED BY <3>2 DEF JoinPcs
  <2>3. ASSUME ScanTimer PROVE FALSE
    BY <2>3 DEF ScanTimer, scan_timer, Inv, UserInv, JoinPcs
  <2> QED BY <1>2, <2>1, <2>2, <2>3 DEF UserStep
<1>3. CASE EventStep \/ StaTimer
  BY <1>3 DEF EventStep, StaTimer, leave_unjoin, sta_resent, disconnect_unjoin, sta_work,
     skw_sta_rx_auth, skw_sta_rx_assoc, skw_sta_rx_deauth, skw_event_disconnect, ScanEvent
<1>4. CASE Timers_ \/ Work \/ TimePasses
  BY <1>4 DEF Timers_, TimerStep, skw_scan_timeout, skw_cqm_scan_timeout, Work, skw_work, TimePasses
<1>5. CASE RecoveryStep
  BY <1>5 DEF RecoveryStep, skw_recovery_prepare, recovery_enable, recovery_calib,
     skw_cmd_open_dev, replay_peer, replay_cancel, replay_unjoin, recovery_finish
<1>6. CASE FwStep
  BY <1>6 DEF FwStep, Answered, AnsweredAgain, Unasked, FwDies, FwReady
<1>7. CASE UNCHANGED vars
  BY <1>7 DEF vars
<1> QED BY <1>1, <1>2, <1>3, <1>4, <1>5, <1>6, <1>7 DEF Next

LEMMA BssSteps ==
  ASSUME Inv, StateInv, BssInv, [Next]_vars
  PROVE  BssInv'
<1>0. /\ peers \in PeersType /\ NoBss \notin Bss /\ 0 \notin Ctxs /\ LinkStep
      /\ sta \in StaRecord
      /\ user.pc \in LockedPcs => lock = "user"
  BY Contexts, StaAssumption, LinkSteps DEF StateInv, StaType, LockInv, NoBss
<1>1. sta'.bss = NoBss <=> sta'.ctx = 0
  BY <1>0 DEF BssInv, LinkStep, LinkStays, Leaves, Joins, Opens, Resets, TakesAway, Address
<1>2. \A c \in Ctxs : peers'[c].open => peers'[c].addr # NoBss
  <2>1. CASE LinkStays \/ Resets
    BY <2>1 DEF LinkStays, Resets, BssInv
  <2>2. CASE Leaves
    BY <1>0, <2>2 DEF Leaves, BssInv, PeersType, NoPeer
  <2>3. CASE Joins
    BY <1>0, <2>3 DEF Joins, BssInv, PeersType
  <2>4. CASE Opens
    BY <1>0, <2>4 DEF Opens, BssInv, PeersType
  <2>5. CASE TakesAway
    BY <2>5 DEF TakesAway, NoPeer
  <2> QED BY <1>0, <2>1, <2>2, <2>3, <2>4, <2>5 DEF LinkStep
<1>3. ASSUME user'.pc \in JoinPcs, NEW c \in Ctxs, peers'[c].addr # NoBss
      PROVE  ~(sta'.ctx = c /\ sta'.bss = peers'[c].addr)
  <2>1. CASE user' # user
    BY <1>3, <2>1, JoinEntry
  <2>2. CASE UNCHANGED user
    <3>1. /\ user.pc \in JoinPcs /\ lock = "user"
          /\ peers[c].addr # NoBss => ~(sta.ctx = c /\ sta.bss = peers[c].addr)
      BY <1>0, <1>3, <2>2 DEF BssInv, JoinPcs, LockedPcs, UserPcs
    <3>2. CASE LinkStays
      BY <1>3, <3>1, <3>2 DEF LinkStays, Address
    <3>3. CASE Leaves
      <4>1. sta'.ctx = 0 \/ (Address(sta.bss, sta.ctx) /\ peers'[c].addr = peers[c].addr)
        BY <1>0, <3>3 DEF Leaves, Address, PeersType
      <4> QED BY <1>0, <1>3, <3>1, <4>1 DEF Address
    <3>4. CASE Joins
      BY <1>3, <2>2, <3>4 DEF Joins, JoinPcs
    <3>5. CASE Opens
      BY <3>1, <3>5 DEF Opens, NoBss
    <3>6. CASE Resets
      BY <1>0, <3>6 DEF Resets, Address
    <3>7. CASE TakesAway
      BY <1>3, <3>7 DEF TakesAway, NoPeer
    <3> QED BY <1>0, <3>2, <3>3, <3>4, <3>5, <3>6, <3>7 DEF LinkStep
  <2> QED BY <2>1, <2>2
<1> QED BY <1>1, <1>2, <1>3 DEF BssInv

\* While the station has the context that is bound and frames are sent to it,
\* cfg80211 was told of no other access point and no other one is being left.
OpenInv ==
  Joined => \A c \in Ctxs : peers[c].open =>
    LET a == peers[c].addr IN
    /\ cfg.conn \in {a, NoBss} /\ cfg.auth \in {a, NoBss}
    /\ user.pc = "deauth" => user.arg = a
    /\ event.pc = "leave" => event.bss = a

\* A peer is opened by the answer to its association, or was open before.
LEMMA OpenStays ==
  ASSUME StateInv, BssInv, BssInv', LinkStep, Joined', NEW c \in Ctxs, peers'[c].open
  PROVE  /\ sta'.ctx = c /\ sta'.bss = peers'[c].addr
         /\ Opens \/ (Joined /\ peers[c].open /\ peers'[c].addr = peers[c].addr)
<1>0. peers \in PeersType /\ 0 \notin Ctxs
  BY Contexts DEF StateInv, StaType
<1>1. peers'[c].addr # NoBss /\ sta'.ctx = c /\ sta'.bss = peers'[c].addr /\ sta'.ctx # 0
  BY <1>0 DEF BssInv, Joined
<1>2. CASE LinkStays
  BY <1>1, <1>2 DEF LinkStays, Address, Joined
<1>3. CASE Leaves
  <2>1. PICK d \in Ctxs : Address(sta.bss, sta.ctx) /\ peers' = [peers EXCEPT ![d].open = FALSE]
    BY <1>1, <1>3 DEF Leaves, Address
  <2>2. \A e \in Ctxs : peers'[e].addr = peers[e].addr /\ (peers'[e].open => peers[e].open)
    BY <1>0, <2>1 DEF PeersType
  <2>3. sta'.ctx = sta.ctx /\ sta'.bss = sta.bss
    BY <2>1 DEF Address
  <2> QED BY <1>1, <2>2, <2>3 DEF Joined
<1>4. CASE Joins
  <2>1. PICK d \in Ctxs : Address(user.arg, d)
                          /\ peers' = [peers EXCEPT ![d] = [addr |-> user.arg, open |-> FALSE]]
    BY <1>4 DEF Joins
  <2>2. d = c
    BY <1>1, <2>1 DEF Address
  <2> QED BY <1>0, <2>1, <2>2 DEF PeersType
<1>5. CASE Resets
  BY <1>1, <1>5 DEF Resets, Address
<1>6. CASE TakesAway
  BY <1>6 DEF TakesAway, NoPeer
<1> QED BY <1>1, <1>2, <1>3, <1>4, <1>5, <1>6 DEF LinkStep

\* No step but a leave takes the context of a station that has joined from it, or
\* binds another one.
LEMMA ContextSteps ==
  ASSUME Inv, StateInv, BssInv, [Next]_vars
  PROVE  ContextKept
<1> SUFFICES ASSUME Joined PROVE Joined' \/ Reset
  BY DEF ContextKept
<1>0. peers \in PeersType /\ LinkStep
  BY LinkSteps DEF StateInv, StaType
<1>1. CASE LinkStays
  BY <1>1 DEF LinkStays, Address, Joined
<1>2. CASE Leaves
  <2>1. PICK c \in Ctxs :
          /\ peers[c].addr # NoBss
          /\ \/ peers' = [peers EXCEPT ![c] = NoPeer]
             \/ Address(sta.bss, sta.ctx) /\ peers' = [peers EXCEPT ![c].open = FALSE]
    BY <1>2 DEF Leaves
  <2>2. CASE peers' = [peers EXCEPT ![c] = NoPeer]
    <3>1. \A d \in Ctxs : d # c => peers[d].addr = NoBss
      BY <2>1 DEF Joined
    <3>2. \A d \in Ctxs : peers'[d].addr = NoBss
      BY <1>0, <2>2, <3>1 DEF PeersType, NoPeer
    <3> QED BY <3>2 DEF Joined
  <2>3. CASE Address(sta.bss, sta.ctx) /\ peers' = [peers EXCEPT ![c].open = FALSE]
    <3>1. \A e \in Ctxs : peers'[e].addr = peers[e].addr
      BY <1>0, <2>3 DEF PeersType
    <3> QED BY <2>3, <3>1 DEF Joined, Address
  <2> QED BY <2>1, <2>2, <2>3
<1>3. CASE Joins
  <2>1. PICK d \in Ctxs : Address(user.arg, d)
                          /\ peers' = [peers EXCEPT ![d] = [addr |-> user.arg, open |-> FALSE]]
    BY <1>3 DEF Joins
  <2>2. \A c \in Ctxs : peers[c].addr = NoBss
    BY <1>3 DEF Joins, BssInv, JoinPcs, Joined
  <2>3. \A c \in Ctxs : peers'[c].addr = IF c = d THEN user.arg ELSE NoBss
    BY <1>0, <2>1, <2>2 DEF PeersType
  <2> QED BY <2>1, <2>3 DEF Joined, Address
<1>4. CASE Opens
  <2>1. \A e \in Ctxs : peers'[e].addr = peers[e].addr
    BY <1>0, <1>4 DEF Opens, PeersType
  <2> QED BY <1>4, <2>1 DEF Opens, Address, Joined
<1>5. CASE Resets
  BY <1>5 DEF Resets
<1>6. CASE TakesAway
  BY <1>6 DEF TakesAway, NoPeer, Joined
<1> QED BY <1>0, <1>1, <1>2, <1>3, <1>4, <1>5, <1>6 DEF LinkStep

\* What a step may tell cfg80211 of an access point, and which one it leaves.
LEMMA Moves ==
  ASSUME Inv, StateInv, [Next]_vars, ~Opens
  PROVE  /\ cfg'.conn \in {cfg.conn, NoBss} /\ cfg'.auth \in {cfg.auth, NoBss, sta.bss}
         /\ user'.pc = "deauth" => UNCHANGED user \/ user'.arg \in {cfg.conn, cfg.auth} \ {NoBss}
         /\ event'.pc = "leave" => \/ UNCHANGED event \/ event'.bss = sta.bss
                                   \/ \E c \in Ctxs : peers[c].addr = event'.bss /\ event'.bss # NoBss
<1> DEFINE CfgMoves == cfg'.conn \in {cfg.conn, NoBss} /\ cfg'.auth \in {cfg.auth, NoBss, sta.bss}
           UserLeaves == user'.pc = "deauth" =>
                           UNCHANGED user \/ user'.arg \in {cfg.conn, cfg.auth} \ {NoBss}
           EventMoves == event'.pc = "leave" =>
                           \/ UNCHANGED event \/ event'.bss = sta.bss
                           \/ \E c \in Ctxs : peers[c].addr = event'.bss /\ event'.bss # NoBss
<1>0. cfg \in CfgRecord /\ sta \in StaRecord /\ NoBss \notin Bss
  BY StaAssumption DEF StateInv, StaType, NoBss
<1>t. \A b : Tell(b) => CfgMoves
  BY <1>0 DEF Tell, CfgRecord
<1>1. CASE Request
  <2>1. ASSUME NEW b \in Bss, skw_auth(b) PROVE CfgMoves /\ UserLeaves /\ EventMoves
    <3>1. CfgMoves /\ EventMoves
      BY <1>t, <2>1 DEF skw_auth
    <3>2. UNCHANGED user \/ user'.pc \in {"auth_unjoin", "auth_join", "auth_cmd"}
      BY <2>1 DEF skw_auth
    <3> QED BY <3>1, <3>2
  <2>2. ASSUME NEW b \in Bss, skw_assoc(b) PROVE CfgMoves /\ UserLeaves /\ EventMoves
    <3>1. UNCHANGED user \/ user'.pc \in {"assoc_unjoin", "assoc_cmd"}
      BY <2>2 DEF skw_assoc, NoUser
    <3> QED BY <2>2, <3>1 DEF skw_assoc
  <2>3. ASSUME NEW b \in Bss, skw_cfg80211_deauth(b) PROVE CfgMoves /\ UserLeaves /\ EventMoves
    <3>1. user'.arg = b
      BY <2>3 DEF skw_cfg80211_deauth, NoUser
    <3> QED BY <2>3, <3>1 DEF skw_cfg80211_deauth
  <2>4. ASSUME skw_change_station PROVE CfgMoves /\ UserLeaves /\ EventMoves
    BY <2>4 DEF skw_change_station
  <2>5. ASSUME NEW id \in Reqs, Scan(id) PROVE CfgMoves /\ UserLeaves /\ EventMoves
    BY <2>5 DEF Scan, skw_cqm_bg_scan, NoUser
  <2> QED BY <1>1, <2>1, <2>2, <2>3, <2>4, <2>5 DEF Request
<1>2. CASE UserStep
  <2>1. UNCHANGED event
    BY <1>2 DEF UserStep, auth_unjoin, auth_join, auth_failed, skw_cmd_auth, assoc_unjoin,
       assoc_join, skw_cmd_assoc, deauth_unjoin, ScanCmd, ScanTimer
  <2>2. CfgMoves
    <3>1. UNCHANGED cfg \/ \E b : Tell(b)
      BY <1>2 DEF UserStep, auth_unjoin, auth_join, auth_failed, skw_cmd_auth, assoc_unjoin,
         assoc_join, skw_cmd_assoc, deauth_unjoin, ScanCmd, ScanTimer, link
    <3> QED BY <1>t, <3>1
  <2>3. user'.pc # "deauth"
    <3>1. \/ user' = NoUser
          \/ \E p \in {"auth_unjoin", "auth_join"} : user' = [user EXCEPT !.pc = p, !.roam = FALSE]
          \/ \E p \in {"auth_cmd", "failed", "assoc_join", "assoc_cmd", "scan_cmd"} : User(p)
      BY <1>2 DEF UserStep, auth_unjoin, auth_join, auth_failed, skw_cmd_auth, assoc_unjoin,
         assoc_join, skw_cmd_assoc, deauth_unjoin, ScanCmd, ScanTimer, scan_cmd, scan_timer, User, Done
    <3>2. \A p : /\ [user EXCEPT !.pc = p].pc = p
                 /\ [user EXCEPT !.pc = p, !.roam = FALSE].pc = p
      BY DEF Inv, UserInv
    <3>3. user'.pc \in {"idle", "auth_unjoin", "auth_join", "auth_cmd", "failed", "assoc_join",
                       "assoc_cmd", "scan_cmd"}
      <4>1. CASE user' = NoUser
        BY <4>1 DEF NoUser
      <4>2. ASSUME NEW p \in {"auth_unjoin", "auth_join"}, user' = [user EXCEPT !.pc = p, !.roam = FALSE]
            PROVE  user'.pc = p
        BY <3>2, <4>2
      <4>3. ASSUME NEW p \in {"auth_cmd", "failed", "assoc_join", "assoc_cmd", "scan_cmd"}, User(p)
            PROVE  user'.pc = p
        BY <3>2, <4>3 DEF User
      <4> QED BY <3>1, <4>1, <4>2, <4>3
    <3> QED BY <3>3
  <2> QED BY <2>1, <2>2, <2>3
<1>3. CASE EventStep \/ StaTimer
  <2>1. UNCHANGED user
    BY <1>3 DEF EventStep, StaTimer, leave_unjoin, sta_resent, disconnect_unjoin, sta_work,
       skw_sta_rx_auth, skw_sta_rx_assoc, skw_sta_rx_deauth, skw_event_disconnect, ScanEvent
  <2>2. ASSUME NEW ok \in BOOLEAN, leave_unjoin(ok) PROVE CfgMoves /\ EventMoves
    <3>1. (\E b : Tell(b)) \/ cfg' = [cfg EXCEPT !.auth = NoBss] \/ UNCHANGED cfg
      <4>1. event.tell \in {"nothing", "confirm", "deauth", "timeout"}
        BY <2>2 DEF leave_unjoin, StateInv, StaType, EventRecord
      <4> QED BY <2>2, <4>1 DEF leave_unjoin
    <3>2. CfgMoves
      BY <1>0, <1>t, <3>1 DEF CfgRecord
    <3> QED BY <2>2, <3>2 DEF leave_unjoin, NoEvent
  <2>3. ASSUME NEW ok \in BOOLEAN, sta_resent(ok) PROVE CfgMoves /\ EventMoves
    BY <2>3 DEF sta_resent, Leave, NoEvent
  <2>4. ASSUME NEW ok \in BOOLEAN, disconnect_unjoin(ok) PROVE CfgMoves /\ EventMoves
    BY <1>t, <2>4 DEF disconnect_unjoin, NoEvent
  <2>5. ASSUME NEW elapsed \in BOOLEAN, NEW late \in BOOLEAN, sta_work(elapsed, late)
        PROVE  CfgMoves /\ EventMoves
    <3>1. UNCHANGED cfg
      BY <2>5 DEF sta_work
    <3>2. UNCHANGED event \/ event'.pc = "resend" \/ Leave(sta.bss, "timeout")
      BY <2>5 DEF sta_work
    <3> QED BY <3>1, <3>2 DEF Leave
  <2>6. ASSUME NEW b \in Bss, NEW what, skw_sta_rx_auth(what, b) PROVE CfgMoves /\ EventMoves
    <3>1. UNCHANGED cfg \/ (cfg' = [cfg EXCEPT !.auth = b] /\ sta.bss = b)
      BY <2>6 DEF skw_sta_rx_auth
    <3>2. UNCHANGED event \/ (event'.bss = b /\ sta.bss = b)
      BY <2>6 DEF skw_sta_rx_auth, Leave
    <3> QED BY <1>0, <3>1, <3>2 DEF CfgRecord
  <2>7. ASSUME NEW b \in Bss, NEW what, skw_sta_rx_assoc(what, b) PROVE CfgMoves /\ EventMoves
    <3>1. UNCHANGED event
      BY <2>7 DEF skw_sta_rx_assoc
    <3>2. UNCHANGED cfg
      BY <2>7, RxAssocLink
    <3> QED BY <3>1, <3>2
  <2>8. ASSUME NEW b \in Bss, skw_sta_rx_deauth(b) PROVE CfgMoves /\ EventMoves
    <3>1. UNCHANGED cfg
      BY <2>8 DEF skw_sta_rx_deauth
    <3>2. UNCHANGED event \/ (event'.bss = b /\ skw_peer_ctx(b) # 0)
      BY <2>8 DEF skw_sta_rx_deauth, Leave
    <3>3. skw_peer_ctx(b) # 0 => \E c \in Ctxs : peers[c].addr = b
      BY PeerCtx
    <3> QED BY <1>0, <3>1, <3>2, <3>3
  <2>9. ASSUME NEW b \in Bss, skw_event_disconnect(b) PROVE CfgMoves /\ EventMoves
    BY <2>9 DEF skw_event_disconnect
  <2>10. ASSUME ScanEvent \/ StaTimer PROVE CfgMoves /\ EventMoves
    BY <2>10 DEF ScanEvent, StaTimer, link
  <2> QED BY <1>3, <2>1, <2>2, <2>3, <2>4, <2>5, <2>6, <2>7, <2>8, <2>9, <2>10 DEF EventStep
<1>4. CASE Timers_ \/ Work \/ TimePasses
  BY <1>4 DEF Timers_, TimerStep, skw_scan_timeout, skw_cqm_scan_timeout, Work, skw_work, TimePasses,
     link
<1>5. CASE RecoveryStep
  <2>1. UNCHANGED <<user, event>>
    BY <1>5 DEF RecoveryStep, skw_recovery_prepare, recovery_enable, recovery_calib,
       skw_cmd_open_dev, replay_peer, replay_cancel, replay_unjoin, recovery_finish
  <2>2. UNCHANGED cfg \/ \E b : Tell(b)
    BY <1>5 DEF RecoveryStep, skw_recovery_prepare, recovery_enable, recovery_calib,
       skw_cmd_open_dev, replay_peer, replay_cancel, replay_unjoin, recovery_finish, link
  <2> QED BY <1>t, <2>1, <2>2
<1>6. CASE FwStep
  BY <1>6 DEF FwStep, Answered, AnsweredAgain, Unasked, FwDies, FwReady, link
<1>7. CASE UNCHANGED vars
  BY <1>7 DEF vars
<1> QED BY <1>1, <1>2, <1>3, <1>4, <1>5, <1>6, <1>7 DEF Next

LEMMA OpenSteps ==
  ASSUME Inv, StateInv, BssInv, BssInv', OpenInv, [Next]_vars
  PROVE  OpenInv'
<1> SUFFICES ASSUME Joined', NEW c \in Ctxs, peers'[c].open
             PROVE  /\ cfg'.conn \in {peers'[c].addr, NoBss} /\ cfg'.auth \in {peers'[c].addr, NoBss}
                    /\ user'.pc = "deauth" => user'.arg = peers'[c].addr
                    /\ event'.pc = "leave" => event'.bss = peers'[c].addr
  BY DEF OpenInv
<1> DEFINE a == peers'[c].addr
<1>0. /\ sta'.ctx = c /\ sta'.bss = a
      /\ Opens \/ (Joined /\ peers[c].open /\ a = peers[c].addr)
  BY LinkSteps, OpenStays
<1>1. CASE Opens
  <2>1. /\ peers \in PeersType /\ user.pc # "deauth" /\ event.pc # "leave"
    BY <1>1 DEF Opens, StateInv, StaType, LockInv, LockedPcs, UserPcs, NoBss
  <2>2. a = peers[c].addr /\ sta.ctx = c
    BY <1>0, <1>1, <2>1 DEF Opens, PeersType, Address
  <2> QED BY <1>1, <2>1, <2>2 DEF Opens
<1>2. CASE ~Opens
  <2>1. /\ cfg.conn \in {a, NoBss} /\ cfg.auth \in {a, NoBss}
        /\ user.pc = "deauth" => user.arg = a
        /\ event.pc = "leave" => event.bss = a
    BY <1>0, <1>2 DEF OpenInv
  <2>2. sta.bss = a /\ \A d \in Ctxs : peers[d].addr # NoBss => peers[d].addr = a
    BY <1>0, <1>2 DEF Joined, BssInv
  <2> HIDE DEF a
  <2>3. cfg'.conn \in {a, NoBss} /\ cfg'.auth \in {a, NoBss}
    BY <1>2, <2>1, <2>2, Moves
  <2>4. user'.pc = "deauth" => user'.arg = a
    BY <1>2, <2>1, <2>2, Moves
  <2>5. event'.pc = "leave" => event'.bss = a
    BY <1>2, <2>1, <2>2, Moves
  <2> QED BY <2>3, <2>4, <2>5 DEF a
<1> QED BY <1>1, <1>2

\* What keeps the station in a state, or keeps it being left.
LEMMA StillOpen ==
  ASSUME sta.state # "NONE" \/ BeingLeft,
         sta'.state = sta.state \/ sta'.state # "NONE",
         \/ UNCHANGED user
         \/ user.pc \notin {"auth_unjoin", "assoc_unjoin", "deauth"},
         \/ UNCHANGED event
         \/ event.pc \notin {"leave", "disconnect"}
  PROVE  sta'.state # "NONE" \/ BeingLeft'
BY DEF BeingLeft

\* A leave closes the peer that is left.
LEMMA UnjoinCloses ==
  ASSUME StateInv, BssInv, Joined, LinkStays, NEW c \in Ctxs, peers[c].open,
         NEW b, NEW ok, NEW s, skw_unjoin(b, ok, s)
  PROVE  b # sta.bss
<1> SUFFICES ASSUME b = sta.bss PROVE FALSE
  OBVIOUS
<1>0. peers \in PeersType /\ peers[c].addr # NoBss /\ sta.bss = peers[c].addr
  BY DEF StateInv, StaType, BssInv, Joined
<1> DEFINE d == skw_peer_ctx(b)
<1>1. d # 0 /\ d \in Ctxs /\ peers[d].addr = b
  BY <1>0, PeerCtx
<1>2. d = c
  BY <1>0, <1>1 DEF Joined
<1>3. peers' = [peers EXCEPT ![d] = IF ok THEN NoPeer ELSE [peers[d] EXCEPT !.open = FALSE]]
  BY <1>1 DEF skw_unjoin
<1> HIDE DEF d
<1>4. peers'[c].open = FALSE
  BY <1>0, <1>2, <1>3 DEF PeersType, NoPeer
<1> QED BY <1>4 DEF LinkStays

\* A step that keeps an open peer keeps the station in a state or being left, but
\* for the exceptions of PeersAgree.
LEMMA OpenKept ==
  ASSUME Inv, StateInv, BssInv, OpenInv, [Next]_vars, LinkStays, Joined, OpenOnlyJoined,
         NEW c \in Ctxs, peers[c].open
  PROVE  \/ sta'.state # "NONE" \/ BeingLeft'
         \/ Reset \/ LeftElsewhere \/ \E b \in Bss : Refused(b)
<1> DEFINE Still == sta'.state # "NONE" \/ BeingLeft'
<1>0. /\ sta.state # "NONE" \/ BeingLeft
      /\ sta.ctx = c /\ sta.bss = peers[c].addr /\ peers[c].addr # NoBss
      /\ sta \in StaRecord /\ user = [pc |-> user.pc, arg |-> user.arg, roam |-> user.roam]
  BY DEF OpenOnlyJoined, Joined, BssInv, StateInv, StaType, Inv, UserInv
<1>u. ASSUME NEW b, NEW ok, NEW s, Unjoined(b, ok, s) PROVE b # sta.bss
  BY <1>u, UnjoinCloses DEF Unjoined
<1>1. CASE Request
  <2>1. ASSUME NEW b \in Bss, skw_auth(b) PROVE Still
    <3>1. user.pc = "idle" /\ UNCHANGED event
      BY <2>1 DEF skw_auth
    <3>2. CASE UNCHANGED sta
      BY <1>0, <3>1, <3>2, StillOpen
    <3>3. CASE sta' = [sta EXCEPT !.state = "NONE"] /\ user'.pc = "auth_unjoin"
      BY <3>3 DEF BeingLeft
    <3>4. CASE sta' = Started(sta, "AUTHING")
      BY <1>0, <3>4 DEF Started, StaRecord
    <3>5. \/ UNCHANGED sta \/ sta' = Started(sta, "AUTHING")
          \/ sta' = [sta EXCEPT !.state = "NONE"] /\ user'.pc = "auth_unjoin"
      BY <2>1 DEF skw_auth
    <3> QED BY <3>2, <3>3, <3>4, <3>5
  <2>2. ASSUME NEW b \in Bss, skw_assoc(b) PROVE Still
    <3>1. user.pc = "idle" /\ UNCHANGED event
      BY <2>2 DEF skw_assoc
    <3>2. CASE UNCHANGED sta
      BY <1>0, <3>1, <3>2, StillOpen
    <3>3. CASE user'.pc = "assoc_unjoin"
      BY <3>3 DEF BeingLeft
    <3>4. CASE sta' = Started(sta, "ASSOCING")
      BY <1>0, <3>4 DEF Started, StaRecord
    <3>5. UNCHANGED sta \/ sta' = Started(sta, "ASSOCING") \/ user'.pc = "assoc_unjoin"
      BY <2>2 DEF skw_assoc, NoUser
    <3> QED BY <3>2, <3>3, <3>4, <3>5
  <2>3. ASSUME NEW b \in Bss, skw_cfg80211_deauth(b) PROVE Still
    BY <2>3 DEF skw_cfg80211_deauth, NoUser, BeingLeft
  <2>4. ASSUME skw_change_station PROVE Still
    BY <1>0, <2>4 DEF skw_change_station, StaRecord
  <2>5. ASSUME NEW id \in Reqs, Scan(id) PROVE Still
    <3>1. UNCHANGED <<sta, event>> /\ user.pc = "idle"
      BY <2>5 DEF Scan, skw_cqm_bg_scan
    <3> QED BY <1>0, <3>1, StillOpen
  <2> QED BY <1>1, <2>1, <2>2, <2>3, <2>4, <2>5 DEF Request
<1>2. CASE UserStep
  <2>1. ASSUME NEW ok \in BOOLEAN, auth_unjoin(ok) \/ assoc_unjoin(ok) \/ deauth_unjoin(ok)
        PROVE  FALSE
    <3>1. CASE deauth_unjoin(ok)
      <4>1. user.arg = sta.bss
        BY <1>0, <3>1 DEF deauth_unjoin, OpenInv
      <4> QED BY <1>u, <3>1, <4>1 DEF deauth_unjoin
    <3> QED BY <1>u, <2>1, <3>1 DEF auth_unjoin, assoc_unjoin
  <2>2. ASSUME NEW ok \in BOOLEAN, auth_failed(ok) PROVE LeftElsewhere
    BY <1>u, <2>2 DEF auth_failed, Done, NoUser, LeftElsewhere
  <2>3. ASSUME NEW ok \in BOOLEAN, auth_join(ok) \/ assoc_join(ok) PROVE FALSE
    BY <1>0, <2>3 DEF auth_join, assoc_join, BssInv, JoinPcs
  <2>4. ASSUME NEW ok \in BOOLEAN, NEW confirm \in BOOLEAN, skw_cmd_auth(ok, confirm) \/ skw_cmd_assoc(ok)
        PROVE  Still
    <3>1. user.pc \in {"auth_cmd", "assoc_cmd"} /\ UNCHANGED event
      BY <2>4 DEF skw_cmd_auth, skw_cmd_assoc
    <3>2. sta'.state = sta.state \/ sta'.state # "NONE"
      BY <1>0, <2>4 DEF skw_cmd_auth, skw_cmd_assoc, StaRecord
    <3> QED BY <1>0, <3>1, <3>2, StillOpen
  <2>5. ASSUME (\E ok \in BOOLEAN : ScanCmd(ok)) \/ ScanTimer PROVE Still
    <3>1. UNCHANGED <<sta, event>> /\ user.pc \in {"scan_cmd", "scan_timer"}
      BY <2>5 DEF ScanCmd, scan_cmd, ScanTimer, scan_timer, link
    <3> QED BY <1>0, <3>1, StillOpen
  <2> QED BY <1>2, <2>1, <2>2, <2>3, <2>4, <2>5 DEF UserStep
<1>3. CASE EventStep \/ StaTimer
  <2>0. UNCHANGED user
    BY <1>3 DEF EventStep, StaTimer, leave_unjoin, sta_resent, disconnect_unjoin, sta_work,
       skw_sta_rx_auth, skw_sta_rx_assoc, skw_sta_rx_deauth, skw_event_disconnect, ScanEvent
  <2>1. ASSUME NEW ok \in BOOLEAN, leave_unjoin(ok) PROVE FALSE
    <3>1. event.bss = sta.bss
      BY <1>0, <2>1 DEF leave_unjoin, OpenInv
    <3> QED BY <1>u, <2>1, <3>1 DEF leave_unjoin
  <2>2. ASSUME NEW ok \in BOOLEAN, disconnect_unjoin(ok) PROVE LeftElsewhere
    BY <1>u, <2>2 DEF disconnect_unjoin, NoEvent, LeftElsewhere
  <2>3. ASSUME NEW ok \in BOOLEAN, sta_resent(ok) PROVE Still
    <3>1. event.pc = "resend"
      BY <2>3 DEF sta_resent
    <3>2. CASE sta' = [sta EXCEPT !.timer = TRUE, !.fresh = FALSE]
      <4>1. sta'.state = sta.state
        BY <1>0, <3>2 DEF StaRecord
      <4> QED BY <1>0, <2>0, <3>1, <4>1, StillOpen
    <3>3. CASE Leave(sta.bss, "timeout")
      BY <3>3 DEF Leave, BeingLeft
    <3> QED BY <2>3, <3>2, <3>3 DEF sta_resent
  <2>4. ASSUME NEW elapsed \in BOOLEAN, NEW late \in BOOLEAN, sta_work(elapsed, late) PROVE Still
    <3> DEFINE tries == sta.state \in {"AUTHING", "AUTHED", "ASSOCING"}
               s == [sta EXCEPT !.work = FALSE]
               k == [s EXCEPT !.retry = sta.retry + 1]
    <3>1. event.pc = "idle"
      BY <2>4 DEF sta_work
    <3>2. \/ sta' = s \/ Leave(sta.bss, "timeout")
          \/ /\ tries
             /\ \E t \in {s, k} : \/ sta' = [t EXCEPT !.state = IF @ = "AUTHED" THEN "AUTHING" ELSE @]
                                  \/ sta' = [t EXCEPT !.timer = TRUE, !.fresh = FALSE]
      BY <2>4 DEF sta_work
    <3>3. CASE sta' = s
      <4>1. sta'.state = sta.state
        BY <1>0, <3>3 DEF StaRecord
      <4> QED BY <1>0, <2>0, <3>1, <4>1, StillOpen
    <3>4. CASE Leave(sta.bss, "timeout")
      BY <3>4 DEF Leave, BeingLeft
    <3>5. ASSUME tries, NEW t \in {s, k},
                 \/ sta' = [t EXCEPT !.state = IF @ = "AUTHED" THEN "AUTHING" ELSE @]
                 \/ sta' = [t EXCEPT !.timer = TRUE, !.fresh = FALSE]
          PROVE  Still
      <4> DEFINE Fields == {"state", "bss", "ctx", "sae", "timer", "work", "retry", "fresh", "pending"}
      <4>1. t.state = sta.state /\ DOMAIN t = Fields
        <5>1. s.state = sta.state /\ DOMAIN s = Fields
          BY <1>0 DEF StaRecord
        <5>2. k.state = sta.state /\ DOMAIN k = Fields
          BY <5>1
        <5> QED BY <5>1, <5>2
      <4> HIDE DEF s, k
      <4>2. sta'.state \in {"AUTHING", "AUTHED", "ASSOCING"}
        BY <3>5, <4>1
      <4> QED BY <4>2
    <3> QED BY <3>2, <3>3, <3>4, <3>5
  <2>5. ASSUME NEW b \in Bss, NEW what, skw_sta_rx_auth(what, b) PROVE Still
    <3>1. event.pc = "idle"
      BY <2>5 DEF skw_sta_rx_auth, Handles
    <3>2. \/ UNCHANGED sta \/ event'.pc = "leave"
          \/ sta' = [[sta EXCEPT !.state = "AUTHED", !.fresh = TRUE, !.retry = 0]
                       EXCEPT !.sae = @ \/ what = "confirm"]
      BY <2>5 DEF skw_sta_rx_auth, Leave
    <3>3. UNCHANGED sta \/ event'.pc = "leave" \/ sta'.state = "AUTHED"
      BY <1>0, <3>2 DEF StaRecord
    <3> QED BY <1>0, <2>0, <3>1, <3>3, StillOpen DEF BeingLeft
  <2>6. ASSUME NEW b \in Bss, skw_sta_rx_assoc("assoc", b) PROVE Still
    <3>1. UNCHANGED <<user, event>>
      BY <2>6 DEF skw_sta_rx_assoc
    <3>2. sta'.state = sta.state \/ sta'.state # "NONE"
      BY <1>0, <2>6 DEF skw_sta_rx_assoc, StaRecord
    <3> QED BY <1>0, <3>1, <3>2, StillOpen
  <2>7. ASSUME NEW b \in Bss, skw_sta_rx_assoc("assoc_fail", b) PROVE Refused(b)
    BY <2>7 DEF skw_sta_rx_assoc, Handles, Refused
  <2>8. ASSUME NEW b \in Bss, skw_sta_rx_deauth(b) PROVE Still
    <3>1. event.pc = "idle" /\ (UNCHANGED sta \/ event'.pc = "leave")
      BY <2>8 DEF skw_sta_rx_deauth, Leave, Handles
    <3> QED BY <1>0, <2>0, <3>1, StillOpen DEF BeingLeft
  <2>9. ASSUME NEW b \in Bss, skw_event_disconnect(b) PROVE Still
    BY <2>9 DEF skw_event_disconnect, BeingLeft
  <2>10. ASSUME ScanEvent \/ StaTimer PROVE Still
    <3>1. sta'.state = sta.state /\ UNCHANGED event
      BY <1>0, <2>10 DEF ScanEvent, StaTimer, link, StaRecord
    <3> QED BY <1>0, <2>0, <3>1, StillOpen
  <2> QED BY <1>3, <2>1, <2>2, <2>3, <2>4, <2>5, <2>6, <2>7, <2>8, <2>9, <2>10 DEF EventStep
<1>4. CASE Timers_ \/ Work \/ TimePasses
  <2>1. UNCHANGED <<sta, user, event>>
    BY <1>4 DEF Timers_, TimerStep, skw_scan_timeout, skw_cqm_scan_timeout, Work, skw_work,
       TimePasses, link
  <2> QED BY <1>0, <2>1, StillOpen
<1>5. CASE RecoveryStep
  <2>1. CASE replay_unjoin
    BY <2>1 DEF replay_unjoin, Reset, StateInv, StaType, RecoveryRecord
  <2>2. CASE ~replay_unjoin
    <3>1. UNCHANGED <<user, event>>
      BY <1>5, <2>2 DEF RecoveryStep, skw_recovery_prepare, recovery_enable, recovery_calib,
         skw_cmd_open_dev, replay_peer, replay_cancel, recovery_finish
    <3>2. \/ UNCHANGED sta \/ sta' = [sta EXCEPT !.timer = FALSE] \/ sta' = [sta EXCEPT !.work = FALSE]
      BY <1>5, <2>2 DEF RecoveryStep, skw_recovery_prepare, recovery_enable, recovery_calib,
         skw_cmd_open_dev, replay_peer, replay_cancel, recovery_finish, link
    <3>3. sta'.state = sta.state
      BY <1>0, <3>2 DEF StaRecord
    <3> QED BY <1>0, <3>1, <3>3, StillOpen
  <2> QED BY <2>1, <2>2
<1>6. CASE FwStep
  <2>1. UNCHANGED <<sta, user, event>>
    BY <1>6 DEF FwStep, Answered, AnsweredAgain, Unasked, FwDies, FwReady, link
  <2> QED BY <1>0, <2>1, StillOpen
<1>7. CASE UNCHANGED vars
  <2>1. UNCHANGED <<sta, user, event>>
    BY <1>7 DEF vars
  <2> QED BY <1>0, <2>1, StillOpen
<1> QED BY <1>1, <1>2, <1>3, <1>4, <1>5, <1>6, <1>7 DEF Next

\* Frames stop when the peer is left, or the station has left it.
LEMMA ClosedSteps ==
  ASSUME Inv, StateInv, BssInv, OpenInv, [Next]_vars
  PROVE  ClosedWhenLeft
<1> SUFFICES ASSUME Joined, OpenOnlyJoined
             PROVE  \/ OpenOnlyJoined' \/ Reset \/ LeftElsewhere \/ \E b \in Bss : Refused(b)
  BY DEF ClosedWhenLeft
<1>0. peers \in PeersType /\ LinkStep
  BY LinkSteps DEF StateInv, StaType
<1>1. CASE LinkStays
  <2>1. UNCHANGED peers /\ sta'.ctx = sta.ctx
    BY <1>1 DEF LinkStays, Address
  <2>2. CASE \A c \in Ctxs : ~peers[c].open
    BY <2>1, <2>2 DEF OpenOnlyJoined
  <2>3. CASE \E c \in Ctxs : peers[c].open
    <3>1. \/ sta'.state # "NONE" \/ BeingLeft'
          \/ Reset \/ LeftElsewhere \/ \E b \in Bss : Refused(b)
      BY <1>1, <2>3, OpenKept
    <3> QED BY <2>1, <3>1 DEF OpenOnlyJoined
  <2> QED BY <2>2, <2>3
<1>2. CASE Leaves
  <2>1. PICK c \in Ctxs : /\ peers[c].addr # NoBss
                          /\ \/ peers' = [peers EXCEPT ![c] = NoPeer]
                             \/ peers' = [peers EXCEPT ![c].open = FALSE]
    BY <1>2 DEF Leaves
  <2>2. \A d \in Ctxs : d # c => ~peers[d].open
    BY <2>1 DEF Joined, BssInv
  <2>3. \A d \in Ctxs : ~peers'[d].open
    BY <1>0, <2>1, <2>2 DEF PeersType, NoPeer
  <2> QED BY <2>3 DEF OpenOnlyJoined
<1>3. CASE Joins
  <2>1. PICK d \in Ctxs : peers' = [peers EXCEPT ![d] = [addr |-> user.arg, open |-> FALSE]]
    BY <1>3 DEF Joins
  <2>2. \A c \in Ctxs : ~peers[c].open
    BY <1>3 DEF Joins, BssInv, JoinPcs, Joined
  <2>3. \A c \in Ctxs : ~peers'[c].open
    BY <1>0, <2>1, <2>2 DEF PeersType
  <2> QED BY <2>3 DEF OpenOnlyJoined
<1>4. CASE Opens
  <2>1. sta'.ctx = sta.ctx /\ sta'.state # "NONE"
    BY <1>4 DEF Opens, Address
  <2>2. \A c \in Ctxs : peers'[c].open => sta.ctx = c
    BY <1>0, <1>4 DEF Opens, PeersType, OpenOnlyJoined
  <2> QED BY <2>1, <2>2 DEF OpenOnlyJoined
<1>5. CASE Resets
  BY <1>5 DEF Resets
<1>6. CASE TakesAway
  BY <1>6 DEF TakesAway, NoPeer, OpenOnlyJoined
<1> QED BY <1>0, <1>1, <1>2, <1>3, <1>4, <1>5, <1>6 DEF LinkStep
-----------------------------------------------------------------------------
(* The theorems. *)

\* The inductive invariant of the station.
StaInv == Inv /\ StateInv /\ RecoveryInv /\ ScanInv /\ BssInv /\ OpenInv

LEMMA StaStart ==
  ASSUME Init
  PROVE  StaInv
<1>0. /\ Inv /\ StateInv /\ user = NoUser /\ event = NoEvent /\ timer_data = NoTimers
      /\ scan_req = NoReq /\ scan_cfg = NoReq /\ cqm_low = FALSE /\ work_list = 0
      /\ rd = NoRecovery /\ recovery = [pc |-> "idle", ret |-> TRUE, map |-> {}]
  BY Start, StateStart DEF Init, InitScan
<1>1. RecoveryInv
  BY <1>0 DEF RecoveryInv, MapInv, ReplayInv, Handled, NoRecovery
<1>2. ScanInv
  <2>1. Armed = {}
    BY <1>0 DEF Armed, NoTimers
  <2> QED BY <1>0, <2>1 DEF ScanInv, NoUser
<1>3. PICK b \in {Home, NoBss}, open \in BOOLEAN :
       LET c == IF b = NoBss THEN 0 ELSE 1 IN
       /\ c = 0 => ~open
       /\ sta.bss = b /\ sta.ctx = c
       /\ peers = [d \in Ctxs |-> IF d = c THEN [addr |-> b, open |-> open] ELSE NoPeer]
       /\ cfg = [conn |-> IF open THEN b ELSE NoBss, auth |-> b]
  BY DEF Init, NoSta
<1>4. BssInv
  BY <1>0, <1>3 DEF BssInv, NoUser, NoPeer, JoinPcs
<1>5. OpenInv
  BY <1>0, <1>3 DEF OpenInv, NoUser, NoPeer, NoEvent
<1> QED BY <1>0, <1>1, <1>2, <1>4, <1>5 DEF StaInv

LEMMA StateSteps ==
  ASSUME Inv, StateInv, MapInv, [Next]_vars
  PROVE  StateInv'
<1>1. CASE UNCHANGED vars
  BY <1>1 DEF vars, link, restart, external, StateInv, StaType, LockInv, RetryInv
<1> QED BY <1>1, RequestTypes, UserTypes, EventTypes, OwnTypes, RecoveryTypes, FwTypes DEF Next

\* The station and what it shares stay in their types, core.lock is held by the
\* thread that says so, the recovery replays the peers it has taken away, a scan
\* keeps its request and its timer, and the peer that frames are sent to is the
\* one that cfg80211 knows.
THEOREM StaInvariance == Spec => []StaInv
<1>1. Init => StaInv
  BY StaStart
<1>2. StaInv /\ [Next]_vars => StaInv'
  <2> SUFFICES ASSUME StaInv, [Next]_vars PROVE StaInv'
    OBVIOUS
  <2>1. Inv /\ StateInv /\ RecoveryInv /\ ScanInv /\ BssInv /\ OpenInv /\ MapInv
    BY DEF StaInv, RecoveryInv
  <2>2. Inv' /\ StateInv' /\ RecoveryInv' /\ ScanInv' /\ BssInv'
    BY <2>1, InvSteps, StateSteps, RecoverySteps, ScanSteps, BssSteps
  <2>3. OpenInv'
    BY <2>1, <2>2, OpenSteps
  <2> QED BY <2>2, <2>3 DEF StaInv
<1> QED BY <1>1, <1>2, PTL DEF Spec

\* Every variable of the station, the scans and the timers stays in its type.
THEOREM TypeCorrect == Spec => []TypeOK
<1>1. StaInv => TypeOK
  <2> SUFFICES ASSUME StaInv PROVE TypeOK
    OBVIOUS
  <2> USE DEF StaInv
  <2>1. TimerType
    BY DEF Inv, TimerInv, TimerType, Entry
  <2>2. ScanType
    BY <2>1 DEF ScanInv, ScanType
  <2>3. StaType /\ MapInv /\ lock \in {NoBss, "user", "event"}
    BY DEF StateInv, LockInv, RecoveryInv
  <2> QED BY <2>2, <2>3 DEF TypeOK, StaType, StaRecord, States, Addrs, PeersType, CfgRecord,
          MapInv, RdRecord
<1> QED BY <1>1, StaInvariance, PTL

\* A recovery that has succeeded leaves no connection that both sides keep but
\* whose context it took away; a scan's timer does not outlive the scan.
THEOREM NothingIsLeftBehind == Spec => []NothingLeftBehind
<1>1. StaInv => NothingLeftBehind
  <2> SUFFICES ASSUME StaInv PROVE NothingLeftBehind
    OBVIOUS
  <2> USE DEF StaInv
  <2>1. NoDeadConnection
    <3> SUFFICES ASSUME recovery.pc = "finish", recovery.ret, ~asserted, NEW c \in rd.peer_map,
                        sta.bss = rd.peer[c].addr
                 PROVE  skw_peer_ctx(sta.bss) # 0
      BY DEF NoDeadConnection
    <3>1. c \in Handled
      BY DEF Handled
    <3>2. BssBound /\ sta.bss # NoBss
      BY <3>1, HandledAddress DEF RecoveryInv, ReplayInv
    <3> QED BY <3>2, PeerCtx DEF BssBound
  <2>2. Armed \cap Reqs \subseteq {scan_cfg}
    BY ScanAssumption DEF ScanInv, NoReq
  <2> QED BY <2>1, <2>2 DEF NothingLeftBehind
<1> QED BY <1>1, StaInvariance, PTL

\* The station keeps the one context that is bound, and frames are sent to its
\* peer until it is left: no step but those PeersAgree names lets them part.
THEOREM StationAndPeersAgree == Spec => PeersAgree
<1>1. StaInv /\ [Next]_vars => ContextKept /\ ClosedWhenLeft
  BY ContextSteps, ClosedSteps DEF StaInv
<1> QED BY <1>1, StaInvariance, PTL DEF Spec, PeersAgree
===============================================================================
