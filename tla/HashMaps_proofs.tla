-------------------------- MODULE HashMaps_proofs --------------------------
(***************************************************************************)
(* Proofs about the hash map and the split-ordered list, for every number  *)
(* of threads, buckets and keys: the nodes stay in the split order, with   *)
(* one dummy node for each bucket; the item counter agrees; and each map   *)
(* is a set of keys.                                                       *)
(***************************************************************************)
EXTENDS SetsAndMaps, SequenceTheorems, FiniteSetTheorems, NaturalsInduction, WellFoundedInduction, TLAPS

-----------------------------------------------------------------------------
(* Numbers *)

\* Every set of numbers has a least one.
LEMMA Least ==
  ASSUME NEW A \in SUBSET Nat, A # {}
  PROVE  \E x \in A : \A y \in A : x <= y
<1> DEFINE Q == OpToRel(<, Nat)
<1>1. IsWellFoundedOn(Q, Nat)
  BY NatLessThanWellFounded, Zenon
<1>2. \A x, y \in Nat : y < x => <<y, x>> \in Q
  BY Zenon DEF OpToRel
<1> HIDE DEF Q
<1>3. PICK x \in A : \A y \in A : <<y, x>> \notin Q
  BY <1>1, WFMin, Zenon
<1>4. x \in Nat /\ \A y \in A : ~(y < x)
  BY <1>2, <1>3
<1> QED BY <1>3, <1>4

LEMMA MinIs ==
  ASSUME NEW A \in SUBSET Nat, A # {}
  PROVE  M!Min(A) \in A /\ \A y \in A : M!Min(A) <= y
BY Least DEF M!Min

\* The cardinality that HashMaps speaks of is the one that the theorems do.
LEMMA SameCardinality == \A A : M!Cardinality(A) = Cardinality(A)
BY Zenon DEF M!Cardinality, Cardinality

-----------------------------------------------------------------------------
(* The split order *)

LEMMA Constants ==
  /\ MapKeys \subseteq Nat /\ NoKey \notin MapKeys
  /\ M!Capacity \in Nat \ {0} /\ CountSize \in Nat \ {0} /\ MaxExp2 \in Nat \ {0} /\ LoadFactor \in Nat
  /\ M!SplitOrder
BY ConstantsAssumption DEF M!MapConstants, M!SplitOrder

\* The nodes a split-ordered list may have
Nodes == {M!Dummy(b) : b \in M!Buckets} \cup {M!Regular(k) : k \in MapKeys}

LEMMA NodesAre ==
  /\ Nodes \subseteq M!Element
  /\ \A e \in Nodes : e.order \in Nat
  /\ \A k \in MapKeys : M!Regular(k) \in Nodes /\ M!Regular(k).key = k
  /\ \A b \in M!Buckets : M!Dummy(b) \in Nodes /\ M!Dummy(b).key = NoKey
  /\ \A e \in Nodes : e.key # NoKey => e.key \in MapKeys /\ e = M!Regular(e.key)
  /\ \A b \in M!Buckets, k \in MapKeys : M!Dummy(b) # M!Regular(k)
<1>1. \A k \in MapKeys : M!Regular(k).key = k
  BY DEF M!Regular
<1>2. \A b \in M!Buckets : M!Dummy(b).key = NoKey
  BY DEF M!Dummy
<1> QED BY <1>1, <1>2, Constants DEF Nodes, M!SplitOrder

\* Less is a strict linear order on them.
LEMMA Linear ==
  /\ \A d \in Nodes : ~ M!Less(d, d)
  /\ \A c, d, e \in Nodes : M!Less(c, d) /\ M!Less(d, e) => M!Less(c, e)
  /\ \A d, e \in Nodes : d = e \/ M!Less(d, e) \/ M!Less(e, d)
<1>1. \A e \in Nodes : e.order \in Nat /\ (~ M!IsDummy(e) => e.key \in Nat)
  BY Constants, NodesAre DEF Nodes, M!SplitOrder
<1>2. \A d, e \in Nodes : d.order = e.order => (M!IsDummy(d) <=> M!IsDummy(e))
  BY DEF M!IsDummy
<1>3. ASSUME NEW d \in Nodes, NEW e \in Nodes, d.order = e.order, d.key = e.key PROVE d = e
  BY <1>3 DEF Nodes, M!Dummy, M!Regular
<1>4. ASSUME NEW d \in Nodes, M!IsDummy(d) PROVE d.key = NoKey
  BY <1>4, Constants, NodesAre DEF Nodes, M!SplitOrder
<1>5. ASSUME NEW d \in Nodes, NEW e \in Nodes PROVE d = e \/ M!Less(d, e) \/ M!Less(e, d)
  <2>1. CASE d.order # e.order
    BY <1>1, <2>1 DEF M!Less
  <2>2. CASE d.order = e.order /\ M!IsDummy(d)
    BY <1>2, <1>3, <1>4, <2>2
  <2>3. CASE d.order = e.order /\ ~ M!IsDummy(d)
    BY <1>1, <1>2, <1>3, <2>3 DEF M!Less
  <2> QED BY <2>1, <2>2, <2>3
<1>6. ASSUME NEW c \in Nodes, NEW d \in Nodes, NEW e \in Nodes, M!Less(c, d), M!Less(d, e) PROVE M!Less(c, e)
  BY <1>1, <1>2, <1>6 DEF M!Less
<1>7. \A d \in Nodes : ~ M!Less(d, d)
  BY <1>1 DEF M!Less
<1> QED BY <1>5, <1>6, <1>7

-----------------------------------------------------------------------------
(* Sequences: a node is inserted, or removed, at position p *)

LEMMA InsertedAt ==
  ASSUME NEW s \in Seq(Nodes), NEW p \in 1..(Len(s) + 1), NEW e \in Nodes
  PROVE  /\ M!InsertAt(s, p, e) \in Seq(Nodes) /\ Len(M!InsertAt(s, p, e)) = Len(s) + 1
         /\ \A i \in 1..(Len(s) + 1) :
               M!InsertAt(s, p, e)[i] = IF i < p THEN s[i] ELSE IF i = p THEN e ELSE s[i - 1]
<1> DEFINE a == SubSeq(s, 1, p - 1)
           b == SubSeq(s, p, Len(s))
<1>1. Len(s) \in Nat /\ p \in Nat
  OBVIOUS
<1>2. a \in Seq(Nodes) /\ Len(a) = p - 1 /\ \A i \in 1..(p - 1) : a[i] = s[i]
  BY <1>1
<1>3. b \in Seq(Nodes) /\ Len(b) = Len(s) - p + 1 /\ \A i \in 1..(Len(s) - p + 1) : b[i] = s[p + i - 1]
  BY <1>1
<1> HIDE DEF a, b
<1>4. /\ a \o <<e>> \in Seq(Nodes) /\ Len(a \o <<e>>) = p
      /\ \A i \in 1..p : (a \o <<e>>)[i] = IF i = p THEN e ELSE s[i]
  BY <1>1, <1>2
<1> DEFINE c == a \o <<e>>
<1>5. c \in Seq(Nodes) /\ Len(c) = p /\ \A i \in 1..p : c[i] = IF i = p THEN e ELSE s[i]
  BY <1>4
<1> HIDE DEF c
<1>6. c \o b \in Seq(Nodes) /\ Len(c \o b) = Len(s) + 1
  <2>1. c \o b \in Seq(Nodes) /\ Len(c \o b) = Len(c) + Len(b)
    BY <1>3, <1>5, ConcatProperties
  <2>2. Len(c) = p /\ Len(b) = Len(s) - p + 1
    BY <1>3, <1>5
  <2>3. p + (Len(s) - p + 1) = Len(s) + 1
    BY <1>1
  <2> QED BY <2>1, <2>2, <2>3
<1>7. ASSUME NEW i \in 1..(Len(s) + 1)
      PROVE  (c \o b)[i] = IF i < p THEN s[i] ELSE IF i = p THEN e ELSE s[i - 1]
  <2>1. CASE i <= p
    BY <1>1, <1>3, <1>5, <2>1
  <2>2. CASE i > p
    <3>1. (c \o b)[i] = b[i - p]
      BY <1>1, <1>3, <1>5, <2>2
    <3>2. i - p \in 1..(Len(s) - p + 1) /\ p + (i - p) - 1 = i - 1
      BY <1>1, <2>2
    <3> QED BY <1>1, <1>3, <2>2, <3>1, <3>2
  <2>3. i <= p \/ i > p
    BY <1>1
  <2> QED BY <2>1, <2>2, <2>3
<1>8. M!InsertAt(s, p, e) = c \o b
  BY DEF M!InsertAt, a, b, c
<1> QED BY <1>6, <1>7, <1>8

LEMMA RemovedAt ==
  ASSUME NEW s \in Seq(Nodes), NEW p \in 1..Len(s)
  PROVE  /\ M!RemoveAt(s, p) \in Seq(Nodes) /\ Len(M!RemoveAt(s, p)) = Len(s) - 1
         /\ \A i \in 1..(Len(s) - 1) : M!RemoveAt(s, p)[i] = IF i < p THEN s[i] ELSE s[i + 1]
<1> DEFINE a == SubSeq(s, 1, p - 1)
           b == SubSeq(s, p + 1, Len(s))
<1>1. Len(s) \in Nat /\ p \in Nat
  OBVIOUS
<1>2. a \in Seq(Nodes) /\ Len(a) = p - 1 /\ \A i \in 1..(p - 1) : a[i] = s[i]
  BY <1>1
<1>3. b \in Seq(Nodes) /\ Len(b) = Len(s) - p /\ \A i \in 1..(Len(s) - p) : b[i] = s[p + i]
  BY <1>1
<1> HIDE DEF a, b
<1>4. a \o b \in Seq(Nodes) /\ Len(a \o b) = Len(s) - 1
  BY <1>1, <1>2, <1>3
<1>5. ASSUME NEW i \in 1..(Len(s) - 1)
      PROVE  (a \o b)[i] = IF i < p THEN s[i] ELSE s[i + 1]
  <2>1. CASE i < p
    BY <1>1, <1>2, <1>3, <2>1
  <2>2. CASE i >= p
    <3>1. (a \o b)[i] = b[i - (p - 1)]
      BY <1>1, <1>2, <1>3, <2>2
    <3>2. i - (p - 1) \in 1..(Len(s) - p) /\ p + (i - (p - 1)) = i + 1
      BY <1>1, <2>2
    <3> QED BY <1>1, <1>3, <2>2, <3>1, <3>2
  <2>3. i < p \/ i >= p
    BY <1>1
  <2> QED BY <2>1, <2>2, <2>3
<1>6. M!RemoveAt(s, p) = a \o b
  BY DEF M!RemoveAt, a, b
<1> QED BY <1>4, <1>5, <1>6

\* A sequence of nodes in the split order
Ascends(s) == s \in Seq(Nodes) /\ \A i, j \in DOMAIN s : i < j => M!Less(s[i], s[j])

\* Position p is where e is, or belongs.
Fits(s, p, e) ==
    /\ p \in 1..(Len(s) + 1)
    /\ \A i \in 1..(p - 1) : M!Less(s[i], e)
    /\ \A i \in p..Len(s) : ~ M!Less(s[i], e)

LEMMA FoundAt ==
  ASSUME NEW s, Ascends(s), NEW e \in Nodes, NEW p, Fits(s, p, e)
  PROVE  e \in M!Range(s) <=> p <= Len(s) /\ s[p] = e
<1>1. Len(s) \in Nat /\ DOMAIN s = 1..Len(s) /\ \A i \in 1..Len(s) : s[i] \in Nodes
  BY DEF Ascends
<1>2. ASSUME NEW i \in 1..Len(s), s[i] = e PROVE i = p
  <2>1. ~(i < p)
    BY <1>1, <1>2, Linear DEF Fits
  <2>2. i > p => M!Less(s[p], s[i]) /\ ~ M!Less(s[p], e)
    BY <1>1 DEF Fits, Ascends
  <2> QED BY <1>1, <1>2, <2>1, <2>2 DEF Fits
<1> QED BY <1>1, <1>2 DEF M!Range, Fits

LEMMA AscendsInserted ==
  ASSUME NEW s, Ascends(s), NEW e \in Nodes, NEW p, Fits(s, p, e), e \notin M!Range(s)
  PROVE  /\ Ascends(M!InsertAt(s, p, e))
         /\ M!Range(M!InsertAt(s, p, e)) = M!Range(s) \cup {e}
<1> DEFINE v == M!InsertAt(s, p, e)
<1>1. Len(s) \in Nat /\ DOMAIN s = 1..Len(s) /\ s \in Seq(Nodes) /\ p \in 1..(Len(s) + 1)
  BY DEF Ascends, Fits
<1>2. /\ v \in Seq(Nodes) /\ Len(v) = Len(s) + 1
      /\ \A i \in 1..(Len(s) + 1) : v[i] = IF i < p THEN s[i] ELSE IF i = p THEN e ELSE s[i - 1]
  <2>1. s \in Seq(Nodes) /\ p \in 1..(Len(s) + 1) /\ e \in Nodes
    BY <1>1
  <2>2. v \in Seq(Nodes) /\ Len(v) = Len(s) + 1
    BY ONLY <2>1, InsertedAt
  <2>3. ASSUME NEW i \in 1..(Len(s) + 1) PROVE v[i] = IF i < p THEN s[i] ELSE IF i = p THEN e ELSE s[i - 1]
    BY ONLY <2>1, InsertedAt, i \in 1..(Len(s) + 1)
  <2> QED BY <2>2, <2>3
<1> HIDE DEF v
<1>3. DOMAIN v = 1..(Len(s) + 1)
  BY <1>1, <1>2
<1>4. ASSUME NEW i \in 1..Len(s) PROVE (i < p => M!Less(s[i], e)) /\ (i >= p => M!Less(e, s[i]))
  <2>1. s[i] \in Nodes /\ s[i] # e
    BY <1>1 DEF M!Range
  <2>2. i < p => i \in 1..(p - 1)
    BY <1>1
  <2>3. i >= p => i \in p..Len(s)
    BY <1>1
  <2> QED BY <2>1, <2>2, <2>3, Linear DEF Fits
<1>5. ASSUME NEW i \in 1..(Len(s) + 1), NEW j \in 1..(Len(s) + 1), i < j PROVE M!Less(v[i], v[j])
  <2>1. CASE j < p
    BY <1>1, <1>2, <1>5, <2>1 DEF Ascends
  <2>2. CASE j = p
    <3>1. i \in 1..Len(s) /\ i < p
      BY <1>1, <1>5, <2>2
    <3> QED BY <1>2, <1>4, <2>2, <3>1
  <2>3. CASE j > p
    <3>1. j - 1 \in 1..Len(s) /\ j - 1 >= p /\ v[j] = s[j - 1]
      BY <1>1, <1>2, <2>3
    <3>2. CASE i < p
      <4>1. i \in 1..Len(s) /\ v[i] = s[i] /\ i < j - 1
        BY <1>1, <1>2, <1>5, <2>3, <3>1, <3>2
      <4> QED BY <1>1, <3>1, <4>1 DEF Ascends
    <3>3. CASE i = p
      BY <1>2, <1>4, <3>1, <3>3
    <3>4. CASE i > p
      <4>1. i - 1 \in 1..Len(s) /\ v[i] = s[i - 1] /\ i - 1 < j - 1
        BY <1>1, <1>2, <1>5, <3>4
      <4> QED BY <1>1, <3>1, <4>1 DEF Ascends
    <3> QED BY <1>1, <3>2, <3>3, <3>4
  <2> QED BY <1>1, <2>1, <2>2, <2>3
<1>6. Ascends(v)
  BY <1>2, <1>3, <1>5 DEF Ascends
<1>7. M!Range(v) \subseteq M!Range(s) \cup {e}
  <2>1. ASSUME NEW i \in 1..(Len(s) + 1) PROVE v[i] \in M!Range(s) \cup {e}
    <3>1. (i < p => i \in 1..Len(s)) /\ (i > p => i - 1 \in 1..Len(s))
      BY <1>1
    <3> QED BY <1>1, <1>2, <3>1 DEF M!Range
  <2> QED BY <1>3, <2>1 DEF M!Range
<1>8. M!Range(s) \cup {e} \subseteq M!Range(v)
  <2>1. ASSUME NEW i \in 1..Len(s) PROVE s[i] \in M!Range(v)
    <3>1. i < p => v[i] = s[i] /\ i \in 1..(Len(s) + 1)
      BY <1>1, <1>2
    <3>2. i >= p => v[i + 1] = s[i] /\ i + 1 \in 1..(Len(s) + 1)
      BY <1>1, <1>2
    <3> QED BY <1>1, <1>3, <3>1, <3>2 DEF M!Range
  <2>2. e \in M!Range(v)
    BY <1>1, <1>2, <1>3 DEF M!Range
  <2> QED BY <1>1, <2>1, <2>2 DEF M!Range
<1> QED BY <1>6, <1>7, <1>8 DEF v

LEMMA AscendsRemoved ==
  ASSUME NEW s, Ascends(s), NEW p \in 1..Len(s)
  PROVE  /\ Ascends(M!RemoveAt(s, p))
         /\ M!Range(M!RemoveAt(s, p)) = M!Range(s) \ {s[p]}
<1> DEFINE v == M!RemoveAt(s, p)
<1>1. Len(s) \in Nat /\ DOMAIN s = 1..Len(s) /\ s \in Seq(Nodes)
  BY DEF Ascends
<1>2. /\ v \in Seq(Nodes) /\ Len(v) = Len(s) - 1
      /\ \A i \in 1..(Len(s) - 1) : v[i] = IF i < p THEN s[i] ELSE s[i + 1]
  BY <1>1, RemovedAt
<1> HIDE DEF v
<1>3. DOMAIN v = 1..(Len(s) - 1)
  BY <1>1, <1>2
<1>4. ASSUME NEW i \in 1..Len(s), i # p PROVE s[i] # s[p]
  <2>1. s[i] \in Nodes /\ s[p] \in Nodes
    BY <1>1
  <2>2. M!Less(s[i], s[p]) \/ M!Less(s[p], s[i])
    BY <1>1, <1>4 DEF Ascends
  <2> QED BY <2>1, <2>2, Linear
<1>5. ASSUME NEW i \in 1..(Len(s) - 1) PROVE \E k \in {i, i + 1} : k \in 1..Len(s) /\ k # p /\ v[i] = s[k] /\ (k = i <=> i < p)
  BY <1>1, <1>2
<1>6. ASSUME NEW i \in 1..(Len(s) - 1), NEW j \in 1..(Len(s) - 1), i < j PROVE M!Less(v[i], v[j])
  <2>1. PICK k \in {i, i + 1} : k \in 1..Len(s) /\ v[i] = s[k] /\ (k = i <=> i < p)
    BY <1>5
  <2>2. PICK m \in {j, j + 1} : m \in 1..Len(s) /\ v[j] = s[m] /\ (m = j <=> j < p)
    BY <1>5
  <2>3. k < m
    BY <1>1, <1>6, <2>1, <2>2
  <2> QED BY <1>1, <2>1, <2>2, <2>3 DEF Ascends
<1>7. Ascends(v)
  BY <1>2, <1>3, <1>6 DEF Ascends
<1>8. M!Range(v) \subseteq M!Range(s) \ {s[p]}
  <2>1. ASSUME NEW i \in 1..(Len(s) - 1) PROVE v[i] \in M!Range(s) \ {s[p]}
    <3>1. PICK k \in 1..Len(s) : k # p /\ v[i] = s[k]
      BY <1>5
    <3> QED BY <1>1, <1>4, <3>1 DEF M!Range
  <2> QED BY <1>3, <2>1 DEF M!Range
<1>9. M!Range(s) \ {s[p]} \subseteq M!Range(v)
  <2>1. ASSUME NEW i \in 1..Len(s), i # p PROVE s[i] \in M!Range(v)
    <3>1. i < p => v[i] = s[i] /\ i \in 1..(Len(s) - 1)
      BY <1>1, <1>2
    <3>2. i > p => v[i - 1] = s[i] /\ i - 1 \in 1..(Len(s) - 1)
      BY <1>1, <1>2
    <3> QED BY <1>1, <1>3, <2>1, <3>1, <3>2 DEF M!Range
  <2> QED BY <1>1, <2>1 DEF M!Range
<1> QED BY <1>7, <1>8, <1>9 DEF v

\* The search of the split-ordered list finds the place of a node behind the one it starts at.
LEMMA PositionFits ==
  ASSUME Ascends(list), NEW b \in M!Buckets, M!Dummy(b) \in M!Range(list), NEW e \in Nodes, M!Less(M!Dummy(b), e)
  PROVE  Fits(list, M!Position(b, e), e)
<1> DEFINE f == CHOOSE i \in DOMAIN list : list[i] = M!Dummy(b)
           A == {i \in (f + 1)..Len(list) : ~ M!Less(list[i], e)} \cup {Len(list) + 1}
<1>1. Len(list) \in Nat /\ DOMAIN list = 1..Len(list) /\ \A i \in 1..Len(list) : list[i] \in Nodes
  BY DEF Ascends
<1>2. f \in 1..Len(list) /\ list[f] = M!Dummy(b)
  BY <1>1 DEF M!Range
<1>3. M!Position(b, e) = M!Min(A)
  BY DEF M!Position
<1> HIDE DEF f
<1>4. A \in SUBSET Nat /\ A # {}
  BY <1>1, <1>2
<1>5. M!Min(A) \in A /\ \A y \in A : M!Min(A) <= y
  BY <1>4, MinIs, Zenon
<1> DEFINE p == M!Min(A)
<1>6. p \in A /\ \A y \in A : p <= y
  BY <1>5
<1> HIDE DEF p
<1>7. p \in (f + 1)..(Len(list) + 1)
  BY <1>1, <1>2, <1>6
<1>8. ASSUME NEW i \in 1..(p - 1) PROVE M!Less(list[i], e)
  <2>1. i \in 1..Len(list)
    BY <1>1, <1>2, <1>7
  <2>2. CASE i > f
    <3>1. i \notin A
      BY <1>1, <1>2, <1>6, <1>7
    <3> QED BY <1>1, <1>2, <2>1, <2>2, <3>1
  <2>3. CASE i = f
    BY <1>2, <2>3
  <2>4. CASE i < f
    <3>1. M!Less(list[i], list[f])
      BY <1>1, <1>2, <2>1, <2>4 DEF Ascends
    <3> QED BY <1>1, <1>2, <2>1, <3>1, Linear
  <2> QED BY <1>1, <1>2, <2>1, <2>2, <2>3, <2>4
<1>9. ASSUME NEW i \in p..Len(list) PROVE ~ M!Less(list[i], e)
  <2>1. p \in 1..Len(list) /\ i \in 1..Len(list) /\ p <= i
    BY <1>1, <1>2, <1>7
  <2>2. ~ M!Less(list[p], e)
    BY <1>1, <1>6, <2>1
  <2>3. i = p \/ M!Less(list[p], list[i])
    BY <1>1, <2>1 DEF Ascends
  <2>4. list[p] \in Nodes /\ list[i] \in Nodes
    BY <1>1, <2>1
  <2> QED BY <2>2, <2>3, <2>4, Linear
<1>10. p \in 1..(Len(list) + 1)
  BY <1>1, <1>2, <1>7
<1>11. Fits(list, p, e)
  BY <1>8, <1>9, <1>10 DEF Fits
<1> QED BY <1>3, <1>11 DEF p

-----------------------------------------------------------------------------
(* The invariant *)

\* Where thread t is within its call
Places == {"idle", "bucket", "head", "dummy", "set", "wait", "list", "size", "count", "grow",
           "uncount", "clear", "leave"}
Climbing == {"head", "dummy", "set", "wait"}
Within(t) ==
    /\ pc[t] = "idle" <=> op[t] = "none"
    /\ op[t] \in M!KeyOps <=> arg[t] \in MapKeys
    /\ ans[t] = "none" <=> pc[t] \in Climbing \cup {"idle", "bucket", "list", "clear"}
    /\ pc[t] = "clear" => op[t] = "clear"
    /\ op[t] = "clear" => pc[t] \in {"clear", "leave"}
    /\ pc[t] = "idle" => at[t] = 0
    /\ pc[t] = "grow" => sz[t] < MaxExp2
    /\ kind = "split" => op[t] # "clear"
    /\ kind = "hash" => pc[t] \notin Climbing \cup {"bucket", "size"}

\* What a call has noticed of the set.
Gone(t) == IF arg[t] = NoKey THEN M!Members = {} ELSE arg[t] \notin M!Members
Sees ==
    /\ sawIn \in [Thread -> BOOLEAN] /\ sawOut \in [Thread -> BOOLEAN]
    /\ \A t \in Thread : IF M!PendingIn(op[t], ans[t])
                         THEN (arg[t] \in M!Members => sawIn[t]) /\ (Gone(t) => sawOut[t])
                         ELSE ~sawIn[t] /\ ~sawOut[t]

\* clear of the hash map works alone.
Lonely == \A t, u \in Thread : op[t] = "clear" /\ u # t => pc[u] = "idle"

\* The buckets that t waits for, up to the one it works on: each is the parent of the one
\* before it, and the first is one that may hold its key.
Bucket(t) == M!Last(inits[t])
Ancestry(s, k) ==
    /\ s \in Seq(M!Buckets) /\ Len(s) > 0
    /\ M!Less(M!Dummy(s[1]), M!Regular(k))
    /\ \A i \in 1..(Len(s) - 1) : s[i] # 0 /\ s[i + 1] = M!Parent(s[i])
Climbs(t) ==
    /\ pc[t] \in Climbing => Ancestry(inits[t], arg[t])
    /\ pc[t] = "dummy" => at[t] \in table /\ Bucket(t) # 0 /\ at[t] = M!Parent(Bucket(t))
    /\ pc[t] = "set" => Bucket(t) \notin table
    /\ pc[t] = "list" => at[t] \in table /\ M!Less(M!Dummy(at[t]), M!Regular(arg[t]))

\* The list of the split-ordered list
Sets(t, b) == pc[t] = "set" /\ Bucket(t) = b
Split ==
    /\ Ascends(list)
    /\ 0 \in table
    /\ \A b \in M!Buckets :
          M!Dummy(b) \in M!Range(list) <=> b \in table \/ \E t \in Thread : Sets(t, b)
    /\ \A t, u \in Thread, b \in M!Buckets : Sets(t, b) /\ Sets(u, b) => t = u
    /\ \A t \in Thread : Climbs(t)

\* The buckets of the hash map
Chained ==
    /\ \A b \in M!Buckets : \A k \in list[b] : M!InTable(Hash[k], MaxExp2) = b
    /\ \A t \in Thread : pc[t] = "clear" => \A b \in M!Buckets : b < at[t] => list[b] = {}

MapInv ==
    /\ kind \in Maps
    /\ M!TypeOK /\ IsFiniteSet(M!Members)
    /\ \A t \in Thread : Within(t)
    /\ Sees /\ Lonely
    /\ kind = "split" => Split
    /\ kind = "hash" => Chained

\* The counter agrees with the set but for a multiple of its range, when no clear is at work.
Late(here) == Cardinality({t \in Thread : pc[t] \in here})
Adding == {"size", "count"}
Erasing == {"uncount"}
Tallied ==
    (\A t \in Thread : pc[t] # "clear") =>
        \E k \in Int : count + Late(Adding) = Cardinality(M!Members) + Late(Erasing) + CountSize * k

-----------------------------------------------------------------------------
(* The initial states *)

\* The keys in a list of the split-ordered list
LEMMA KeysOfNodes ==
  ASSUME NEW s, Ascends(s)
  PROVE  {s[i].key : i \in DOMAIN s} \ {NoKey} = {k \in MapKeys : M!Regular(k) \in M!Range(s)}
<1>1. \A i \in DOMAIN s : s[i] \in Nodes
  BY DEF Ascends
<1>2. ASSUME NEW i \in DOMAIN s, s[i].key # NoKey
      PROVE  s[i].key \in MapKeys /\ M!Regular(s[i].key) = s[i]
  BY <1>1, <1>2, NodesAre
<1>3. ASSUME NEW k \in MapKeys, NEW i \in DOMAIN s, M!Regular(k) = s[i] PROVE s[i].key = k /\ k # NoKey
  BY <1>3, NodesAre, Constants
<1> QED BY <1>2, <1>3 DEF M!Range

LEMMA MembersOf ==
  ASSUME kind = "split", Ascends(list)
  PROVE  M!Members = {k \in MapKeys : M!Regular(k) \in M!Range(list)}
BY KeysOfNodes DEF M!Members

LEMMA MapInit ==
  ASSUME kind \in Maps, Init
  PROVE  MapInv /\ Tallied /\ M!Members = {}
<1>1. M!Init
  BY DEF Init, Lists, Maps
<1>2. /\ M!Capacity \in Nat \ {0} /\ 0 \in M!Buckets /\ 1 \in 1..MaxExp2 /\ MaxExp2 \in 1..MaxExp2
      /\ 0 \in 0..(CountSize - 1) /\ 0 \in 0..M!Capacity /\ 0 \in 0..MaxExp2
  BY Constants DEF M!Buckets
<1>3. ASSUME kind = "split" PROVE M!TypeOK /\ M!Members = {} /\ Split
  <2>1. list = <<M!Dummy(0)>> /\ table = {0} /\ exp2 = 1
    BY <1>1, <1>3 DEF M!Init
  <2>2. M!Dummy(0) \in Nodes /\ Len(list) = 1 /\ DOMAIN list = 1..1 /\ list[1] = M!Dummy(0)
    BY <1>2, <2>1, NodesAre
  <2>3. Ascends(list) /\ list \in Seq(M!Element)
    BY <2>1, <2>2, NodesAre DEF Ascends
  <2>4. M!Range(list) = {M!Dummy(0)}
    BY <2>2 DEF M!Range
  <2>5. M!Members = {}
    BY <1>2, <1>3, <2>3, <2>4, MembersOf, NodesAre
  <2>6. \A b \in M!Buckets : M!Dummy(b) \in M!Range(list) <=> b = 0
    BY <1>2, <2>4, Constants DEF M!SplitOrder
  <2>7. M!TypeOK
    BY <1>1, <1>2, <1>3, <2>1, <2>3 DEF M!TypeOK, M!Init
  <2>8. Split
    <3>1. \A t \in Thread : pc[t] = "idle"
      BY <1>1 DEF M!Init
    <3> QED BY <2>1, <2>3, <2>6, <3>1 DEF Split, Sets, Climbs, Climbing
  <2> QED BY <1>3, <2>5, <2>7, <2>8
<1>4. ASSUME kind = "hash" PROVE M!TypeOK /\ M!Members = {} /\ Chained
  <2>1. list = [b \in M!Buckets |-> {}] /\ table = {} /\ exp2 = MaxExp2
    BY <1>1, <1>4 DEF M!Init
  <2>2. M!Members = {}
    BY <1>4, <2>1 DEF M!Members
  <2>3. M!TypeOK
    BY <1>1, <1>2, <1>4, <2>1 DEF M!TypeOK, M!Init
  <2>4. Chained
    BY <1>1, <2>1 DEF Chained, M!Init
  <2> QED BY <1>4, <2>2, <2>3, <2>4
<1>5. M!TypeOK /\ M!Members = {} /\ (kind = "split" => Split) /\ (kind = "hash" => Chained)
  BY <1>3, <1>4 DEF Maps
<1>6. \A t \in Thread : Within(t)
  BY <1>1, Constants DEF Within, M!Init, Climbing, M!KeyOps
<1>7. Sees /\ Lonely
  BY <1>1 DEF Sees, Lonely, M!Init, M!PendingIn
<1>8. MapInv
  BY <1>5, <1>6, <1>7, FS_EmptySet DEF MapInv, Maps
<1>9. Tallied
  <2>1. Late(Adding) = 0 /\ Late(Erasing) = 0 /\ Cardinality(M!Members) = 0 /\ count = 0
    <3>1. {t \in Thread : pc[t] \in Adding} = {} /\ {t \in Thread : pc[t] \in Erasing} = {}
      BY <1>1 DEF M!Init, Adding, Erasing
    <3> QED <4>1. Cardinality({}) = 0
        BY FS_EmptySet
      <4>2. Late(Adding) = Cardinality({}) /\ Late(Erasing) = Cardinality({})
        BY <3>1 DEF Late
      <4> QED BY <1>1, <1>5, <4>1, <4>2 DEF M!Init
  <2> QED BY <2>1, Constants DEF Tallied
<1> QED BY <1>5, <1>8, <1>9

-----------------------------------------------------------------------------
(* What the list operations of the maps do *)

\* A search from a dummy node that stands before e tells whether e is in the list, and
\* where it is to be linked.
LEMMA SearchTells ==
  ASSUME Ascends(list), NEW b \in M!Buckets, M!Dummy(b) \in M!Range(list), NEW e \in Nodes, M!Less(M!Dummy(b), e)
  PROVE  /\ M!Has(b, e) <=> e \in M!Range(list)
         /\ e \notin M!Range(list) => Ascends(M!Linked(b, e)) /\ M!Range(M!Linked(b, e)) = M!Range(list) \cup {e}
         /\ e \in M!Range(list) => Ascends(M!Removed(b, e)) /\ M!Range(M!Removed(b, e)) = M!Range(list) \ {e}
<1> DEFINE p == M!Position(b, e)
<1>2. Fits(list, p, e)
  BY PositionFits
<1>3. M!Has(b, e) <=> p <= Len(list) /\ list[p] = e
  BY DEF M!Has
<1> HIDE DEF p
<1>4. e \in M!Range(list) <=> p <= Len(list) /\ list[p] = e
  BY <1>2, FoundAt
<1>5. ASSUME e \notin M!Range(list)
      PROVE  Ascends(M!Linked(b, e)) /\ M!Range(M!Linked(b, e)) = M!Range(list) \cup {e}
  <2> QED BY <1>2, <1>5, AscendsInserted DEF M!Linked, p
<1>6. ASSUME e \in M!Range(list)
      PROVE  Ascends(M!Removed(b, e)) /\ M!Range(M!Removed(b, e)) = M!Range(list) \ {e}
  <2>1. p \in 1..Len(list) /\ list[p] = e
    <3>1. Len(list) \in Nat
      BY DEF Ascends
    <3> QED BY <1>2, <1>4, <1>6, <3>1 DEF Fits
  <2> QED BY <2>1, AscendsRemoved DEF M!Removed, p
<1>7. M!Has(b, e) <=> e \in M!Range(list)
  BY <1>3, <1>4
<1> QED BY <1>5, <1>6, <1>7, Zenon

\* The dummy node of a bucket in the table is in the list.
LEMMA InTheTable ==
  ASSUME Split, M!TypeOK, NEW b \in table
  PROVE  b \in M!Buckets /\ M!Dummy(b) \in M!Range(list)
BY DEF Split, M!TypeOK

\* The operation of the list finds the key if it is in the set, and adds or removes it.
LEMMA ListWorks ==
  ASSUME MapInv, NEW t \in Thread, pc[t] = "list"
  PROVE  /\ arg[t] \in MapKeys
         /\ M!Present(t) <=> arg[t] \in M!Members
         /\ kind = "split" => LET e == M!Regular(arg[t]) IN
              /\ M!Present(t) <=> e \in M!Range(list)
              /\ e \notin M!Range(list) => Ascends(M!With(t)) /\ M!Range(M!With(t)) = M!Range(list) \cup {e}
              /\ e \in M!Range(list) => Ascends(M!Without(t)) /\ M!Range(M!Without(t)) = M!Range(list) \ {e}
         /\ kind = "hash" => M!Chain(t) \in M!Buckets
<1>1. arg[t] \in MapKeys
  <2>1. op[t] \in M!KeyOps
    BY DEF MapInv, Within, M!TypeOK
  <2> QED BY <2>1 DEF MapInv, Within
<1>2. CASE kind = "split"
  <2>1. at[t] \in table /\ M!Less(M!Dummy(at[t]), M!Regular(arg[t])) /\ Ascends(list)
    BY <1>2 DEF MapInv, Split, Climbs
  <2>2. at[t] \in M!Buckets /\ M!Dummy(at[t]) \in M!Range(list)
    BY <1>2, <2>1, InTheTable DEF MapInv
  <2>3. M!Regular(arg[t]) \in Nodes
    BY <1>1, NodesAre
  <2>4. arg[t] \in M!Members <=> M!Regular(arg[t]) \in M!Range(list)
    BY <1>1, <1>2, <2>1, MembersOf
  <2>5. /\ M!Has(at[t], M!Regular(arg[t])) <=> M!Regular(arg[t]) \in M!Range(list)
        /\ M!Present(t) = M!Has(at[t], M!Regular(arg[t]))
        /\ M!With(t) = M!Linked(at[t], M!Regular(arg[t])) /\ M!Without(t) = M!Removed(at[t], M!Regular(arg[t]))
    BY <1>2, <2>1, <2>2, <2>3, SearchTells DEF M!Present, M!With, M!Without
  <2> QED BY <1>1, <1>2, <2>1, <2>2, <2>3, <2>4, <2>5, SearchTells
<1>3. CASE kind = "hash"
  <2>1. M!Chain(t) \in M!Buckets
    <3>1. MaxExp2 \in 1..MaxExp2
      BY Constants
    <3> QED BY <1>1, <3>1, Constants DEF M!SplitOrder, M!Chain
  <2>2. ASSUME NEW b \in M!Buckets, arg[t] \in list[b] PROVE b = M!Chain(t)
    BY <1>3, <2>2 DEF MapInv, Chained, M!Chain
  <2> QED BY <1>1, <1>3, <2>1, <2>2 DEF M!Present, M!Members
<1> QED BY <1>2, <1>3 DEF MapInv, Maps

LEMMA Adds ==
  ASSUME MapInv, NEW t \in Thread, pc[t] = "list", ~ M!Present(t), list' = M!With(t), kind' = kind
  PROVE  arg[t] \notin M!Members /\ M!Members' = M!Members \cup {arg[t]}
<1>1. arg[t] \in MapKeys /\ arg[t] \notin M!Members
  BY ListWorks
<1>2. CASE kind = "split"
  <2>1. Ascends(list) /\ Ascends(list)' /\ M!Range(list)' = M!Range(list) \cup {M!Regular(arg[t])}
    BY <1>2, ListWorks DEF MapInv, Split
  <2>2. /\ M!Members = {k \in MapKeys : M!Regular(k) \in M!Range(list)}
        /\ M!Members' = {k \in MapKeys : M!Regular(k) \in M!Range(list')}
    BY <1>2, <2>1, KeysOfNodes DEF M!Members
  <2> QED BY <1>1, <2>1, <2>2, NodesAre
<1>3. CASE kind = "hash"
  <2>1. M!Chain(t) \in M!Buckets /\ list \in [M!Buckets -> SUBSET MapKeys]
    BY <1>3, ListWorks DEF MapInv, M!TypeOK
  <2>2. list' = [list EXCEPT ![M!Chain(t)] = @ \cup {arg[t]}]
    BY <1>3 DEF M!With
  <2>3. M!Members = UNION {list[b] : b \in M!Buckets} /\ M!Members' = UNION {list'[b] : b \in M!Buckets}
    BY <1>3 DEF M!Members
  <2> QED BY <1>1, <2>1, <2>2, <2>3
<1> QED BY <1>1, <1>2, <1>3 DEF MapInv, Maps

LEMMA Removes ==
  ASSUME MapInv, NEW t \in Thread, pc[t] = "list", M!Present(t), list' = M!Without(t), kind' = kind
  PROVE  arg[t] \in M!Members /\ M!Members' = M!Members \ {arg[t]}
<1>1. arg[t] \in MapKeys /\ arg[t] \in M!Members
  BY ListWorks
<1>2. CASE kind = "split"
  <2>1. Ascends(list) /\ Ascends(list)' /\ M!Range(list)' = M!Range(list) \ {M!Regular(arg[t])}
    BY <1>2, ListWorks DEF MapInv, Split
  <2>2. /\ M!Members = {k \in MapKeys : M!Regular(k) \in M!Range(list)}
        /\ M!Members' = {k \in MapKeys : M!Regular(k) \in M!Range(list')}
    BY <1>2, <2>1, KeysOfNodes DEF M!Members
  <2> QED BY <1>1, <2>1, <2>2, NodesAre
<1>3. CASE kind = "hash"
  <2>1. M!Chain(t) \in M!Buckets /\ list \in [M!Buckets -> SUBSET MapKeys]
    BY <1>3, ListWorks DEF MapInv, M!TypeOK
  <2>2. list' = [list EXCEPT ![M!Chain(t)] = @ \ {arg[t]}]
    BY <1>3 DEF M!Without
  <2>3. M!Members = UNION {list[b] : b \in M!Buckets} /\ M!Members' = UNION {list'[b] : b \in M!Buckets}
    BY <1>3 DEF M!Members
  <2>4. \A b \in M!Buckets : arg[t] \in list[b] => b = M!Chain(t)
    BY <1>3 DEF MapInv, Chained, M!Chain
  <2> QED BY <1>1, <2>1, <2>2, <2>3, <2>4
<1> QED BY <1>1, <1>2, <1>3 DEF MapInv, Maps

-----------------------------------------------------------------------------
(* A step of thread t *)

LEMMA FrontIs ==
  ASSUME NEW A, NEW s \in Seq(A), Len(s) > 0
  PROVE  /\ M!Last(s) \in A /\ M!Last(s) = s[Len(s)]
         /\ M!Front(s) \in Seq(A) /\ Len(M!Front(s)) = Len(s) - 1
         /\ \A i \in 1..(Len(s) - 1) : M!Front(s)[i] = s[i]
<1>1. Len(s) \in Nat \ {0} /\ Len(s) \in 1..Len(s)
  OBVIOUS
<1>2. M!Last(s) = s[Len(s)] /\ s[Len(s)] \in A
  BY <1>1 DEF M!Last
<1>3. M!Front(s) = SubSeq(s, 1, Len(s) - 1)
  BY DEF M!Front
<1>4. PICK n \in Nat \ {0} : n = Len(s)
  BY <1>1
<1>5. /\ SubSeq(s, 1, n - 1) \in Seq(A) /\ Len(SubSeq(s, 1, n - 1)) = n - 1
      /\ \A i \in 1..(n - 1) : SubSeq(s, 1, n - 1)[i] = s[i]
  BY <1>4
<1> QED BY <1>2, <1>3, <1>4, <1>5

LEMMA AppendIs ==
  ASSUME NEW A, NEW s \in Seq(A), NEW e \in A
  PROVE  /\ Append(s, e) \in Seq(A) /\ Len(Append(s, e)) = Len(s) + 1
         /\ \A i \in 1..Len(s) : Append(s, e)[i] = s[i]
         /\ Append(s, e)[Len(s) + 1] = e /\ M!Last(Append(s, e)) = e
BY DEF M!Last

\* The state of the other calls stays.
Apart(t) ==
    \A u \in Thread \ {t} :
        /\ pc'[u] = pc[u] /\ op'[u] = op[u] /\ arg'[u] = arg[u] /\ ans'[u] = ans[u]
        /\ inits'[u] = inits[u] /\ at'[u] = at[u] /\ sz'[u] = sz[u]
MapStep(t) == M!Call(t) \/ M!CallClear(t) \/ M!MapWorking(t)
Own(t) == Apart(t) /\ M!TypeOK' /\ Within(t)'

\* The bucket that t works on
LEMMA AtBucket ==
  ASSUME MapInv, NEW t \in Thread, pc[t] \in Climbing
  PROVE  /\ kind = "split" /\ Ancestry(inits[t], arg[t]) /\ arg[t] \in MapKeys /\ op[t] \in M!KeyOps
         /\ Bucket(t) \in M!Buckets /\ Bucket(t) = inits[t][Len(inits[t])]
         /\ Bucket(t) \notin table => Bucket(t) # 0 /\ M!Parent(Bucket(t)) \in M!Buckets
<1>1. kind = "split"
  BY DEF MapInv, Within, Maps
<1>2. op[t] \in M!KeyOps
  BY <1>1 DEF MapInv, Within, M!TypeOK, Climbing
<1>3. Ancestry(inits[t], arg[t]) /\ arg[t] \in MapKeys /\ 0 \in table
  BY <1>1, <1>2 DEF MapInv, Split, Climbs, Within
<1>4. inits[t] \in Seq(M!Buckets) /\ Len(inits[t]) > 0
  BY <1>3 DEF Ancestry
<1>5. Bucket(t) \in M!Buckets /\ Bucket(t) = inits[t][Len(inits[t])]
  BY <1>4, FrontIs DEF Bucket
<1>6. Bucket(t) \notin table => Bucket(t) # 0 /\ M!Parent(Bucket(t)) \in M!Buckets
  BY <1>3, <1>5, Constants DEF M!SplitOrder
<1> QED BY <1>1, <1>2, <1>3, <1>5, <1>6

LEMMA FoundOwn ==
  ASSUME MapInv, NEW t \in Thread, pc[t] \in Climbing, M!Found(t, Bucket(t)), kind' = kind,
         UNCHANGED <<list, exp2, count, op, arg, ans, sz>>, table' \subseteq M!Buckets
  PROVE  Own(t)
<1>1. /\ kind = "split" /\ inits[t] \in Seq(M!Buckets) /\ Len(inits[t]) > 0 /\ Bucket(t) \in M!Buckets
      /\ op[t] \in M!KeyOps
  BY AtBucket DEF Ancestry
<1>2. M!Front(inits[t]) \in Seq(M!Buckets)
  BY <1>1, FrontIs
<1>3. Bucket(t) \in 0..M!Capacity
  BY <1>1, Constants DEF M!Buckets
<1>4. Apart(t)
  BY DEF M!Found, M!Goto, Apart, MapInv, M!TypeOK
<1>5. M!TypeOK'
  BY <1>1, <1>2, <1>3 DEF M!Found, M!Goto, MapInv, M!TypeOK
<1>6. Within(t)'
  BY <1>1 DEF M!Found, M!Goto, MapInv, M!TypeOK, Within, M!KeyOps, Climbing
<1> QED BY <1>4, <1>5, <1>6 DEF Own

\* The bucket is looked for.
LEMMA ClimbOwn ==
  ASSUME MapInv, NEW t \in Thread, M!FindBucket(t) \/ M!InitBucket(t), kind' = kind
  PROVE  Own(t)
<1>1. /\ exp2 \in 1..MaxExp2 /\ table \subseteq M!Buckets /\ inits \in [Thread -> Seq(M!Buckets)]
      /\ kind = "split" => list \in Seq(M!Element)
  BY DEF MapInv, M!TypeOK
<1>2. CASE M!FindBucket(t)
  <2>1. kind = "split" /\ op[t] \in M!KeyOps /\ arg[t] \in MapKeys
    BY <1>2 DEF M!FindBucket, MapInv, Within, Maps, M!TypeOK
  <2>2. M!BucketNo(Hash[arg[t]]) \in M!Buckets
    BY <1>1, <2>1, Constants DEF M!SplitOrder, M!BucketNo
  <2>3. <<M!BucketNo(Hash[arg[t]])>> \in Seq(M!Buckets)
    BY <2>2
  <2>4. Apart(t)
    BY <1>2 DEF M!FindBucket, M!Goto, M!mapVars, M!callVars, Apart, MapInv, M!TypeOK
  <2>5. M!TypeOK'
    BY <1>2, <2>1, <2>3 DEF M!FindBucket, M!Goto, M!mapVars, M!callVars, MapInv, M!TypeOK
  <2>6. Within(t)'
    BY <1>2, <2>1 DEF M!FindBucket, M!Goto, M!mapVars, M!callVars, MapInv, M!TypeOK, Within, M!KeyOps, Climbing
  <2> QED BY <2>4, <2>5, <2>6 DEF Own
<1>3. CASE M!LookHead(t)
  <2>1. pc[t] = "head" /\ pc[t] \in Climbing
    BY <1>3 DEF M!LookHead, Climbing
  <2>2. CASE Bucket(t) \in table
    <3>1. M!Found(t, Bucket(t)) /\ UNCHANGED <<list, table, exp2, count, op, arg, ans, sz>>
      BY <1>3, <2>2 DEF M!LookHead, Bucket, M!mapVars, M!callVars
    <3> QED BY <1>1, <2>1, <3>1, FoundOwn
  <2>3. CASE Bucket(t) \notin table
    <3>1. inits[t] \in Seq(M!Buckets) /\ M!Parent(Bucket(t)) \in M!Buckets
      BY <1>1, <2>1, <2>3, AtBucket
    <3>2. Append(inits[t], M!Parent(Bucket(t))) \in Seq(M!Buckets)
      BY <3>1, AppendIs
    <3>3. /\ inits' = [inits EXCEPT ![t] = Append(@, M!Parent(Bucket(t)))]
          /\ UNCHANGED <<list, table, exp2, count, op, arg, ans, sz, at, pc>>
      BY <1>3, <2>3 DEF M!LookHead, Bucket, M!mapVars, M!callVars
    <3>4. Apart(t)
      BY <3>3 DEF Apart, MapInv, M!TypeOK
    <3>5. M!TypeOK'
      BY <3>2, <3>3 DEF MapInv, M!TypeOK
    <3>6. Within(t)'
      BY <3>3, <2>1 DEF MapInv, M!TypeOK, Within, M!KeyOps, Climbing
    <3> QED BY <3>4, <3>5, <3>6 DEF Own
  <2> QED BY <2>2, <2>3
<1>4. CASE M!InsertDummy(t)
  <2>1. pc[t] = "dummy" /\ pc[t] \in Climbing /\ kind = "split" /\ op[t] \in M!KeyOps /\ Bucket(t) \in M!Buckets
    <3>1. pc[t] = "dummy" /\ pc[t] \in Climbing
      BY <1>4 DEF M!InsertDummy, Climbing
    <3> QED BY <3>1, AtBucket
  <2>2. PICK e : e = M!Dummy(Bucket(t))
    OBVIOUS
  <2>3. /\ at[t] \in table /\ Ascends(list) /\ at[t] \in M!Buckets /\ M!Dummy(at[t]) \in M!Range(list)
        /\ M!Less(M!Dummy(at[t]), e) /\ e \in Nodes
    <3>1. at[t] \in table /\ Bucket(t) # 0 /\ at[t] = M!Parent(Bucket(t)) /\ Ascends(list)
      BY <2>1 DEF MapInv, Split, Climbs
    <3>2. M!Dummy(at[t]) \in M!Range(list) /\ at[t] \in M!Buckets
      BY <2>1, <3>1, InTheTable DEF MapInv
    <3>3. M!Less(M!Dummy(at[t]), e)
      BY <2>1, <2>2, <3>1, Constants DEF M!SplitOrder
    <3>4. e \in Nodes
      BY <2>1, <2>2, NodesAre
    <3> QED BY <3>1, <3>2, <3>3, <3>4
  <2>4. M!Has(at[t], e) <=> e \in M!Range(list)
    BY <2>3, SearchTells
  <2>5. /\ \/ pc' = [pc EXCEPT ![t] = "wait"] /\ list' = list
           \/ pc' = [pc EXCEPT ![t] = "set"] /\ Ascends(list')
        /\ UNCHANGED <<table, exp2, count, op, arg, ans, inits, at, sz>>
    <3>1. CASE e \in M!Range(list)
      BY <1>4, <2>2, <2>4, <3>1 DEF M!InsertDummy, M!Goto, M!callVars, Bucket
    <3>2. CASE e \notin M!Range(list)
      <4>1. list' = M!Linked(at[t], e) /\ pc' = [pc EXCEPT ![t] = "set"]
        BY <1>4, <2>2, <2>4, <3>2 DEF M!InsertDummy, M!Goto, M!callVars, Bucket
      <4>2. Ascends(list')
        BY <2>3, <3>2, <4>1, SearchTells
      <4> QED BY <1>4, <4>1, <4>2 DEF M!InsertDummy, M!callVars
    <3> QED BY <3>1, <3>2
  <2>6. list' \in Seq(M!Element)
    <3>1. \A s : Ascends(s) => s \in Seq(M!Element)
      BY NodesAre DEF Ascends
    <3> QED BY <1>1, <2>1, <2>5, <3>1
  <2>7. Apart(t)
    BY <2>5 DEF Apart, MapInv, M!TypeOK
  <2>8. M!TypeOK'
    BY <2>1, <2>5, <2>6 DEF MapInv, M!TypeOK
  <2>9. Within(t)'
    BY <2>1, <2>5 DEF MapInv, M!TypeOK, Within, M!KeyOps, Climbing
  <2> QED BY <2>7, <2>8, <2>9 DEF Own
<1>5. CASE M!SetBucket(t)
  <2>1. pc[t] \in Climbing
    BY <1>5 DEF M!SetBucket, Climbing
  <2>2. M!Found(t, Bucket(t)) /\ UNCHANGED <<list, exp2, count, op, arg, ans, sz>> /\ table' = table \cup {Bucket(t)}
    BY <1>5 DEF M!SetBucket, Bucket, M!callVars
  <2>3. table' \subseteq M!Buckets
    BY <1>1, <2>1, <2>2, AtBucket
  <2> QED BY <2>1, <2>2, <2>3, FoundOwn
<1>6. CASE M!WaitBucket(t)
  <2>1. pc[t] \in Climbing
    BY <1>6 DEF M!WaitBucket, Climbing
  <2>2. M!Found(t, Bucket(t)) /\ UNCHANGED <<list, exp2, count, op, arg, ans, sz, table>>
    BY <1>6 DEF M!WaitBucket, Bucket, M!callVars, M!mapVars
  <2> QED BY <1>1, <2>1, <2>2, FoundOwn
<1> QED BY <1>2, <1>3, <1>4, <1>5, <1>6 DEF M!InitBucket

\* The operation of the list
Key(t) == M!Regular(arg[t])
Answers(t) ==
    \/ op[t] \in {"insert", "ensure"} /\ ~ M!Present(t) /\ list' = M!With(t) /\ ans'[t] = "yes"
    \/ op[t] = "erase" /\ M!Present(t) /\ list' = M!Without(t) /\ ans'[t] = "yes"
    \/ /\ list' = list
       /\ \/ op[t] \in {"insert", "ensure"} /\ M!Present(t) /\ ans'[t] = "no"
          \/ op[t] = "erase" /\ ~ M!Present(t) /\ ans'[t] = "no"
          \/ op[t] \in {"find", "emplace"} /\ ans'[t] = IF M!Present(t) THEN "yes" ELSE "no"
LEMMA ListOpDoes ==
  ASSUME MapInv, NEW t \in Thread, M!ListOp(t), kind' = kind
  PROVE  /\ pc[t] = "list" /\ Answers(t)
         /\ pc'[t] = IF list' = list THEN "leave"
                     ELSE IF op[t] = "erase" THEN "uncount"
                     ELSE IF kind = "split" THEN "size" ELSE "count"
         /\ pc' = [pc EXCEPT ![t] = pc'[t]] /\ ans' = [ans EXCEPT ![t] = ans'[t]]
         /\ UNCHANGED <<table, exp2, count, op, arg, inits, at, sz>>
         /\ list' # list => M!Members' # M!Members
<1>1. pc[t] = "list" /\ UNCHANGED <<table, exp2, count, op, arg, inits, at, sz>>
  BY DEF M!ListOp
<1>2. ~ M!Present(t) /\ list' = M!With(t) => M!Members' # M!Members
  BY <1>1, Adds
<1>3. M!Present(t) /\ list' = M!Without(t) => M!Members' # M!Members
  BY <1>1, Removes
<1>4. M!Members' # M!Members => list' # list
  BY DEF M!Members
<1>5. pc \in [Thread -> Places] /\ ans \in [Thread -> {"none", "yes", "no"}]
  BY DEF MapInv, M!TypeOK, Places
<1>6. CASE M!ListInsert(t)
  <2>1. CASE M!Present(t)
    BY <1>1, <1>5, <1>6, <2>1 DEF M!ListInsert, M!Goto, Answers
  <2>2. CASE ~ M!Present(t)
    BY <1>1, <1>2, <1>4, <1>5, <1>6, <2>2 DEF M!ListInsert, M!Goto, Answers
  <2> QED BY <2>1, <2>2
<1>7. CASE M!ListErase(t)
  <2>1. CASE M!Present(t)
    BY <1>1, <1>3, <1>4, <1>5, <1>7, <2>1 DEF M!ListErase, M!Goto, Answers
  <2>2. CASE ~ M!Present(t)
    BY <1>1, <1>5, <1>7, <2>2 DEF M!ListErase, M!Goto, Answers
  <2> QED BY <2>1, <2>2
<1>8. CASE M!ListFind(t)
  BY <1>1, <1>5, <1>8 DEF M!ListFind, M!Goto, Answers
<1> QED BY <1>6, <1>7, <1>8 DEF M!ListOp

LEMMA ListOpOwn ==
  ASSUME MapInv, NEW t \in Thread, M!ListOp(t), kind' = kind
  PROVE  Own(t)
<1>1. /\ pc[t] = "list" /\ Answers(t)
      /\ pc'[t] = IF list' = list THEN "leave"
                  ELSE IF op[t] = "erase" THEN "uncount"
                  ELSE IF kind = "split" THEN "size" ELSE "count"
      /\ pc' = [pc EXCEPT ![t] = pc'[t]] /\ ans' = [ans EXCEPT ![t] = ans'[t]]
      /\ UNCHANGED <<table, exp2, count, op, arg, inits, at, sz>>
  BY ListOpDoes
<1>2. op[t] \in M!KeyOps /\ arg[t] \in MapKeys
  BY <1>1 DEF MapInv, Within, M!TypeOK
<1>3. ans'[t] \in {"yes", "no"} /\ pc'[t] \in {"leave", "uncount", "size", "count"}
  BY <1>1 DEF Answers
<1>4. IF kind = "split" THEN list' \in Seq(M!Element) ELSE list' \in [M!Buckets -> SUBSET MapKeys]
  <2>1. CASE list' = list
    BY <2>1 DEF MapInv, M!TypeOK
  <2>2. CASE kind = "split" /\ list' # list
    <3>1. Ascends(list')
      BY <1>1, <2>2, ListWorks DEF Answers
    <3> QED BY <2>2, <3>1, NodesAre DEF Ascends
  <2>3. CASE kind = "hash" /\ list' # list
    <3>1. M!Chain(t) \in M!Buckets /\ list \in [M!Buckets -> SUBSET MapKeys]
      BY <1>1, <2>3, ListWorks DEF MapInv, M!TypeOK
    <3> QED BY <1>1, <1>2, <2>3, <3>1 DEF Answers, M!With, M!Without
  <2> QED BY <2>1, <2>2, <2>3 DEF MapInv, Maps
<1>5. Apart(t)
  BY <1>1 DEF Apart, MapInv, M!TypeOK
<1>6. M!TypeOK'
  <2>1. pc' \in [Thread -> Places]
    <3>1. pc \in [Thread -> Places] /\ pc'[t] \in Places
      BY <1>3 DEF MapInv, M!TypeOK, Places
    <3>2. pc' = [pc EXCEPT ![t] = pc'[t]]
      BY <1>1
    <3> QED BY <3>1, <3>2
  <2>2. ans' \in [Thread -> {"none", "yes", "no"}]
    BY <1>1, <1>3 DEF MapInv, M!TypeOK
  <2>3. IF kind' = "split" THEN list' \in Seq(M!Element) ELSE list' \in [M!Buckets -> SUBSET MapKeys]
    BY <1>4
  <2>4. UNCHANGED <<kind, table, exp2, count, op, arg, inits, at, sz>>
    BY <1>1
  <2> QED BY <2>1, <2>2, <2>3, <2>4 DEF MapInv, M!TypeOK, Places
<1>7. Within(t)'
  BY <1>1, <1>2, <1>3 DEF MapInv, M!TypeOK, Within, M!KeyOps, Climbing
<1> QED BY <1>5, <1>6, <1>7 DEF Own

\* The counter, the growth of the table, and the return
LEMMA CountOwn ==
  ASSUME MapInv, NEW t \in Thread, M!IncItemCount(t) \/ M!Discount(t) \/ M!Return(t), kind' = kind
  PROVE  Own(t)
<1>1. CASE M!LoadSize(t)
  <2>1. exp2 \in 0..MaxExp2
    BY Constants DEF MapInv, M!TypeOK
  <2>2. Apart(t)
    BY <1>1 DEF M!LoadSize, M!Goto, M!mapVars, M!callVars, Apart, MapInv, M!TypeOK
  <2>3. M!TypeOK'
    BY <1>1, <2>1 DEF M!LoadSize, M!Goto, M!mapVars, M!callVars, MapInv, M!TypeOK
  <2>4. Within(t)'
    BY <1>1 DEF M!LoadSize, M!Goto, M!mapVars, M!callVars, MapInv, M!TypeOK, Within, M!KeyOps, Climbing
  <2> QED BY <2>2, <2>3, <2>4 DEF Own
<1>2. CASE M!Count(t)
  <2>1. /\ pc[t] = "count" /\ count' \in 0..(CountSize - 1)
        /\ UNCHANGED <<list, table, exp2, op, arg, ans, inits, at, sz>>
    <3>1. count \in Nat /\ CountSize \in Nat \ {0}
      BY Constants DEF MapInv, M!TypeOK
    <3>2. (count + 1) % CountSize \in 0..(CountSize - 1)
      BY <3>1
    <3> QED BY <1>2, <3>2 DEF M!Count, M!callVars
  <2>2. /\ pc' = [pc EXCEPT ![t] = pc'[t]]
        /\ pc'[t] = "leave" \/ (pc'[t] = "grow" /\ sz[t] < MaxExp2)
    <3>1. CASE kind = "split" /\ M!TooSmall(t)
      BY <1>2, <3>1 DEF M!Count, M!TooSmall, M!Goto, MapInv, M!TypeOK
    <3>2. CASE ~ (kind = "split" /\ M!TooSmall(t))
      BY <1>2, <3>2 DEF M!Count, M!Goto, MapInv, M!TypeOK
    <3> QED BY <3>1, <3>2
  <2>3. Apart(t)
    BY <2>1, <2>2 DEF Apart, MapInv, M!TypeOK
  <2>4. M!TypeOK'
    BY <2>1, <2>2 DEF MapInv, M!TypeOK
  <2>5. Within(t)'
    BY <2>1, <2>2 DEF MapInv, M!TypeOK, Within, M!KeyOps, Climbing
  <2> QED BY <2>3, <2>4, <2>5 DEF Own
<1>3. CASE M!Grow(t)
  <2>1. /\ pc[t] = "grow" /\ pc' = [pc EXCEPT ![t] = "leave"] /\ exp2' \in 1..MaxExp2
        /\ UNCHANGED <<list, table, count, op, arg, ans, inits, at, sz>>
    <3>1. pc[t] = "grow" /\ exp2' = IF exp2 = sz[t] THEN sz[t] + 1 ELSE exp2
      BY <1>3 DEF M!Grow
    <3>2. sz[t] < MaxExp2 /\ exp2 \in 1..MaxExp2 /\ MaxExp2 \in Nat
      BY <3>1, Constants DEF MapInv, Within, M!TypeOK
    <3>3. exp2' \in 1..MaxExp2
      BY <3>1, <3>2
    <3> QED BY <1>3, <3>3 DEF M!Grow, M!Goto, M!callVars
  <2>2. Apart(t)
    BY <2>1 DEF Apart, MapInv, M!TypeOK
  <2>3. M!TypeOK'
    BY <2>1 DEF MapInv, M!TypeOK
  <2>4. Within(t)'
    BY <2>1 DEF MapInv, M!TypeOK, Within, M!KeyOps, Climbing
  <2> QED BY <2>2, <2>3, <2>4 DEF Own
<1>4. CASE M!Discount(t)
  <2>1. /\ pc[t] = "uncount" /\ pc' = [pc EXCEPT ![t] = "leave"] /\ count' \in 0..(CountSize - 1)
        /\ UNCHANGED <<list, table, exp2, op, arg, ans, inits, at, sz>>
    <3>1. count \in Nat /\ CountSize \in Nat \ {0}
      BY Constants DEF MapInv, M!TypeOK
    <3>2. (count + CountSize - 1) % CountSize \in 0..(CountSize - 1)
      BY <3>1
    <3> QED BY <1>4, <3>2 DEF M!Discount, M!Uncount, M!Goto, M!callVars
  <2>2. Apart(t)
    BY <2>1 DEF Apart, MapInv, M!TypeOK
  <2>3. M!TypeOK'
    BY <2>1 DEF MapInv, M!TypeOK
  <2>4. Within(t)'
    BY <2>1 DEF MapInv, M!TypeOK, Within, M!KeyOps, Climbing
  <2> QED BY <2>2, <2>3, <2>4 DEF Own
<1>5. CASE M!Return(t)
  <2>1. 0 \in 0..M!Capacity /\ 0 \in 0..MaxExp2 /\ NoKey \notin MapKeys
    BY Constants
  <2>2. Apart(t)
    BY <1>5 DEF M!Return, M!Goto, M!mapVars, Apart, MapInv, M!TypeOK
  <2>3. M!TypeOK'
    BY <1>5, <2>1 DEF M!Return, M!Goto, M!mapVars, MapInv, M!TypeOK
  <2>4. Within(t)'
    BY <1>5, <2>1 DEF M!Return, M!Goto, M!mapVars, MapInv, M!TypeOK, Within, M!KeyOps, Climbing
  <2> QED BY <2>2, <2>3, <2>4 DEF Own
<1> QED BY <1>1, <1>2, <1>3, <1>4, <1>5 DEF M!IncItemCount

\* A call starts.
LEMMA CallOwn ==
  ASSUME MapInv, NEW t \in Thread, M!Call(t) \/ M!CallClear(t), kind' = kind
  PROVE  Own(t)
<1>1. CASE M!Call(t)
  <2>1. PICK o \in M!KeyOps, k \in MapKeys : op' = [op EXCEPT ![t] = o] /\ arg' = [arg EXCEPT ![t] = k]
    BY <1>1 DEF M!Call
  <2>2. /\ pc[t] = "idle" /\ pc' = [pc EXCEPT ![t] = IF kind = "split" THEN "bucket" ELSE "list"]
        /\ UNCHANGED <<list, table, exp2, count, ans, inits, at, sz>>
    BY <1>1 DEF M!Call, M!Goto, M!mapVars
  <2>3. Apart(t)
    BY <2>1, <2>2 DEF Apart, MapInv, M!TypeOK
  <2>4. M!TypeOK'
    BY <2>1, <2>2 DEF MapInv, M!TypeOK
  <2>5. Within(t)'
    BY <2>1, <2>2 DEF MapInv, M!TypeOK, Within, M!KeyOps, Climbing
  <2> QED BY <2>3, <2>4, <2>5 DEF Own
<1>2. CASE M!CallClear(t)
  <2>1. pc[t] = "idle" /\ kind = "hash"
    BY <1>2 DEF M!CallClear
  <2>2. Apart(t)
    BY <1>2 DEF M!CallClear, M!Goto, M!mapVars, Apart, MapInv, M!TypeOK
  <2>3. M!TypeOK'
    BY <1>2 DEF M!CallClear, M!Goto, M!mapVars, MapInv, M!TypeOK
  <2>4. Within(t)'
    BY <1>2, <2>1 DEF M!CallClear, M!Goto, M!mapVars, MapInv, M!TypeOK, Within, M!KeyOps, Climbing
  <2> QED BY <2>2, <2>3, <2>4 DEF Own
<1> QED BY <1>1, <1>2

\* clear goes on.
LEMMA ClearOwn ==
  ASSUME MapInv, NEW t \in Thread, M!Clear(t), kind' = kind
  PROVE  Own(t)
<1>1. /\ pc[t] = "clear" /\ op[t] = "clear" /\ kind = "hash"
      /\ UNCHANGED <<table, exp2, op, arg, inits, sz>>
  BY DEF M!Clear, MapInv, Within, Maps
<1>2. list \in [M!Buckets -> SUBSET MapKeys] /\ at[t] \in 0..M!Capacity
  BY <1>1 DEF MapInv, M!TypeOK
<1>3. CASE at[t] \in M!Buckets /\ list[at[t]] = {}
  <2>1. at' = [at EXCEPT ![t] = at[t] + 1] /\ UNCHANGED <<list, count, ans, pc>>
    BY <1>3 DEF M!Clear
  <2>2. at[t] + 1 \in 0..M!Capacity
    BY <1>3, Constants DEF M!Buckets
  <2>3. Apart(t)
    BY <1>1, <2>1 DEF Apart, MapInv, M!TypeOK
  <2>4. M!TypeOK'
    BY <1>1, <2>1, <2>2 DEF MapInv, M!TypeOK
  <2>5. Within(t)'
    BY <1>1, <2>1 DEF MapInv, M!TypeOK, Within, M!KeyOps, Climbing
  <2> QED BY <2>3, <2>4, <2>5 DEF Own
<1>4. CASE at[t] \in M!Buckets /\ list[at[t]] # {}
  <2>1. PICK k : list' = [list EXCEPT ![at[t]] = @ \ {k}]
    BY <1>4 DEF M!Clear
  <2>2. UNCHANGED <<at, count, ans, pc>>
    BY <1>4 DEF M!Clear
  <2>3. list' \in [M!Buckets -> SUBSET MapKeys]
    BY <1>2, <2>1
  <2>4. Apart(t)
    BY <1>1, <2>2 DEF Apart
  <2>5. M!TypeOK'
    BY <1>1, <2>2, <2>3 DEF MapInv, M!TypeOK
  <2>6. Within(t)'
    BY <1>1, <2>2 DEF MapInv, M!TypeOK, Within
  <2> QED BY <2>4, <2>5, <2>6 DEF Own
<1>5. CASE at[t] \notin M!Buckets
  <2>1. /\ count' = 0 /\ ans' = [ans EXCEPT ![t] = "yes"] /\ pc' = [pc EXCEPT ![t] = "leave"]
        /\ UNCHANGED <<list, at>>
    BY <1>5 DEF M!Clear, M!Goto
  <2>2. 0 \in 0..(CountSize - 1)
    BY Constants
  <2>3. Apart(t)
    BY <1>1, <2>1 DEF Apart, MapInv, M!TypeOK
  <2>4. M!TypeOK'
    BY <1>1, <2>1, <2>2 DEF MapInv, M!TypeOK
  <2>5. Within(t)'
    BY <1>1, <2>1 DEF MapInv, M!TypeOK, Within, M!KeyOps, Climbing
  <2> QED BY <2>3, <2>4, <2>5 DEF Own
<1> QED BY <1>3, <1>4, <1>5

LEMMA StepOwn ==
  ASSUME MapInv, NEW t \in Thread, MapStep(t), kind' = kind
  PROVE  Own(t)
BY ClimbOwn, ListOpOwn, CountOwn, CallOwn, ClearOwn DEF MapStep, M!MapWorking

-----------------------------------------------------------------------------
(* The split-ordered list stays in order. *)

\* What a step does to the list and the table
Keeps(t) ==
    /\ pc[t] # "set" /\ pc'[t] # "set" /\ table' = table /\ Ascends(list')
    /\ \A b \in M!Buckets : M!Dummy(b) \in M!Range(list') <=> M!Dummy(b) \in M!Range(list)
LinksDummy(t) ==
    /\ pc[t] # "set" /\ pc'[t] = "set" /\ table' = table /\ Ascends(list')
    /\ Bucket(t) \in M!Buckets /\ Bucket(t)' = Bucket(t)
    /\ M!Dummy(Bucket(t)) \notin M!Range(list)
    /\ M!Range(list') = M!Range(list) \cup {M!Dummy(Bucket(t))}
FillsIn(t) ==
    /\ pc[t] = "set" /\ pc'[t] # "set" /\ list' = list
    /\ Bucket(t) \in M!Buckets /\ table' = table \cup {Bucket(t)}

LEMMA SplitKept ==
  ASSUME MapInv, kind = "split", NEW t \in Thread, Own(t), Climbs(t)', Keeps(t) \/ LinksDummy(t) \/ FillsIn(t)
  PROVE  Split'
<1>1. /\ Ascends(list) /\ 0 \in table
      /\ \A b \in M!Buckets : M!Dummy(b) \in M!Range(list) <=> b \in table \/ \E u \in Thread : Sets(u, b)
      /\ \A u, v \in Thread, b \in M!Buckets : Sets(u, b) /\ Sets(v, b) => u = v
      /\ \A u \in Thread : Climbs(u)
  BY DEF MapInv, Split
<1>2. \A u \in Thread \ {t} : /\ pc'[u] = pc[u] /\ arg'[u] = arg[u] /\ inits'[u] = inits[u] /\ at'[u] = at[u]
                              /\ Bucket(u)' = Bucket(u)
  BY DEF Own, Apart, Bucket
<1>3. \A u \in Thread \ {t}, b \in M!Buckets : Sets(u, b)' <=> Sets(u, b)
  BY <1>2 DEF Sets
<1>4. Ascends(list') /\ 0 \in table' /\ table \subseteq table'
  BY <1>1 DEF Keeps, LinksDummy, FillsIn
<1>5. ASSUME NEW u \in Thread \ {t}, pc[u] = "set" PROVE Bucket(u) \notin table'
  <2>1. Bucket(u) \notin table
    BY <1>1, <1>5 DEF Climbs
  <2>2. CASE table' = table
    BY <2>1, <2>2
  <2>3. CASE FillsIn(t)
    <3>1. Bucket(u) # Bucket(t)
      BY <1>1, <1>5, <2>3 DEF Sets, FillsIn
    <3> QED BY <2>1, <2>3, <3>1 DEF FillsIn
  <2> QED BY <2>2, <2>3 DEF Keeps, LinksDummy
<1>6. ASSUME NEW u \in Thread PROVE Climbs(u)'
  <2>1. CASE u = t
    BY <2>1
  <2>2. CASE u # t
    <3>1. u \in Thread \ {t}
      BY <2>2
    <3>2. Climbs(u)
      BY <1>1
    <3> QED BY <1>2, <1>4, <1>5, <3>1, <3>2 DEF Climbs
  <2> QED BY <2>1, <2>2
<1>7. /\ \A b \in M!Buckets : M!Dummy(b) \in M!Range(list') <=> b \in table' \/ \E u \in Thread : Sets(u, b)'
      /\ \A u, v \in Thread, b \in M!Buckets : Sets(u, b)' /\ Sets(v, b)' => u = v
  <2>1. CASE Keeps(t)
    <3>1. \A u \in Thread, b \in M!Buckets : Sets(u, b)' <=> Sets(u, b)
      BY <1>3, <2>1 DEF Sets, Keeps
    <3> QED BY <1>1, <2>1, <3>1 DEF Keeps
  <2>2. CASE LinksDummy(t)
    <3>1. \A b \in M!Buckets : ~ Sets(t, b) /\ (Sets(t, b)' <=> b = Bucket(t))
      BY <2>2 DEF LinksDummy, Sets
    <3>2. ~ \E u \in Thread : Sets(u, Bucket(t))
      BY <1>1, <2>2 DEF LinksDummy
    <3>3. \A b \in M!Buckets : M!Dummy(b) \in M!Range(list') <=> M!Dummy(b) \in M!Range(list) \/ b = Bucket(t)
      BY <2>2, Constants DEF LinksDummy, M!SplitOrder
    <3>4. \A b \in M!Buckets : M!Dummy(b) \in M!Range(list') <=> b \in table' \/ \E u \in Thread : Sets(u, b)'
      BY <1>1, <1>3, <2>2, <3>1, <3>3 DEF LinksDummy
    <3>5. ASSUME NEW u \in Thread, NEW v \in Thread, NEW b \in M!Buckets, Sets(u, b)', Sets(v, b)' PROVE u = v
      BY <1>1, <1>3, <3>1, <3>2, <3>5
    <3> QED BY <3>4, <3>5
  <2>3. CASE FillsIn(t)
    <3>1. \A b \in M!Buckets : ~ Sets(t, b)' /\ (Sets(t, b) <=> b = Bucket(t))
      BY <2>3 DEF FillsIn, Sets
    <3>2. \A b \in M!Buckets : b \in table' <=> b \in table \/ b = Bucket(t)
      BY <2>3 DEF FillsIn
    <3>3. \A b \in M!Buckets : M!Dummy(b) \in M!Range(list') <=> b \in table' \/ \E u \in Thread : Sets(u, b)'
      BY <1>1, <1>3, <2>3, <3>1, <3>2 DEF FillsIn
    <3>4. ASSUME NEW u \in Thread, NEW v \in Thread, NEW b \in M!Buckets, Sets(u, b)', Sets(v, b)' PROVE u = v
      BY <1>1, <1>3, <3>1, <3>4
    <3> QED BY <3>3, <3>4
  <2> QED BY <2>1, <2>2, <2>3
<1> QED BY <1>1, <1>4, <1>6, <1>7 DEF Split

\* When the head of a bucket is found, the call goes on with its child, or with the list.
LEMMA FoundClimbs ==
  ASSUME MapInv, NEW t \in Thread, pc[t] \in Climbing, M!Found(t, Bucket(t)), UNCHANGED arg,
         Bucket(t) \in table'
  PROVE  Climbs(t)' /\ pc'[t] # "set"
<1>1. /\ kind = "split" /\ Ancestry(inits[t], arg[t]) /\ Bucket(t) = inits[t][Len(inits[t])]
  BY AtBucket
<1>2. PICK s : s = inits[t]
  OBVIOUS
<1>3. PICK n \in Nat \ {0} : n = Len(s)
  BY <1>1, <1>2 DEF Ancestry
<1>4. /\ s \in Seq(M!Buckets) /\ M!Less(M!Dummy(s[1]), M!Regular(arg[t])) /\ Bucket(t) = s[n]
      /\ \A i \in 1..(n - 1) : s[i] # 0 /\ s[i + 1] = M!Parent(s[i])
  BY <1>1, <1>2, <1>3 DEF Ancestry
<1>5. /\ at'[t] = s[n] /\ inits'[t] = M!Front(s) /\ pc'[t] = (IF n = 1 THEN "list" ELSE "dummy") /\ arg'[t] = arg[t]
  BY <1>2, <1>3, <1>4 DEF M!Found, M!Goto, MapInv, M!TypeOK
<1>6. CASE n = 1
  BY <1>4, <1>5, <1>6 DEF Climbs, Climbing
<1>7. CASE n # 1
  <2>1. n - 1 \in Nat \ {0} /\ n - 1 \in 1..(n - 1) /\ 1 \in 1..(n - 1)
    BY <1>7
  <2>2. /\ M!Front(s) \in Seq(M!Buckets) /\ Len(M!Front(s)) = n - 1
        /\ \A i \in 1..(n - 1) : M!Front(s)[i] = s[i]
    BY <1>3, <1>4, FrontIs
  <2>3. M!Last(M!Front(s)) = s[n - 1]
    BY <2>1, <2>2 DEF M!Last
  <2>4. Ancestry(M!Front(s), arg[t])
    <3>1. \A i \in 1..((n - 1) - 1) : i \in 1..(n - 1) /\ i + 1 \in 1..(n - 1)
      OBVIOUS
    <3> QED BY <1>4, <2>1, <2>2, <3>1 DEF Ancestry
  <2>5. s[n - 1] # 0 /\ s[n] = M!Parent(s[n - 1])
    <3>1. (n - 1) + 1 = n
      OBVIOUS
    <3> QED BY <1>4, <2>1, <3>1
  <2> QED BY <1>4, <1>5, <1>7, <2>3, <2>4, <2>5 DEF Climbs, Climbing, Bucket
<1> QED BY <1>5, <1>6, <1>7

LEMMA SplitStep ==
  ASSUME MapInv, kind = "split", kind' = kind, NEW t \in Thread, MapStep(t)
  PROVE  Split'
<1>1. Own(t)
  BY StepOwn
<1>2. Ascends(list) /\ Climbs(t) /\ table \subseteq M!Buckets
  BY DEF MapInv, Split, M!TypeOK
<1> SUFFICES Climbs(t)' /\ (Keeps(t) \/ LinksDummy(t) \/ FillsIn(t))
  BY <1>1, SplitKept
<1>3. ASSUME pc[t] # "set", pc'[t] \notin Climbing \cup {"list"}, UNCHANGED <<list, table>> PROVE Climbs(t)' /\ Keeps(t)
  BY <1>2, <1>3 DEF Climbs, Climbing, Keeps
<1>4. CASE M!Call(t)
  <2>1. pc[t] = "idle" /\ pc'[t] = "bucket" /\ UNCHANGED <<list, table>>
    BY <1>4 DEF M!Call, M!Goto, M!mapVars, MapInv, M!TypeOK
  <2> QED BY <1>3, <2>1 DEF Climbing
<1>5. CASE M!CallClear(t)
  BY <1>5 DEF M!CallClear
<1>6. CASE M!FindBucket(t)
  <2>1. /\ pc[t] = "bucket" /\ pc'[t] = "head" /\ UNCHANGED <<list, table, arg>>
        /\ inits'[t] = <<M!BucketNo(Hash[arg[t]])>>
    BY <1>6 DEF M!FindBucket, M!Goto, M!mapVars, M!callVars, MapInv, M!TypeOK
  <2>2. arg[t] \in MapKeys
    BY <2>1 DEF MapInv, Within, M!TypeOK
  <2>3. M!BucketNo(Hash[arg[t]]) \in M!Buckets /\ M!Less(M!Dummy(M!BucketNo(Hash[arg[t]])), M!Regular(arg[t]))
    <3>1. exp2 \in 1..MaxExp2
      BY DEF MapInv, M!TypeOK
    <3> QED BY <2>2, <3>1, Constants DEF M!SplitOrder, M!BucketNo
  <2>4. Ancestry(inits'[t], arg'[t])
    BY <2>1, <2>3 DEF Ancestry
  <2> QED BY <1>2, <2>1, <2>4 DEF Climbs, Climbing, Keeps
<1>7. CASE M!LookHead(t)
  <2>1. pc[t] = "head" /\ pc[t] \in Climbing /\ UNCHANGED <<list, table, arg>>
    BY <1>7 DEF M!LookHead, Climbing, M!mapVars, M!callVars
  <2>2. CASE Bucket(t) \in table
    <3>1. M!Found(t, Bucket(t))
      BY <1>7, <2>2 DEF M!LookHead, Bucket
    <3>2. Climbs(t)' /\ pc'[t] # "set"
      BY <2>1, <2>2, <3>1, FoundClimbs
    <3> QED BY <1>2, <2>1, <3>2 DEF Keeps
  <2>3. CASE Bucket(t) \notin table
    <3>1. inits'[t] = Append(inits[t], M!Parent(Bucket(t))) /\ pc'[t] = "head"
      BY <1>7, <2>1, <2>3 DEF M!LookHead, Bucket, MapInv, M!TypeOK
    <3>2. /\ Ancestry(inits[t], arg[t]) /\ Bucket(t) = inits[t][Len(inits[t])] /\ Bucket(t) # 0
          /\ M!Parent(Bucket(t)) \in M!Buckets
      BY <2>1, <2>3, AtBucket
    <3>3. PICK s, e : s = inits[t] /\ e = M!Parent(Bucket(t))
      OBVIOUS
    <3>4. PICK n \in Nat \ {0} : n = Len(s)
      BY <3>2, <3>3 DEF Ancestry
    <3>5. /\ s \in Seq(M!Buckets) /\ e \in M!Buckets /\ M!Less(M!Dummy(s[1]), M!Regular(arg[t]))
          /\ \A i \in 1..(n - 1) : s[i] # 0 /\ s[i + 1] = M!Parent(s[i])
          /\ s[n] # 0 /\ e = M!Parent(s[n])
      BY <3>2, <3>3, <3>4 DEF Ancestry
    <3>6. PICK v : v = Append(s, e)
      OBVIOUS
    <3>7. v \in Seq(M!Buckets) /\ Len(v) = n + 1 /\ (\A i \in 1..n : v[i] = s[i]) /\ v[n + 1] = e
      BY <3>4, <3>5, <3>6, AppendIs
    <3>8. ASSUME NEW i \in 1..((n + 1) - 1) PROVE v[i] # 0 /\ v[i + 1] = M!Parent(v[i])
      <4>1. CASE i = n
        BY <3>5, <3>7, <4>1
      <4>2. CASE i # n
        <5>1. i \in 1..(n - 1) /\ i \in 1..n /\ i + 1 \in 1..n
          BY <4>2
        <5> QED BY <3>5, <3>7, <5>1
      <4> QED BY <4>1, <4>2
    <3>9. Ancestry(v, arg[t])
      <4>1. 1 \in 1..n /\ n + 1 > 0
        OBVIOUS
      <4> QED BY <3>5, <3>7, <3>8, <4>1 DEF Ancestry
    <3> QED BY <1>2, <2>1, <3>1, <3>3, <3>6, <3>9 DEF Climbs, Climbing, Keeps
  <2> QED BY <2>2, <2>3
<1>8. CASE M!InsertDummy(t)
  <2>1. /\ pc[t] = "dummy" /\ pc[t] \in Climbing
        /\ at[t] \in table /\ Bucket(t) # 0 /\ at[t] = M!Parent(Bucket(t))
    BY <1>2, <1>8 DEF M!InsertDummy, Climbing, Climbs
  <2>2. Ancestry(inits[t], arg[t]) /\ Bucket(t) \in M!Buckets
    BY <2>1, AtBucket
  <2>3. PICK e : e = M!Dummy(Bucket(t))
    OBVIOUS
  <2>4. /\ at[t] \in M!Buckets /\ M!Dummy(at[t]) \in M!Range(list) /\ M!Less(M!Dummy(at[t]), e) /\ e \in Nodes
    <3>1. M!Dummy(at[t]) \in M!Range(list) /\ at[t] \in M!Buckets
      BY <2>1, InTheTable DEF MapInv
    <3>2. M!Less(M!Dummy(at[t]), e)
      BY <2>1, <2>2, <2>3, Constants DEF M!SplitOrder
    <3> QED BY <2>2, <2>3, <3>1, <3>2, NodesAre
  <2>5. UNCHANGED <<table, arg, inits, at>> /\ Bucket(t)' = Bucket(t)
    BY <1>8 DEF M!InsertDummy, M!callVars, Bucket
  <2>6. CASE e \in M!Range(list)
    <3>1. M!Has(at[t], e)
      BY <1>2, <2>4, <2>6, SearchTells
    <3>2. pc' = [pc EXCEPT ![t] = "wait"] /\ list' = list
      BY <1>8, <2>3, <3>1 DEF M!InsertDummy, M!Goto, Bucket
    <3>3. pc'[t] = "wait"
      BY <3>2 DEF MapInv, M!TypeOK
    <3> QED BY <1>2, <2>1, <2>2, <2>5, <3>2, <3>3 DEF Climbs, Climbing, Keeps
  <2>7. CASE e \notin M!Range(list)
    <3>1. ~ M!Has(at[t], e)
      BY <1>2, <2>4, <2>7, SearchTells
    <3>2. pc' = [pc EXCEPT ![t] = "set"] /\ list' = M!Linked(at[t], e)
      BY <1>8, <2>3, <3>1 DEF M!InsertDummy, M!Goto, Bucket
    <3>3. pc'[t] = "set"
      BY <3>2 DEF MapInv, M!TypeOK
    <3>4. Ascends(list') /\ M!Range(list') = M!Range(list) \cup {e}
      BY <1>2, <2>4, <2>7, <3>2, SearchTells
    <3>5. Bucket(t) \notin table
      BY <2>2, <2>3, <2>7, InTheTable DEF MapInv
    <3>6. LinksDummy(t)
      BY <2>1, <2>2, <2>3, <2>5, <2>7, <3>3, <3>4 DEF LinksDummy
    <3> QED BY <2>1, <2>2, <2>5, <3>3, <3>5, <3>6 DEF Climbs, Climbing
  <2> QED BY <2>6, <2>7
<1>9. CASE M!SetBucket(t)
  <2>1. /\ pc[t] = "set" /\ pc[t] \in Climbing /\ M!Found(t, Bucket(t)) /\ UNCHANGED <<list, arg>>
        /\ table' = table \cup {Bucket(t)}
    BY <1>9 DEF M!SetBucket, Climbing, Bucket, M!callVars
  <2>2. Climbs(t)' /\ pc'[t] # "set"
    BY <2>1, FoundClimbs
  <2> QED BY <2>1, <2>2, AtBucket DEF FillsIn
<1>10. CASE M!WaitBucket(t)
  <2>1. pc[t] = "wait" /\ pc[t] \in Climbing /\ M!Found(t, Bucket(t)) /\ UNCHANGED <<list, arg, table>> /\ Bucket(t) \in table
    BY <1>10 DEF M!WaitBucket, Climbing, Bucket, M!callVars, M!mapVars
  <2>2. Climbs(t)' /\ pc'[t] # "set"
    BY <2>1, FoundClimbs
  <2> QED BY <1>2, <2>1, <2>2 DEF Keeps
<1>11. CASE M!ListOp(t)
  <2>1. /\ pc[t] = "list" /\ Answers(t) /\ UNCHANGED table
        /\ pc'[t] \in {"leave", "uncount", "size"}
    BY <1>11, ListOpDoes
  <2>2. /\ Ascends(list')
        /\ \A b \in M!Buckets : M!Dummy(b) \in M!Range(list') <=> M!Dummy(b) \in M!Range(list)
    <3>1. CASE list' = list
      BY <1>2, <3>1
    <3>2. CASE list' # list
      <4>1. Ascends(list') /\ \E e \in {M!Regular(arg[t])} : M!Range(list') \in {M!Range(list) \cup {e}, M!Range(list) \ {e}}
        BY <2>1, <3>2, ListWorks DEF Answers
      <4>2. arg[t] \in MapKeys
        BY <2>1, ListWorks
      <4> QED BY <4>1, <4>2, NodesAre
    <3> QED BY <3>1, <3>2
  <2>3. Climbs(t)'
    BY <2>1 DEF Climbs, Climbing
  <2> QED BY <2>1, <2>2, <2>3 DEF Keeps
<1>12. CASE M!IncItemCount(t) \/ M!Discount(t) \/ M!Return(t)
  <2>1. /\ pc[t] \in {"size", "count", "grow", "uncount", "leave"} /\ UNCHANGED <<list, table>>
        /\ pc'[t] \in {"count", "grow", "leave", "idle"}
    BY <1>12 DEF M!IncItemCount, M!LoadSize, M!Count, M!Grow, M!Discount, M!Return, M!Goto, M!mapVars, M!callVars,
                 MapInv, M!TypeOK
  <2> QED BY <1>3, <2>1 DEF Climbing
<1>13. CASE M!Clear(t)
  BY <1>13 DEF M!Clear, MapInv, Within
<1> QED BY <1>4, <1>5, <1>6, <1>7, <1>8, <1>9, <1>10, <1>11, <1>12, <1>13 DEF MapStep, M!MapWorking, M!InitBucket

-----------------------------------------------------------------------------
(* What a step does to the set of keys *)

Act(t) == Doing(op[t], ans[t])
From(t, a, b) == Act(t) = a /\ Act(t)' = b
SameSet == M!Members' = M!Members
SameAct(t) == Act(t)' = Act(t) /\ arg'[t] = arg[t] /\ op'[t] = op[t] /\ ans'[t] = ans[t]
Effect(t) ==
    \/ SameAct(t) /\ SameSet
    \/ /\ Act(t) = "idle" /\ SameSet
       /\ \/ Act(t)' \in {"insert", "erase", "find"} /\ arg'[t] \in MapKeys
          \/ Act(t)' = "clear" /\ arg'[t] = arg[t]
    \/ /\ From(t, "insert", "yes") /\ arg'[t] = arg[t]
       /\ arg[t] \notin M!Members /\ M!Members' = M!Members \cup {arg[t]}
    \/ /\ From(t, "erase", "yes") /\ arg'[t] = arg[t]
       /\ arg[t] \in M!Members /\ M!Members' = M!Members \ {arg[t]}
    \/ SameAct(t) /\ Act(t) = "clear" /\ \E k \in M!Members : M!Members' = M!Members \ {k}
    \/ /\ SameSet /\ arg'[t] = arg[t]
       /\ \/ From(t, "insert", "no") /\ sawIn[t]
          \/ From(t, "find", "yes") /\ sawIn[t]
          \/ Act(t) \in {"erase", "find"} /\ Act(t)' = "no" /\ sawOut[t]
          \/ From(t, "clear", "yes") /\ sawOut[t]
    \/ SameSet /\ Act(t) \in {"yes", "no"} /\ Act(t)' = "idle" /\ arg'[t] = NoKey

LEMMA DoingIs ==
  ASSUME NEW o \in M!KeyOps \cup {"none", "clear"}, NEW a \in {"none", "yes", "no"}, o = "none" => a = "none"
  PROVE  /\ a # "none" => Doing(o, a) = a
         /\ a = "none" /\ o = "none" => Doing(o, a) = "idle"
         /\ a = "none" /\ o \in {"insert", "ensure"} => Doing(o, a) = "insert"
         /\ a = "none" /\ o \in {"find", "emplace"} => Doing(o, a) = "find"
         /\ a = "none" /\ o \in {"erase", "clear"} => Doing(o, a) = o
         /\ Doing(o, a) \in K!Pending <=> M!PendingIn(o, a)
<1>1. a # "none" => Doing(o, a) = a
  BY DEF Doing
<1>2. a = "none" /\ o = "none" => Doing(o, a) = "idle"
  BY DEF Doing
<1>3. a = "none" /\ o \in {"insert", "ensure"} => Doing(o, a) = "insert"
  BY DEF Doing
<1>4. a = "none" /\ o \in {"find", "emplace"} => Doing(o, a) = "find"
  BY DEF Doing
<1>5. a = "none" /\ o \in {"erase", "clear"} => Doing(o, a) = o
  BY DEF Doing
<1>6. CASE a # "none"
  BY <1>1, <1>6 DEF K!Pending, M!PendingIn
<1>7. CASE a = "none" /\ o = "none"
  BY <1>2, <1>7 DEF K!Pending, M!PendingIn
<1>8. CASE a = "none" /\ o # "none"
  BY <1>3, <1>4, <1>5, <1>8 DEF K!Pending, M!PendingIn, M!KeyOps
<1> QED BY <1>1, <1>2, <1>3, <1>4, <1>5, <1>6, <1>7, <1>8

LEMMA ActTypes ==
  ASSUME M!TypeOK, NEW t \in Thread, Within(t)
  PROVE  /\ op[t] \in M!KeyOps \cup {"none", "clear"} /\ ans[t] \in {"none", "yes", "no"}
         /\ op[t] = "none" => ans[t] = "none"
BY DEF M!TypeOK, Within

\* The steps that leave the call as it is
LEMMA QuietEffect ==
  ASSUME MapInv, NEW t \in Thread, kind' = kind,
         M!FindBucket(t) \/ M!InitBucket(t) \/ M!IncItemCount(t) \/ M!Discount(t)
  PROVE  SameAct(t) /\ SameSet
<1>1. UNCHANGED <<op, arg, ans>>
  BY DEF M!FindBucket, M!InitBucket, M!LookHead, M!InsertDummy, M!SetBucket, M!WaitBucket, M!IncItemCount,
         M!LoadSize, M!Count, M!Grow, M!Discount, M!callVars
<1>2. list' = list => SameSet
  BY DEF SameSet, M!Members
<1>3. ASSUME M!InsertDummy(t) PROVE SameSet
  <2>1. pc[t] = "dummy" /\ pc[t] \in Climbing
    BY <1>3 DEF M!InsertDummy, Climbing
  <2>2. kind = "split" /\ Bucket(t) \in M!Buckets
    BY <2>1, AtBucket
  <2>3. Split /\ Split'
    BY <1>3, <2>2, SplitStep DEF MapInv, MapStep, M!MapWorking, M!InitBucket
  <2>4. Ascends(list) /\ Ascends(list')
    BY <2>3 DEF Split
  <2>5. PICK e : e = M!Dummy(Bucket(t))
    OBVIOUS
  <2>6. /\ at[t] \in M!Buckets /\ M!Dummy(at[t]) \in M!Range(list) /\ M!Less(M!Dummy(at[t]), e) /\ e \in Nodes
    <3>1. at[t] \in table /\ Bucket(t) # 0 /\ at[t] = M!Parent(Bucket(t))
      BY <2>1, <2>3 DEF Split, Climbs
    <3>2. M!Dummy(at[t]) \in M!Range(list) /\ at[t] \in M!Buckets
      BY <2>3, <3>1, InTheTable DEF MapInv
    <3>3. M!Less(M!Dummy(at[t]), e)
      BY <2>2, <2>5, <3>1, Constants DEF M!SplitOrder
    <3> QED BY <2>2, <2>5, <3>2, <3>3, NodesAre
  <2>7. list' = list \/ M!Range(list') = M!Range(list) \cup {e}
    <3>1. CASE e \in M!Range(list)
      <4>1. M!Has(at[t], e)
        BY <2>4, <2>6, <3>1, SearchTells
      <4> QED BY <1>3, <2>5, <4>1 DEF M!InsertDummy, Bucket
    <3>2. CASE e \notin M!Range(list)
      <4>1. ~ M!Has(at[t], e)
        BY <2>4, <2>6, <3>2, SearchTells
      <4>2. list' = M!Linked(at[t], e)
        BY <1>3, <2>5, <4>1 DEF M!InsertDummy, Bucket
      <4> QED BY <2>4, <2>6, <3>2, <4>2, SearchTells
    <3> QED BY <3>1, <3>2
  <2>8. CASE M!Range(list') = M!Range(list) \cup {e}
    <3>1. \A k \in MapKeys : M!Regular(k) # e
      BY <2>2, <2>5, NodesAre
    <3>2. /\ M!Members = {k \in MapKeys : M!Regular(k) \in M!Range(list)}
          /\ M!Members' = {k \in MapKeys : M!Regular(k) \in M!Range(list')}
      BY <2>2, <2>4, KeysOfNodes DEF M!Members
    <3> QED BY <2>8, <3>1, <3>2 DEF SameSet
  <2> QED BY <1>2, <2>7, <2>8
<1>4. ASSUME ~ M!InsertDummy(t) PROVE SameSet
  <2>1. list' = list
    BY <1>4 DEF M!FindBucket, M!InitBucket, M!LookHead, M!SetBucket, M!WaitBucket, M!IncItemCount,
                M!LoadSize, M!Count, M!Grow, M!Discount, M!mapVars
  <2> QED BY <1>2, <2>1
<1>5. SameSet
  BY <1>3, <1>4
<1> QED BY <1>1, <1>5 DEF SameAct, Act

\* clear empties bucket after bucket, and ends with none left.
LEMMA ClearEffect ==
  ASSUME MapInv, NEW t \in Thread, kind' = kind, M!Clear(t)
  PROVE  /\ kind = "hash" /\ pc[t] = "clear" /\ op[t] = "clear" /\ arg[t] = NoKey /\ ans[t] = "none"
         /\ UNCHANGED <<op, arg>>
         /\ \/ pc' = pc /\ ans' = ans /\ list' = list /\ count' = count
               /\ at' = [at EXCEPT ![t] = @ + 1] /\ at[t] \in M!Buckets /\ list[at[t]] = {}
            \/ /\ pc' = pc /\ ans' = ans /\ at' = at /\ count' = count
               /\ \E k \in M!Members : M!Members' = M!Members \ {k}
               /\ list' \in [M!Buckets -> SUBSET MapKeys] /\ \A b \in M!Buckets : list'[b] \subseteq list[b]
            \/ pc' = [pc EXCEPT ![t] = "leave"] /\ ans' = [ans EXCEPT ![t] = "yes"]
               /\ list' = list /\ M!Members = {} /\ M!Members' = {} /\ count' = 0
<1>1. /\ kind = "hash" /\ pc[t] = "clear" /\ op[t] = "clear" /\ arg[t] = NoKey /\ ans[t] = "none"
      /\ UNCHANGED <<op, arg>>
  <2>1. pc[t] = "clear" /\ UNCHANGED <<op, arg>>
    BY DEF M!Clear
  <2>2. op[t] = "clear" /\ op[t] \notin M!KeyOps
    BY <2>1 DEF MapInv, Within, M!KeyOps
  <2> QED BY <2>1, <2>2 DEF MapInv, Within, M!TypeOK, Maps
<1>2. /\ list \in [M!Buckets -> SUBSET MapKeys] /\ at[t] \in 0..M!Capacity
      /\ M!Members = UNION {list[b] : b \in M!Buckets} /\ M!Members' = UNION {list'[b] : b \in M!Buckets}
      /\ \A b \in M!Buckets : \A k \in list[b] : M!InTable(Hash[k], MaxExp2) = b
      /\ \A b \in M!Buckets : b < at[t] => list[b] = {}
  BY <1>1 DEF MapInv, M!TypeOK, M!Members, Chained
<1>3. CASE at[t] \in M!Buckets /\ list[at[t]] = {}
  BY <1>1, <1>3 DEF M!Clear
<1>4. CASE at[t] \in M!Buckets /\ list[at[t]] # {}
  <2>1. PICK k \in list[at[t]] : list' = [list EXCEPT ![at[t]] = @ \ {k}]
    BY <1>4 DEF M!Clear
  <2>2. UNCHANGED <<at, count, ans, pc>>
    BY <1>4 DEF M!Clear
  <2>3. list' \in [M!Buckets -> SUBSET MapKeys] /\ \A b \in M!Buckets : list'[b] \subseteq list[b]
    BY <1>2, <2>1
  <2>4. \A b \in M!Buckets : b # at[t] => k \notin list[b]
    BY <1>2, <1>4
  <2>5. k \in M!Members /\ M!Members' = M!Members \ {k}
    BY <1>2, <1>4, <2>1, <2>4
  <2> QED BY <1>1, <2>2, <2>3, <2>5
<1>5. CASE at[t] \notin M!Buckets
  <2>1. /\ count' = 0 /\ ans' = [ans EXCEPT ![t] = "yes"] /\ pc' = [pc EXCEPT ![t] = "leave"]
        /\ list' = list
    BY <1>5 DEF M!Clear, M!Goto
  <2>2. \A b \in M!Buckets : b < at[t]
    BY <1>2, <1>5, Constants DEF M!Buckets
  <2>3. M!Members = {} /\ M!Members' = {}
    BY <1>2, <2>1, <2>2
  <2> QED BY <1>1, <2>1, <2>3
<1> QED BY <1>3, <1>4, <1>5

LEMMA ListOpEffect ==
  ASSUME MapInv, NEW t \in Thread, kind' = kind, M!ListOp(t)
  PROVE  Effect(t)
<1>1. /\ pc[t] = "list" /\ Answers(t) /\ ans' = [ans EXCEPT ![t] = ans'[t]]
      /\ op' = op /\ arg' = arg
  BY ListOpDoes
<1>2. op[t] \in M!KeyOps /\ ans[t] = "none" /\ arg[t] \in MapKeys /\ arg[t] # NoKey
  BY <1>1, Constants DEF MapInv, Within, M!TypeOK, Climbing
<1>3. M!Present(t) <=> arg[t] \in M!Members
  BY <1>1, ListWorks
<1>4. (arg[t] \in M!Members => sawIn[t]) /\ (arg[t] \notin M!Members => sawOut[t])
  BY <1>2 DEF MapInv, Sees, Gone, M!PendingIn, M!KeyOps
<1>5. /\ op[t] \in {"insert", "ensure"} => Act(t) = "insert"
      /\ op[t] \in {"find", "emplace"} => Act(t) = "find"
      /\ op[t] = "erase" => Act(t) = "erase"
  BY <1>2, DoingIs DEF Act
<1>6. ans'[t] \in {"yes", "no"} /\ Act(t)' = ans'[t]
  <2>1. ans'[t] \in {"yes", "no"}
    BY <1>1 DEF Answers
  <2> QED BY <2>1 DEF Act, Doing
<1>7. list' = list => SameSet
  BY DEF SameSet, M!Members
<1>8. arg'[t] = arg[t]
  BY <1>1
<1>9. CASE op[t] \in {"insert", "ensure"} /\ ~ M!Present(t) /\ list' = M!With(t) /\ ans'[t] = "yes"
  <2>1. arg[t] \notin M!Members /\ M!Members' = M!Members \cup {arg[t]}
    BY <1>1, <1>9, Adds
  <2> QED BY <1>5, <1>6, <1>8, <1>9, <2>1 DEF Effect, From
<1>10. CASE op[t] = "erase" /\ M!Present(t) /\ list' = M!Without(t) /\ ans'[t] = "yes"
  <2>1. arg[t] \in M!Members /\ M!Members' = M!Members \ {arg[t]}
    BY <1>1, <1>10, Removes
  <2> QED BY <1>5, <1>6, <1>8, <1>10, <2>1 DEF Effect, From
<1>11. CASE /\ list' = list
            /\ \/ op[t] \in {"insert", "ensure"} /\ M!Present(t) /\ ans'[t] = "no"
               \/ op[t] = "erase" /\ ~ M!Present(t) /\ ans'[t] = "no"
               \/ op[t] \in {"find", "emplace"} /\ ans'[t] = IF M!Present(t) THEN "yes" ELSE "no"
  BY <1>3, <1>4, <1>5, <1>6, <1>7, <1>8, <1>11 DEF Effect, From
<1> QED BY <1>1, <1>9, <1>10, <1>11 DEF Answers

LEMMA MapEffect ==
  ASSUME MapInv, NEW t \in Thread, kind' = kind, MapStep(t)
  PROVE  Effect(t)
<1>1. Within(t) /\ Within(t)' /\ M!TypeOK /\ M!TypeOK'
  BY StepOwn DEF MapInv, Own
<1>2. list' = list => SameSet
  BY DEF SameSet, M!Members
<1>3. op[t] = "none" => ans[t] = "none"
  BY <1>1, ActTypes
<1>4. CASE M!Call(t)
  <2>1. PICK o \in M!KeyOps, k \in MapKeys : op' = [op EXCEPT ![t] = o] /\ arg' = [arg EXCEPT ![t] = k]
    BY <1>4 DEF M!Call
  <2>2. pc[t] = "idle" /\ list' = list /\ ans' = ans
    BY <1>4 DEF M!Call, M!mapVars
  <2>3. op[t] = "none" /\ ans[t] = "none" /\ op'[t] \in M!KeyOps /\ ans'[t] = "none" /\ arg'[t] \in MapKeys
    BY <1>1, <1>3, <2>1, <2>2 DEF Within, M!TypeOK
  <2>4. Act(t) = "idle"
    BY <2>3, DoingIs DEF Act
  <2>5. Act(t)' \in {"insert", "erase", "find"}
    <3>1. Doing(op'[t], ans'[t]) \in {"insert", "erase", "find"}
      BY <2>3, DoingIs DEF M!KeyOps
    <3> QED BY <3>1 DEF Act
  <2> QED BY <1>2, <2>2, <2>3, <2>4, <2>5 DEF Effect
<1>5. CASE M!CallClear(t)
  <2>1. pc[t] = "idle" /\ op' = [op EXCEPT ![t] = "clear"] /\ UNCHANGED <<list, arg, ans>>
    BY <1>5 DEF M!CallClear, M!mapVars
  <2>2. op[t] = "none" /\ ans[t] = "none" /\ op'[t] = "clear" /\ ans'[t] = "none" /\ arg'[t] = arg[t]
    BY <1>1, <1>3, <2>1 DEF Within, M!TypeOK
  <2>3. Act(t) = "idle"
    BY <2>2, DoingIs DEF Act
  <2>4. Act(t)' = "clear"
    BY <2>2, DoingIs DEF Act
  <2> QED BY <1>2, <2>1, <2>2, <2>3, <2>4 DEF Effect
<1>6. CASE M!FindBucket(t) \/ M!InitBucket(t) \/ M!IncItemCount(t) \/ M!Discount(t)
  BY <1>6, QuietEffect DEF Effect
<1>7. CASE M!ListOp(t)
  BY <1>7, ListOpEffect
<1>8. CASE M!Clear(t)
  <2>1. op[t] = "clear" /\ arg[t] = NoKey /\ ans[t] = "none" /\ op'[t] = op[t] /\ arg'[t] = arg[t] /\ Act(t) = "clear"
    BY <1>8, ClearEffect, DoingIs DEF Act
  <2>2. CASE ans' = ans
    <3>1. SameAct(t)
      BY <2>1, <2>2 DEF SameAct, Act
    <3>2. SameSet \/ \E k \in M!Members : M!Members' = M!Members \ {k}
      BY <1>2, <1>8, <2>2, ClearEffect DEF SameSet
    <3> QED BY <2>1, <3>1, <3>2 DEF Effect
  <2>3. CASE ans' = [ans EXCEPT ![t] = "yes"] /\ M!Members = {} /\ M!Members' = {}
    <3>1. ans'[t] = "yes"
      BY <1>1, <2>3 DEF M!TypeOK
    <3>2. Act(t)' = "yes"
      BY <3>1 DEF Act, Doing
    <3>3. sawOut[t]
      BY <2>1, <2>3 DEF MapInv, Sees, Gone, M!PendingIn
    <3> QED BY <2>1, <2>3, <3>2, <3>3 DEF Effect, From, SameSet
  <2> QED BY <1>8, <2>2, <2>3, ClearEffect
<1>9. CASE M!Return(t)
  <2>1. /\ pc[t] = "leave" /\ list' = list
        /\ op'[t] = "none" /\ arg'[t] = NoKey /\ ans'[t] = "none"
    BY <1>1, <1>9 DEF M!Return, M!mapVars, M!TypeOK
  <2>2. ans[t] \in {"yes", "no"}
    BY <1>1, <2>1 DEF Within, M!TypeOK, Climbing
  <2>3. Act(t) \in {"yes", "no"}
    BY <2>2 DEF Act, Doing
  <2>4. Act(t)' = "idle"
    BY <2>1, DoingIs DEF Act
  <2> QED BY <1>2, <2>1, <2>3, <2>4 DEF Effect
<1> QED BY <1>4, <1>5, <1>6, <1>7, <1>8, <1>9 DEF MapStep, M!MapWorking

-----------------------------------------------------------------------------
(* The invariant holds. *)

LEMMA LonelyStep ==
  ASSUME MapInv, NEW t \in Thread, kind' = kind, MapStep(t)
  PROVE  Lonely'
<1>1. Apart(t) /\ Within(t)' /\ \A u \in Thread : Within(u)
  BY StepOwn DEF Own, MapInv
<1> SUFFICES ASSUME NEW u \in Thread, NEW v \in Thread, op'[u] = "clear", u # v PROVE pc'[v] = "idle"
  BY DEF Lonely
<1>2. CASE u # t
  <2>1. op[u] = "clear"
    BY <1>1, <1>2 DEF Apart
  <2>2. pc[v] = "idle" /\ pc[t] = "idle"
    BY <1>2, <2>1 DEF MapInv, Lonely
  <2>3. ~ M!Call(t) /\ ~ M!CallClear(t)
    <3>1. pc[u] # "idle"
      BY <1>1, <2>1 DEF Within
    <3> QED BY <2>1, <3>1 DEF M!Call, M!CallClear
  <2>4. ~ M!MapWorking(t)
    BY <2>2 DEF M!MapWorking, M!FindBucket, M!InitBucket, M!LookHead, M!InsertDummy, M!SetBucket, M!WaitBucket,
                M!ListOp, M!IncItemCount, M!LoadSize, M!Count, M!Grow, M!Discount, M!Clear, M!Return
  <2> QED BY <2>3, <2>4 DEF MapStep
<1>3. CASE u = t
  <2>1. pc'[v] = pc[v]
    BY <1>1, <1>3 DEF Apart
  <2>2. CASE M!CallClear(t)
    BY <2>1, <2>2 DEF M!CallClear
  <2>3. CASE ~ M!CallClear(t)
    <3>1. op[t] = "clear"
      <4>1. ~ M!Call(t)
        <5>1. M!Call(t) => op'[t] \in M!KeyOps
          BY DEF M!Call, MapInv, M!TypeOK
        <5> QED BY <1>3, <5>1 DEF M!KeyOps
      <4>2. ~ M!Return(t)
        <5>1. M!Return(t) => op'[t] = "none"
          BY DEF M!Return, MapInv, M!TypeOK
        <5> QED BY <1>3, <5>1
      <4>3. op' = op
        BY <2>3, <4>1, <4>2 DEF MapStep, M!MapWorking, M!FindBucket, M!InitBucket, M!LookHead, M!InsertDummy,
           M!SetBucket, M!WaitBucket, M!ListOp, M!IncItemCount, M!LoadSize, M!Count, M!Grow, M!Discount, M!Clear,
           M!callVars
      <4> QED BY <1>3, <4>3
    <3> QED BY <1>3, <2>1, <3>1 DEF MapInv, Lonely
  <2> QED BY <2>2, <2>3
<1> QED BY <1>2, <1>3

LEMMA ChainStep ==
  ASSUME MapInv, kind = "hash", kind' = kind, NEW t \in Thread, MapStep(t)
  PROVE  Chained'
<1>1. Own(t) /\ Apart(t)
  BY StepOwn DEF Own
<1>2. /\ list \in [M!Buckets -> SUBSET MapKeys]
      /\ \A b \in M!Buckets : \A k \in list[b] : M!InTable(Hash[k], MaxExp2) = b
      /\ \A u \in Thread : pc[u] = "clear" => \A b \in M!Buckets : b < at[u] => list[b] = {}
      /\ \A u \in Thread : Within(u)
  BY DEF MapInv, M!TypeOK, Chained
<1>3. ASSUME list' = list, pc'[t] # "clear" PROVE Chained'
  <2>1. \A u \in Thread : pc'[u] = "clear" => pc[u] = "clear" /\ at'[u] = at[u]
    BY <1>1, <1>3 DEF Apart
  <2> QED BY <1>2, <1>3, <2>1 DEF Chained
<1>4. CASE M!Call(t)
  <2>1. list' = list /\ pc'[t] = "list"
    BY <1>4 DEF M!Call, M!Goto, M!mapVars, MapInv, M!TypeOK
  <2> QED BY <1>3, <2>1
<1>5. CASE M!CallClear(t)
  <2>1. list' = list /\ pc'[t] = "clear" /\ at'[t] = 0 /\ \A u \in Thread : u # t => pc'[u] # "clear"
    BY <1>1, <1>2, <1>5 DEF M!CallClear, M!Goto, M!mapVars, MapInv, M!TypeOK, Apart, Within
  <2>2. \A b \in M!Buckets : ~ (b < 0)
    BY Constants DEF M!Buckets
  <2> QED BY <1>2, <2>1, <2>2 DEF Chained
<1>6. CASE M!FindBucket(t) \/ M!InitBucket(t)
  <2>1. pc[t] \in Climbing \cup {"bucket"}
    BY <1>6 DEF M!FindBucket, M!InitBucket, M!LookHead, M!InsertDummy, M!SetBucket, M!WaitBucket, Climbing
  <2> QED BY <1>2, <2>1 DEF Within
<1>7. CASE M!ListOp(t)
  <2>1. /\ pc[t] = "list" /\ Answers(t) /\ pc'[t] \in {"leave", "uncount", "count", "size"}
    BY <1>7, ListOpDoes
  <2>2. \A u \in Thread : pc'[u] # "clear"
    <3>1. ASSUME NEW u \in Thread, u # t, pc'[u] = "clear" PROVE FALSE
      <4>1. op[u] = "clear"
        BY <1>1, <1>2, <3>1 DEF Apart, Within
      <4>2. pc[t] = "idle"
        BY <3>1, <4>1 DEF MapInv, Lonely
      <4> QED BY <2>1, <4>2
    <3> QED BY <2>1, <3>1
  <2>3. M!Chain(t) \in M!Buckets /\ M!Chain(t) = M!InTable(Hash[arg[t]], MaxExp2)
    BY <2>1, ListWorks DEF M!Chain
  <2>4. \/ list' = list
        \/ list' = [list EXCEPT ![M!Chain(t)] = @ \cup {arg[t]}]
        \/ list' = [list EXCEPT ![M!Chain(t)] = @ \ {arg[t]}]
    BY <2>1 DEF Answers, M!With, M!Without
  <2>5. \A b \in M!Buckets : \A k \in list'[b] : M!InTable(Hash[k], MaxExp2) = b
    BY <1>2, <2>3, <2>4
  <2> QED BY <2>2, <2>5 DEF Chained
<1>8. CASE M!IncItemCount(t) \/ M!Discount(t) \/ M!Return(t)
  <2>1. list' = list /\ pc'[t] \in {"count", "grow", "leave", "idle"}
    BY <1>8 DEF M!IncItemCount, M!LoadSize, M!Count, M!Grow, M!Discount, M!Return, M!Goto, M!mapVars, MapInv, M!TypeOK
  <2> QED BY <1>3, <2>1
<1>9. CASE M!Clear(t)
  <2>1. \A u \in Thread : u # t => pc'[u] # "clear"
    <3>1. op[t] = "clear"
      BY <1>9, ClearEffect
    <3>2. ASSUME NEW u \in Thread, u # t PROVE pc'[u] = "idle"
      BY <1>1, <3>1, <3>2 DEF MapInv, Lonely, Apart
    <3> QED BY <3>2
  <2>2. CASE /\ pc' = pc /\ list' = list /\ at' = [at EXCEPT ![t] = @ + 1]
             /\ at[t] \in M!Buckets /\ list[at[t]] = {}
    <3>1. pc[t] = "clear" /\ at'[t] = at[t] + 1 /\ at[t] \in Nat
      BY <1>9, <2>2, Constants DEF M!Clear, MapInv, M!TypeOK
    <3>2. \A b \in M!Buckets : b \in Nat /\ (b < at[t] + 1 => b < at[t] \/ b = at[t])
      BY <3>1, Constants DEF M!Buckets
    <3> QED BY <1>2, <2>1, <2>2, <3>1, <3>2 DEF Chained
  <2>3. CASE /\ pc' = pc /\ at' = at
             /\ list' \in [M!Buckets -> SUBSET MapKeys] /\ \A b \in M!Buckets : list'[b] \subseteq list[b]
    BY <1>2, <2>1, <2>3 DEF Chained
  <2>4. CASE pc' = [pc EXCEPT ![t] = "leave"] /\ list' = list
    <3>1. pc'[t] = "leave"
      BY <2>4 DEF MapInv, M!TypeOK
    <3> QED BY <1>3, <2>4, <3>1
  <2> QED BY <1>9, <2>2, <2>3, <2>4, ClearEffect
<1> QED BY <1>4, <1>5, <1>6, <1>7, <1>8, <1>9 DEF MapStep, M!MapWorking

\* What the calls notice
LEMMA SeesStep ==
  ASSUME M!Watch
  PROVE  Sees'
<1> DEFINE P(u) == M!PendingIn(op'[u], ans'[u])
           F(u) == P(u) /\ (arg'[u] \in M!Members' \/ (M!PendingIn(op[u], ans[u]) /\ sawIn[u]))
           G(u) == P(u) /\ (M!Missing(u) \/ (M!PendingIn(op[u], ans[u]) /\ sawOut[u]))
<1>1. sawIn' = [u \in Thread |-> F(u)] /\ sawOut' = [u \in Thread |-> G(u)]
  BY DEF M!Watch
<1>2. \A u \in Thread : F(u) \in BOOLEAN /\ G(u) \in BOOLEAN
  OBVIOUS
<1>3. sawIn' \in [Thread -> BOOLEAN] /\ sawOut' \in [Thread -> BOOLEAN]
  <2> HIDE DEF F, G
  <2> QED BY <1>1, <1>2
<1>4. ASSUME NEW u \in Thread
      PROVE  IF P(u) THEN (arg'[u] \in M!Members' => sawIn'[u]) /\ (Gone(u)' => sawOut'[u])
             ELSE ~sawIn'[u] /\ ~sawOut'[u]
  <2>1. sawIn'[u] = F(u) /\ sawOut'[u] = G(u)
    <3> HIDE DEF F, G
    <3> QED BY <1>1
  <2>2. Gone(u)' <=> M!Missing(u)
    BY DEF Gone, M!Missing
  <2> QED BY <2>1, <2>2
<1> QED BY <1>3, <1>4 DEF Sees

LEMMA FiniteStep ==
  ASSUME IsFiniteSet(M!Members), NEW t, Effect(t)
  PROVE  IsFiniteSet(M!Members')
<1>1. \A e : IsFiniteSet(M!Members \cup {e}) /\ IsFiniteSet(M!Members \ {e})
  BY FS_AddElement, FS_RemoveElement
<1> QED BY <1>1 DEF Effect, SameSet

LEMMA MapInductive ==
  /\ kind \in Maps /\ Init => MapInv
  /\ MapInv /\ [Next]_vars => MapInv'
<1>1. kind \in Maps /\ Init => MapInv
  BY MapInit
<1>2. ASSUME MapInv, Next PROVE MapInv'
  <2>1. M!Next
    BY <1>2 DEF Next, MapInv, Lists, Maps
  <2>2. PICK t \in Thread : MapStep(t)
    BY <2>1 DEF M!Next, MapStep
  <2>3. kind' = kind /\ M!Watch
    BY <2>1 DEF M!Next
  <2>4. Own(t) /\ Effect(t) /\ Lonely'
    BY <1>2, <2>2, <2>3, StepOwn, MapEffect, LonelyStep
  <2>5. M!TypeOK' /\ IsFiniteSet(M!Members')
    BY <1>2, <2>4, FiniteStep DEF Own, MapInv
  <2>6. ASSUME NEW u \in Thread PROVE Within(u)'
    <3>1. CASE u = t
      BY <2>4, <3>1 DEF Own
    <3>2. CASE u # t
      <4>1. Within(u)
        BY <1>2 DEF MapInv
      <4> QED BY <2>3, <2>4, <3>2, <4>1 DEF Own, Apart, Within
    <3> QED BY <3>1, <3>2
  <2>7. Sees'
    BY <2>3, SeesStep
  <2>8. (kind' = "split" => Split') /\ (kind' = "hash" => Chained')
    BY <1>2, <2>2, <2>3, SplitStep, ChainStep
  <2>9. kind' \in Maps
    BY <1>2, <2>3 DEF MapInv
  <2>10. IsFiniteSet(M!Members)'
    BY <2>5
  <2> QED BY <2>4, <2>5, <2>6, <2>7, <2>8, <2>9, <2>10 DEF MapInv
<1>3. ASSUME MapInv, UNCHANGED vars PROVE MapInv'
  <2>1. UNCHANGED <<kind, list, table, exp2, count, inits, at, sz, pc, op, arg, ans, sawIn, sawOut>>
    BY <1>3 DEF vars, mapVars, sharedVars
  <2>2. M!TypeOK'
    BY <1>3, <2>1 DEF MapInv, M!TypeOK
  <2>3. M!Members' = M!Members
    BY <2>1 DEF M!Members
  <2>4. \A u \in Thread : Within(u)'
    BY <1>3, <2>1 DEF MapInv, Within
  <2>5. Sees'
    BY <1>3, <2>1, <2>3 DEF MapInv, Sees, Gone
  <2>6. Lonely'
    BY <1>3, <2>1 DEF MapInv, Lonely
  <2>7. kind = "split" => Split'
    BY <1>3, <2>1 DEF MapInv, Split, Sets, Climbs, Bucket
  <2>8. kind = "hash" => Chained'
    BY <1>3, <2>1 DEF MapInv, Chained
  <2> QED BY <1>3, <2>1, <2>2, <2>3, <2>4, <2>5, <2>6, <2>7, <2>8 DEF MapInv
<1> QED BY <1>1, <1>2, <1>3

-----------------------------------------------------------------------------
(* The item counter *)

\* What the step of one thread does to the number of threads that are at some place
LEMMA LateMoves ==
  ASSUME IsFiniteSet(Thread), NEW t \in Thread, NEW here, \A u \in Thread : u # t => pc'[u] = pc[u]
  PROVE  /\ Late(here) \in Nat /\ Late(here)' \in Nat
         /\ (pc[t] \in here <=> pc'[t] \in here) => Late(here)' = Late(here)
         /\ pc[t] \notin here /\ pc'[t] \in here => Late(here)' = Late(here) + 1
         /\ pc[t] \in here /\ pc'[t] \notin here => Late(here)' = Late(here) - 1
<1>1. PICK A : A = {u \in Thread : pc[u] \in here}
  OBVIOUS
<1>2. PICK B : B = {u \in Thread : pc'[u] \in here}
  OBVIOUS
<1>3. Late(here) = Cardinality(A) /\ Late(here)' = Cardinality(B)
  BY <1>1, <1>2 DEF Late
<1>4. IsFiniteSet(A) /\ IsFiniteSet(B)
  BY <1>1, <1>2, FS_Subset
<1>5. Cardinality(A) \in Nat /\ Cardinality(B) \in Nat
  BY <1>4, FS_CardinalityType
<1>6. (pc[t] \in here <=> pc'[t] \in here) => A = B
  BY <1>1, <1>2
<1>7. ASSUME pc[t] \notin here, pc'[t] \in here PROVE Cardinality(B) = Cardinality(A) + 1
  <2>1. B = A \cup {t} /\ t \notin A
    BY <1>1, <1>2, <1>7
  <2> QED BY <1>4, <2>1, FS_AddElement
<1>8. ASSUME pc[t] \in here, pc'[t] \notin here PROVE Cardinality(B) = Cardinality(A) - 1
  <2>1. B = A \ {t} /\ t \in A
    BY <1>1, <1>2, <1>8
  <2> QED BY <1>4, <2>1, FS_RemoveElement
<1> QED BY <1>3, <1>5, <1>6, <1>7, <1>8

\* What a step does to the counter, to the set and to the calls that have yet to change the
\* counter; Stays, Comes and Goes of a group of places
Stays(t, here) == pc[t] \in here <=> pc'[t] \in here
Comes(t, here) == pc[t] \notin here /\ pc'[t] \in here
Goes(t, here) == pc[t] \in here /\ pc'[t] \notin here
Tallies(t) ==
    \/ count' = count /\ SameSet /\ Stays(t, Adding) /\ Stays(t, Erasing)
    \/ /\ count' = count /\ Comes(t, Adding) /\ Stays(t, Erasing)
       /\ \E k : k \notin M!Members /\ M!Members' = M!Members \cup {k}
    \/ count' = (count + 1) % CountSize /\ SameSet /\ Goes(t, Adding) /\ Stays(t, Erasing)
    \/ /\ count' = count /\ Stays(t, Adding) /\ Comes(t, Erasing)
       /\ \E k : k \in M!Members /\ M!Members' = M!Members \ {k}
    \/ count' = (count + CountSize - 1) % CountSize /\ SameSet /\ Stays(t, Adding) /\ Goes(t, Erasing)

LEMMA StepTallies ==
  ASSUME MapInv, NEW t \in Thread, kind' = kind, MapStep(t), pc[t] # "clear"
  PROVE  Tallies(t)
<1> USE DEF Stays, Comes, Goes, Adding, Erasing
<1>1. pc \in [Thread -> Places] /\ pc' \in [Thread -> Places]
  BY StepOwn DEF MapInv, Own, M!TypeOK, Places
<1>2. list' = list => SameSet
  BY DEF SameSet, M!Members
<1>3. CASE M!Call(t) \/ M!CallClear(t)
  <2>1. count' = count /\ list' = list /\ pc[t] = "idle" /\ pc'[t] \in {"bucket", "list", "clear"}
    BY <1>1, <1>3 DEF M!Call, M!CallClear, M!Goto, M!mapVars
  <2> QED BY <1>2, <2>1 DEF Tallies
<1>4. CASE M!FindBucket(t) \/ M!InitBucket(t)
  <2>1. SameSet
    BY <1>4, QuietEffect
  <2>2. count' = count /\ pc[t] \in Climbing \cup {"bucket"} /\ pc'[t] \in Climbing \cup {"list"}
    BY <1>1, <1>4 DEF M!FindBucket, M!InitBucket, M!LookHead, M!InsertDummy, M!SetBucket, M!WaitBucket, M!Found,
                      M!Goto, M!mapVars, Climbing
  <2> QED BY <2>1, <2>2 DEF Tallies, Climbing
<1>5. CASE M!ListOp(t)
  <2>1. /\ pc[t] = "list" /\ Answers(t) /\ count' = count
        /\ pc'[t] = IF list' = list THEN "leave"
                    ELSE IF op[t] = "erase" THEN "uncount"
                    ELSE IF kind = "split" THEN "size" ELSE "count"
        /\ list' # list => M!Members' # M!Members
    BY <1>5, ListOpDoes
  <2>2. CASE list' = list
    BY <1>2, <2>1, <2>2 DEF Tallies
  <2>3. CASE list' # list /\ op[t] = "erase"
    <3>1. arg[t] \in M!Members /\ M!Members' = M!Members \ {arg[t]}
      BY <2>1, <2>3, Removes DEF Answers
    <3> QED BY <2>1, <2>3, <3>1 DEF Tallies
  <2>4. CASE list' # list /\ op[t] # "erase"
    <3>1. arg[t] \notin M!Members /\ M!Members' = M!Members \cup {arg[t]}
      BY <2>1, <2>4, Adds DEF Answers
    <3>2. pc'[t] \in Adding
      BY <2>1, <2>4
    <3> QED BY <2>1, <3>1, <3>2 DEF Tallies
  <2> QED BY <2>2, <2>3, <2>4
<1>6. CASE M!LoadSize(t)
  <2>1. count' = count /\ list' = list /\ pc[t] = "size" /\ pc'[t] = "count"
    BY <1>1, <1>6 DEF M!LoadSize, M!Goto, M!mapVars
  <2> QED BY <1>2, <2>1 DEF Tallies
<1>7. CASE M!Count(t)
  <2>1. count' = (count + 1) % CountSize /\ list' = list /\ pc[t] = "count"
    BY <1>7 DEF M!Count
  <2>2. pc'[t] \in {"grow", "leave"}
    BY <1>1, <1>7 DEF M!Count, M!Goto
  <2> QED BY <1>2, <2>1, <2>2 DEF Tallies
<1>8. CASE M!Grow(t) \/ M!Return(t)
  <2>1. count' = count /\ list' = list /\ pc[t] \in {"grow", "leave"} /\ pc'[t] \in {"leave", "idle"}
    BY <1>1, <1>8 DEF M!Grow, M!Return, M!Goto, M!mapVars
  <2> QED BY <1>2, <2>1 DEF Tallies
<1>9. CASE M!Discount(t)
  <2>1. count' = (count + CountSize - 1) % CountSize /\ list' = list /\ pc[t] = "uncount" /\ pc'[t] = "leave"
    BY <1>1, <1>9 DEF M!Discount, M!Uncount, M!Goto
  <2> QED BY <1>2, <2>1 DEF Tallies
<1>10. CASE M!Clear(t)
  BY <1>10 DEF M!Clear
<1> QED BY <1>3, <1>4, <1>5, <1>6, <1>7, <1>8, <1>9, <1>10 DEF MapStep, M!MapWorking, M!IncItemCount

LEMMA TalliedStep ==
  ASSUME IsFiniteSet(Thread), MapInv, Tallied, NEW t \in Thread, kind' = kind, MapStep(t)
  PROVE  Tallied'
<1>1. Apart(t) /\ M!TypeOK /\ M!TypeOK'
  BY StepOwn DEF Own, MapInv
<1>2. SUFFICES ASSUME \A u \in Thread : pc'[u] # "clear"
               PROVE  \E k \in Int : count' + Late(Adding)' = Cardinality(M!Members') + Late(Erasing)' + CountSize * k
  BY DEF Tallied
<1>3. CASE pc[t] = "clear"
  <2>1. M!Clear(t)
    BY <1>3 DEF MapStep, M!MapWorking, M!Call, M!CallClear, M!FindBucket, M!InitBucket, M!LookHead, M!InsertDummy,
                M!SetBucket, M!WaitBucket, M!ListOp, M!IncItemCount, M!LoadSize, M!Count, M!Grow, M!Discount, M!Return
  <2>2. op[t] = "clear" /\ count' = 0 /\ M!Members' = {} /\ pc' = [pc EXCEPT ![t] = "leave"]
    BY <1>2, <1>3, <2>1, ClearEffect
  <2>3. \A u \in Thread : pc'[u] \in {"idle", "leave"}
    BY <1>1, <2>2 DEF MapInv, Lonely, M!TypeOK
  <2>4. {u \in Thread : pc'[u] \in Adding} = {} /\ {u \in Thread : pc'[u] \in Erasing} = {}
    BY <2>3 DEF Adding, Erasing
  <2>5. Cardinality({}) = 0
    BY FS_EmptySet
  <2>6. Late(Adding)' = 0 /\ Late(Erasing)' = 0 /\ Cardinality(M!Members') = 0
    BY <2>2, <2>4, <2>5 DEF Late
  <2>7. 0 \in Int /\ 0 + 0 = 0 + 0 + CountSize * 0
    BY Constants
  <2> QED BY <2>2, <2>6, <2>7
<1>4. CASE pc[t] # "clear"
  <2> DEFINE Size == Cardinality(M!Members)
             Size2 == Cardinality(M!Members')
  <2>1. \A u \in Thread : u # t => pc'[u] = pc[u]
    BY <1>1 DEF Apart
  <2>2. /\ Late(Adding) \in Nat /\ Late(Adding)' \in Nat
        /\ Stays(t, Adding) => Late(Adding)' = Late(Adding)
        /\ Comes(t, Adding) => Late(Adding)' = Late(Adding) + 1
        /\ Goes(t, Adding) => Late(Adding)' = Late(Adding) - 1
    BY <2>1, LateMoves DEF Stays, Comes, Goes
  <2>3. /\ Late(Erasing) \in Nat /\ Late(Erasing)' \in Nat
        /\ Stays(t, Erasing) => Late(Erasing)' = Late(Erasing)
        /\ Comes(t, Erasing) => Late(Erasing)' = Late(Erasing) + 1
        /\ Goes(t, Erasing) => Late(Erasing)' = Late(Erasing) - 1
    BY <2>1, LateMoves DEF Stays, Comes, Goes
  <2>4. PICK k \in Int : count + Late(Adding) = Size + Late(Erasing) + CountSize * k
    <3>1. \A u \in Thread : pc[u] # "clear"
      BY <1>2, <1>4, <2>1
    <3> QED BY <3>1 DEF Tallied
  <2>5. /\ CountSize \in Nat \ {0} /\ count \in 0..(CountSize - 1)
        /\ CountSize * k \in Int /\ CountSize * (k - 1) = CountSize * k - CountSize
        /\ CountSize * (k + 1) = CountSize * k + CountSize /\ k - 1 \in Int /\ k + 1 \in Int
    BY <1>1, <2>4, Constants DEF M!TypeOK
  <2>6. /\ Size \in Nat /\ Size2 \in Nat
        /\ SameSet => Size2 = Size
        /\ \A x : /\ x \notin M!Members /\ M!Members' = M!Members \cup {x} => Size2 = Size + 1
                  /\ x \in M!Members /\ M!Members' = M!Members \ {x} => Size2 = Size - 1
    <3>1. IsFiniteSet(M!Members) /\ IsFiniteSet(M!Members')
      <4>1. Effect(t)
        BY MapEffect
      <4> QED BY <4>1, FiniteStep DEF MapInv
    <3>2. \A x : /\ x \notin M!Members => Cardinality(M!Members \cup {x}) = Cardinality(M!Members) + 1
                 /\ x \in M!Members => Cardinality(M!Members \ {x}) = Cardinality(M!Members) - 1
      BY <3>1, FS_AddElement, FS_RemoveElement
    <3>3. Cardinality(M!Members) \in Nat /\ Cardinality(M!Members') \in Nat
      BY <3>1, FS_CardinalityType
    <3> QED BY <3>2, <3>3 DEF SameSet
  <2> HIDE DEF Size, Size2
  <2>7. PICK c \in Nat, d \in Nat, a \in Nat, b \in Nat, e \in Nat, f \in Nat :
             /\ c = Size /\ d = Size2 /\ a = Late(Adding) /\ b = Late(Adding)' /\ e = Late(Erasing) /\ f = Late(Erasing)'
    BY <2>2, <2>3, <2>6
  <2>8. PICK z \in Int : z = CountSize * k /\ count + a = c + e + z
    BY <2>4, <2>5, <2>7
  <2>9. \/ count' = count /\ d + f + a = c + e + b
        \/ count' = (count + 1) % CountSize /\ d = c /\ b = a - 1 /\ e = f
        \/ count' = (count + CountSize - 1) % CountSize /\ d = c /\ b = a /\ f = e - 1
    <3> USE <2>2, <2>3, <2>6, <2>7
    <3>1. CASE count' = count /\ SameSet /\ Stays(t, Adding) /\ Stays(t, Erasing)
      <4>1. d = c /\ a = b /\ e = f
        BY <3>1
      <4> QED BY <3>1, <4>1
    <3>2. CASE /\ count' = count /\ Comes(t, Adding) /\ Stays(t, Erasing)
               /\ \E x : x \notin M!Members /\ M!Members' = M!Members \cup {x}
      <4>1. d = c + 1 /\ b = a + 1 /\ e = f
        BY <3>2
      <4> QED BY <3>2, <4>1
    <3>3. CASE count' = (count + 1) % CountSize /\ SameSet /\ Goes(t, Adding) /\ Stays(t, Erasing)
      <4>1. d = c /\ b = a - 1 /\ e = f
        BY <3>3
      <4> QED BY <3>3, <4>1
    <3>4. CASE /\ count' = count /\ Stays(t, Adding) /\ Comes(t, Erasing)
               /\ \E x : x \in M!Members /\ M!Members' = M!Members \ {x}
      <4>1. d = c - 1 /\ b = a /\ f = e + 1
        BY <3>4
      <4> QED BY <3>4, <4>1
    <3>5. CASE count' = (count + CountSize - 1) % CountSize /\ SameSet /\ Stays(t, Adding) /\ Goes(t, Erasing)
      <4>1. d = c /\ b = a /\ f = e - 1
        BY <3>5
      <4> QED BY <3>5, <4>1
    <3>6. Tallies(t)
      BY <1>4, StepTallies
    <3> QED BY <3>1, <3>2, <3>3, <3>4, <3>5, <3>6 DEF Tallies
  <2>10. /\ count \in Nat /\ count < CountSize
         /\ (count + 1) % CountSize = IF count + 1 = CountSize THEN 0 ELSE count + 1
         /\ (count + CountSize - 1) % CountSize = IF count = 0 THEN CountSize - 1 ELSE count - 1
    BY <2>5
  <2>11. count' + b = d + f + z \/ count' + b = d + f + (z - CountSize) \/ count' + b = d + f + (z + CountSize)
    <3>1. CASE count' = count /\ d + f + a = c + e + b
      <4>1. PICK x \in Nat : x = count /\ x = count'
        BY <2>10, <3>1
      <4>2. x + a = c + e + z /\ d + f + a = c + e + b
        BY <2>8, <3>1, <4>1
      <4>3. x + b = d + f + z
        BY <4>2
      <4> QED BY <4>1, <4>3
    <3>2. CASE count' = (count + 1) % CountSize /\ d = c /\ b = a - 1 /\ e = f
      <4>1. (count' = 0 /\ count + 1 = CountSize) \/ count' = count + 1
        BY <2>10, <3>2
      <4> QED BY <2>5, <2>8, <2>10, <3>2, <4>1
    <3>3. CASE count' = (count + CountSize - 1) % CountSize /\ d = c /\ b = a /\ f = e - 1
      <4>1. (count' = CountSize - 1 /\ count = 0) \/ count' = count - 1
        BY <2>10, <3>3
      <4> QED BY <2>5, <2>8, <2>10, <3>3, <4>1
    <3> QED BY <2>9, <3>1, <3>2, <3>3
  <2>12. \E m \in Int : count' + b = d + f + CountSize * m
    BY <2>5, <2>8, <2>11
  <2> QED BY <2>7, <2>12 DEF Size2
<1> QED BY <1>3, <1>4

\* Numbers a multiple of c apart have the same remainder.
LEMMA SameRemainder ==
  ASSUME NEW c \in Nat \ {0}, NEW x \in Int, NEW y \in Int, NEW k \in Int, x = y + c * k
  PROVE  x % c = y % c
<1>1. PICK p \in Int, r \in 0..(c - 1) : x = c * p + r /\ r = x % c
  <2>1. x % c \in 0..(c - 1) /\ x \div c \in Int /\ x = c * (x \div c) + (x % c)
    OBVIOUS
  <2> QED BY <2>1
<1>2. PICK q \in Int, s \in 0..(c - 1) : y = c * q + s /\ s = y % c
  <2>1. y % c \in 0..(c - 1) /\ y \div c \in Int /\ y = c * (y \div c) + (y % c)
    OBVIOUS
  <2> QED BY <2>1
<1>3. PICK d \in Int : d = q + k - p
  OBVIOUS
<1>4. c * d = c * q + c * k - c * p /\ c * d \in Int /\ c * q \in Int /\ c * k \in Int /\ c * p \in Int
  BY <1>3
<1>5. c * d = r - s
  <2>1. PICK f \in Int, g \in Int, h \in Int : f = c * p /\ g = c * q /\ h = c * k
    BY <1>4
  <2>2. x = f + r /\ y = g + s /\ x = y + h /\ c * d = g + h - f
    BY <1>1, <1>2, <1>4, <2>1
  <2> QED BY <2>2
<1>6. CASE d > 0
  <2>1. c * d >= c
    BY <1>6
  <2> QED BY <1>5, <2>1
<1>7. CASE d < 0
  <2>1. c * d <= -c
    BY <1>7
  <2> QED BY <1>5, <2>1
<1>8. CASE d = 0
  <2>1. c * d = 0
    BY <1>8
  <2>2. r = s
    BY <1>5, <2>1
  <2> QED BY ONLY <1>1, <1>2, <2>2, Zenon
<1> QED BY <1>6, <1>7, <1>8

-----------------------------------------------------------------------------
(* The shape *)

LEMMA MapShape ==
  ASSUME IsFiniteSet(Thread), MapInv, Tallied
  PROVE  M!Shape
<1>1. ASSUME kind = "split" PROVE \A i, j \in DOMAIN list : i < j => M!Less(list[i], list[j])
  BY <1>1 DEF MapInv, Split, Ascends
<1>2. \A t \in Thread, b \in M!Buckets : t \in M!Setting(b) <=> Sets(t, b)
  BY DEF M!Setting, Sets, Bucket
<1>3. \A b \in M!Buckets : M!Setting(b) \subseteq Thread
  BY DEF M!Setting
<1>4. ASSUME kind = "split", NEW b \in M!Buckets
      PROVE  /\ M!Dummy(b) \in M!Range(list) <=> b \in table \/ M!Setting(b) # {}
             /\ M!Cardinality(M!Setting(b)) <= IF b \in table THEN 0 ELSE 1
  <2>1. /\ M!Dummy(b) \in M!Range(list) <=> b \in table \/ \E t \in Thread : Sets(t, b)
        /\ \A t, u \in Thread : Sets(t, b) /\ Sets(u, b) => t = u
        /\ \A t \in Thread : Sets(t, b) => b \notin table
    BY <1>4 DEF MapInv, Split, Climbs, Sets
  <2>2. M!Dummy(b) \in M!Range(list) <=> b \in table \/ M!Setting(b) # {}
    BY <1>2, <1>3, <2>1
  <2>3. CASE M!Setting(b) = {}
    <3>1. M!Cardinality(M!Setting(b)) = 0
      BY <2>3, FS_EmptySet, SameCardinality
    <3> QED BY <2>2, <3>1
  <2>4. CASE M!Setting(b) # {}
    <3>1. PICK t \in Thread : t \in M!Setting(b)
      BY <1>3, <2>4
    <3>2. M!Setting(b) = {t} /\ b \notin table
      BY <1>2, <1>3, <2>1, <3>1
    <3>3. Cardinality({t}) = 1
      BY FS_Singleton
    <3>4. M!Cardinality(M!Setting(b)) = 1
      BY <3>2, <3>3, SameCardinality
    <3> QED BY <2>2, <3>2, <3>4
  <2> QED BY <2>3, <2>4
<1>5. ASSUME \A t \in Thread : op[t] # "clear"
      PROVE  (count + M!Late({"size", "count"})) % CountSize = (M!Cardinality(M!Members) + M!Late({"uncount"})) % CountSize
  <2>1. \A t \in Thread : pc[t] # "clear"
    BY <1>5 DEF MapInv, Within
  <2>2. PICK k \in Int : count + Late(Adding) = Cardinality(M!Members) + Late(Erasing) + CountSize * k
    BY <2>1 DEF Tallied
  <2>3. Late(Adding) \in Nat /\ Late(Erasing) \in Nat /\ Cardinality(M!Members) \in Nat
    <3>1. ASSUME NEW S PROVE Late(S) \in Nat
      <4>1. IsFiniteSet({t \in Thread : pc[t] \in S})
        BY FS_Subset
      <4> QED BY <4>1, FS_CardinalityType DEF Late
    <3>2. Cardinality(M!Members) \in Nat
      BY FS_CardinalityType DEF MapInv
    <3> QED BY <3>1, <3>2
  <2>4. PICK x \in Int, y \in Int : x = count + Late(Adding) /\ y = Cardinality(M!Members) + Late(Erasing) /\ x = y + CountSize * k
    <3>1. count \in Nat
      BY Constants DEF MapInv, M!TypeOK
    <3> QED BY <2>2, <2>3, <3>1
  <2>5. x % CountSize = y % CountSize
    BY <2>4, Constants, SameRemainder
  <2>6. M!Late({"size", "count"}) = Late(Adding) /\ M!Late({"uncount"}) = Late(Erasing)
    BY SameCardinality DEF M!Late, Late, Adding, Erasing
  <2>7. M!Cardinality(M!Members) = Cardinality(M!Members)
    BY SameCardinality
  <2> QED BY <2>4, <2>5, <2>6, <2>7
<1> QED BY <1>1, <1>4, <1>5 DEF M!Shape

\* Every state of a map satisfies the invariant, whatever the number of threads is.
THEOREM MapsInvariant == kind \in Maps /\ Spec => []MapInv
<1>1. (kind \in Maps /\ Init => MapInv) /\ (MapInv /\ [Next]_vars => MapInv')
  BY MapInductive
<1> QED BY <1>1, PTL DEF Spec

\* In every state of a map, the list of the split-ordered list is in the split order, with a
\* dummy node for each bucket of the table and for each that one call is about to enter there;
\* and the item counter of either map agrees with its keys, but for the calls that have yet
\* to change it.
THEOREM MapsShape == IsFiniteSet(Thread) => (kind \in Maps /\ Spec => []Shape)
<1> SUFFICES ASSUME IsFiniteSet(Thread) PROVE kind \in Maps /\ Spec => []Shape
  OBVIOUS
<1>1. kind \in Maps /\ Init => MapInv /\ Tallied
  BY MapInit
<1>2. ASSUME MapInv, Tallied, [Next]_vars PROVE Tallied'
  <2>1. CASE Next
    <3>1. M!Next
      BY <1>2, <2>1 DEF Next, MapInv, Lists, Maps
    <3>2. PICK t \in Thread : MapStep(t)
      BY <3>1 DEF M!Next, MapStep
    <3>3. kind' = kind
      BY <3>1 DEF M!Next
    <3> QED BY <1>2, <3>2, <3>3, TalliedStep
  <2>2. CASE UNCHANGED vars
    <3>1. UNCHANGED <<kind, list, count, pc>>
      BY <2>2 DEF vars, mapVars, sharedVars
    <3> QED BY <1>2, <3>1 DEF Tallied, Late, M!Members
  <2> QED BY <1>2, <2>1, <2>2
<1>3. MapInv /\ [Next]_vars => MapInv'
  BY MapInductive
<1>4. MapInv /\ Tallied => Shape
  <2> SUFFICES ASSUME MapInv, Tallied PROVE Shape
    OBVIOUS
  <2>1. M!TypeOK /\ M!Shape /\ kind \in Maps
    BY MapShape DEF MapInv
  <2> QED BY <2>1 DEF Shape, Choose, Lists, Maps
<1> QED BY <1>1, <1>2, <1>3, <1>4, PTL DEF Spec

-----------------------------------------------------------------------------
(* The maps are sets of keys. *)

\* The set as a map's or a list's
TheSet == IF kind \in Maps THEN M!Members ELSE Members
Acts == [t \in Thread |-> Doing(op[t], ans[t])]

\* A step with such an effect is one of the specification.
LEMMA EffectStep ==
  ASSUME MapInv, MapInv', NEW t \in Thread, Apart(t), kind' = kind, M!Watch, Effect(t)
  PROVE  K!KNext \/ UNCHANGED K!kvars
<1>1. TheSet = M!Members /\ TheSet' = M!Members'
  BY DEF TheSet, MapInv
<1>2. \A u \in Thread : Acts[u] = Act(u) /\ Acts'[u] = Act(u)'
  BY DEF Acts, Act
<1>3. \A u \in Thread \ {t} : Act(u)' = Act(u) /\ arg'[u] = arg[u]
  BY DEF Apart, Act
<1>4. \A u \in Thread : /\ Acts[u] \in K!Pending <=> M!PendingIn(op[u], ans[u])
                        /\ Acts'[u] \in K!Pending <=> M!PendingIn(op'[u], ans'[u])
  <2> TAKE u \in Thread
  <2>1. /\ op[u] \in M!KeyOps \cup {"none", "clear"} /\ ans[u] \in {"none", "yes", "no"}
        /\ op[u] = "none" => ans[u] = "none"
    BY ActTypes DEF MapInv
  <2>2. /\ op'[u] \in M!KeyOps \cup {"none", "clear"} /\ ans'[u] \in {"none", "yes", "no"}
        /\ op'[u] = "none" => ans'[u] = "none"
    BY DEF MapInv, M!TypeOK, Within
  <2>3. Act(u) \in K!Pending <=> M!PendingIn(op[u], ans[u])
    BY <2>1, DoingIs DEF Act
  <2>4. Act(u)' \in K!Pending <=> M!PendingIn(op'[u], ans'[u])
    BY <2>2, DoingIs DEF Act
  <2> QED BY <1>2, <2>3, <2>4
<1>5. K!Watch
  <2> DEFINE F(u) == M!PendingIn(op'[u], ans'[u]) /\ (arg'[u] \in M!Members' \/ (M!PendingIn(op[u], ans[u]) /\ sawIn[u]))
             F2(u) == Acts'[u] \in K!Pending /\ (arg'[u] \in TheSet' \/ (Acts[u] \in K!Pending /\ sawIn[u]))
             G(u) == M!PendingIn(op'[u], ans'[u]) /\ (M!Missing(u) \/ (M!PendingIn(op[u], ans[u]) /\ sawOut[u]))
             G2(u) == Acts'[u] \in K!Pending /\ (K!Missing(u, TheSet') \/ (Acts[u] \in K!Pending /\ sawOut[u]))
  <2>1. sawIn' = [u \in Thread |-> F(u)] /\ sawOut' = [u \in Thread |-> G(u)]
    BY DEF M!Watch
  <2>2. \A u \in Thread : F(u) = F2(u)
    BY <1>1, <1>4
  <2>3. \A u \in Thread : G(u) = G2(u)
    BY <1>1, <1>4 DEF M!Missing, K!Missing
  <2>4. sawIn' = [u \in Thread |-> F2(u)] /\ sawOut' = [u \in Thread |-> G2(u)]
    <3> HIDE DEF F, F2, G, G2
    <3> QED BY <2>1, <2>2, <2>3
  <2> QED BY <2>4 DEF K!Watch, TheSet, Acts
<1>6. Acts' = [Acts EXCEPT ![t] = Acts'[t]] /\ Acts'[t] = Act(t)' /\ Acts[t] = Act(t)
  <2>1. \A u \in Thread \ {t} : Acts'[u] = Acts[u]
    BY <1>2, <1>3
  <2>2. DOMAIN Acts = Thread /\ Acts' = [u \in Thread |-> Acts'[u]] /\ Acts = [u \in Thread |-> Acts[u]]
    BY DEF Acts
  <2> HIDE DEF Acts
  <2> QED BY <1>2, <2>1, <2>2
<1>7. arg' = [arg EXCEPT ![t] = arg'[t]] /\ arg \in [Thread -> MapKeys \cup {NoKey}] /\ arg' \in [Thread -> MapKeys \cup {NoKey}]
  BY <1>3 DEF MapInv, M!TypeOK
<1>8. CASE SameAct(t) /\ SameSet
  <2>1. arg' = arg /\ Acts' = Acts /\ TheSet' = TheSet
    <3>1. \A u \in Thread : Acts'[u] = Acts[u] /\ arg'[u] = arg[u]
      BY <1>2, <1>3, <1>8 DEF SameAct
    <3>2. Acts' = Acts
      BY <3>1 DEF Acts
    <3>3. arg' = arg
      BY <1>7, <3>1
    <3> QED BY <1>1, <1>8, <3>2, <3>3 DEF SameSet
  <2>2. \A u \in Thread : M!PendingIn(op'[u], ans'[u]) <=> M!PendingIn(op[u], ans[u])
    BY <1>4, <2>1
  <2>3. \A u \in Thread : sawIn'[u] = sawIn[u] /\ sawOut'[u] = sawOut[u]
    <3> TAKE u \in Thread
    <3>1. sawIn[u] \in BOOLEAN /\ sawOut[u] \in BOOLEAN
      BY DEF MapInv, Sees
    <3>2. /\ sawIn'[u] = (M!PendingIn(op'[u], ans'[u]) /\ (arg'[u] \in M!Members' \/ (M!PendingIn(op[u], ans[u]) /\ sawIn[u])))
          /\ sawOut'[u] = (M!PendingIn(op'[u], ans'[u]) /\ (M!Missing(u) \/ (M!PendingIn(op[u], ans[u]) /\ sawOut[u])))
      BY DEF M!Watch
    <3>3. /\ sawIn[u] \/ sawOut[u] => M!PendingIn(op[u], ans[u])
          /\ M!PendingIn(op[u], ans[u]) => (arg[u] \in M!Members => sawIn[u]) /\ (Gone(u) => sawOut[u])
      BY DEF MapInv, Sees
    <3>4. M!Missing(u) <=> Gone(u)
      BY <2>1, <1>8 DEF M!Missing, Gone, SameSet
    <3> QED BY <1>8, <2>1, <2>2, <3>1, <3>2, <3>3, <3>4 DEF SameSet
  <2>4. sawIn' = sawIn /\ sawOut' = sawOut
    BY <2>3 DEF MapInv, Sees
  <2> QED BY <2>1, <2>4 DEF K!kvars, TheSet, Acts
<1>9. CASE /\ Act(t) = "idle" /\ SameSet
           /\ \/ Act(t)' \in {"insert", "erase", "find"} /\ arg'[t] \in MapKeys
              \/ Act(t)' = "clear" /\ arg'[t] = arg[t]
  <2>1. CASE Act(t)' \in {"insert", "erase", "find"} /\ arg'[t] \in MapKeys
    <3>1. \E o \in {"insert", "erase", "find"} : Acts' = [Acts EXCEPT ![t] = o]
      BY <1>6, <2>1
    <3>2. \E k \in Keys \cup MapKeys : arg' = [arg EXCEPT ![t] = k]
      BY <1>7, <2>1
    <3>3. K!Call(t)
      BY <1>1, <1>6, <1>9, <3>1, <3>2 DEF K!Call, TheSet, Acts, SameSet
    <3> QED BY <1>5, <3>3 DEF K!KNext
  <2>2. CASE Act(t)' = "clear" /\ arg'[t] = arg[t]
    <3>1. \E o \in {"empty", "clear"} : Acts' = [Acts EXCEPT ![t] = o]
      BY <1>6, <2>2
    <3>2. arg' = arg
      BY <1>7, <2>2
    <3>3. K!Call(t)
      BY <1>1, <1>6, <1>9, <3>1, <3>2 DEF K!Call, TheSet, Acts, SameSet
    <3> QED BY <1>5, <3>3 DEF K!KNext
  <2> QED BY <1>9, <2>1, <2>2
<1>10. ASSUME arg'[t] = arg[t] PROVE arg' = arg
  BY <1>7, <1>10
<1>11. CASE From(t, "insert", "yes") /\ arg'[t] = arg[t] /\ arg[t] \notin M!Members /\ M!Members' = M!Members \cup {arg[t]}
  <2>1. K!Insert(t)
    BY <1>1, <1>6, <1>10, <1>11 DEF K!Insert, K!Answer, TheSet, Acts, From
  <2> QED BY <1>5, <2>1 DEF K!KNext
<1>12. CASE From(t, "erase", "yes") /\ arg'[t] = arg[t] /\ arg[t] \in M!Members /\ M!Members' = M!Members \ {arg[t]}
  <2>1. K!Erase(t)
    BY <1>1, <1>6, <1>10, <1>12 DEF K!Erase, K!Answer, TheSet, Acts, From
  <2> QED BY <1>5, <2>1 DEF K!KNext
<1>13. CASE SameAct(t) /\ Act(t) = "clear" /\ \E k \in M!Members : M!Members' = M!Members \ {k}
  <2>1. Acts' = Acts
    <3>1. \A u \in Thread : Acts'[u] = Acts[u]
      BY <1>2, <1>3, <1>13 DEF SameAct
    <3> QED BY <3>1 DEF Acts
  <2>2. Acts[t] = "clear"
    BY <1>6, <1>13
  <2>3. K!Drop(t)
    BY <1>1, <1>10, <1>13, <2>1, <2>2 DEF K!Drop, TheSet, Acts, SameAct
  <2> QED BY <1>5, <2>3 DEF K!KNext
<1>14. CASE SameSet /\ arg'[t] = arg[t] /\ From(t, "insert", "no") /\ sawIn[t]
  <2>1. K!Refuse(t)
    BY <1>1, <1>6, <1>10, <1>14 DEF K!Refuse, K!Answer, TheSet, Acts, From, SameSet
  <2> QED BY <1>5, <2>1 DEF K!KNext
<1>15. CASE SameSet /\ arg'[t] = arg[t] /\ From(t, "find", "yes") /\ sawIn[t]
  <2>1. K!Found(t)
    BY <1>1, <1>6, <1>10, <1>15 DEF K!Found, K!Answer, TheSet, Acts, From, SameSet
  <2> QED BY <1>5, <2>1 DEF K!KNext
<1>16. CASE SameSet /\ arg'[t] = arg[t] /\ Act(t) \in {"erase", "find"} /\ Act(t)' = "no" /\ sawOut[t]
  <2>1. K!NotFound(t)
    BY <1>1, <1>6, <1>10, <1>16 DEF K!NotFound, K!Answer, TheSet, Acts, SameSet
  <2> QED BY <1>5, <2>1 DEF K!KNext
<1>17. CASE SameSet /\ arg'[t] = arg[t] /\ From(t, "clear", "yes") /\ sawOut[t]
  <2>1. K!IsEmpty(t)
    BY <1>1, <1>6, <1>10, <1>17 DEF K!IsEmpty, K!Answer, TheSet, Acts, From, SameSet
  <2> QED BY <1>5, <2>1 DEF K!KNext
<1>18. CASE SameSet /\ Act(t) \in {"yes", "no"} /\ Act(t)' = "idle" /\ arg'[t] = NoKey
  <2>1. K!Return(t)
    BY <1>1, <1>6, <1>7, <1>18 DEF K!Return, TheSet, Acts, SameSet
  <2> QED BY <1>5, <2>1 DEF K!KNext
<1> QED BY <1>8, <1>9, <1>11, <1>12, <1>13, <1>14, <1>15, <1>16, <1>17, <1>18 DEF Effect

\* Every map implements the set of keys: insert takes effect when the item is linked, erase when
\* it is unlinked, and every other answer was true at one instant of its call; the dummy nodes,
\* the growth of the table and the counter do not show.
THEOREM MapsAreSets == kind \in Maps /\ Spec => IsSet
<1>1. kind \in Maps /\ Init => K!KInit
  <2> SUFFICES ASSUME kind \in Maps, Init PROVE K!KInit
    OBVIOUS
  <2>1. M!Init
    BY DEF Init, Lists, Maps
  <2>2. M!Members = {} /\ \A t \in Thread : Doing(op[t], ans[t]) = "idle"
    BY <2>1, MapInit DEF M!Init, Doing
  <2>3. sawIn = [t \in Thread |-> FALSE] /\ sawOut = [t \in Thread |-> FALSE] /\ arg = [t \in Thread |-> NoKey]
    BY <2>1 DEF M!Init
  <2>4. (IF kind \in Maps THEN M!Members ELSE Members) = {}
    BY <2>2
  <2>5. [t \in Thread |-> Doing(op[t], ans[t])] = [t \in Thread |-> "idle"]
    BY <2>2
  <2> QED BY <2>3, <2>4, <2>5 DEF K!KInit
<1>2. MapInv /\ [Next]_vars => [K!KNext]_(K!kvars) /\ MapInv'
  <2> SUFFICES ASSUME MapInv, [Next]_vars PROVE [K!KNext]_(K!kvars) /\ MapInv'
    OBVIOUS
  <2>1. MapInv'
    BY MapInductive
  <2>2. CASE Next
    <3>1. M!Next
      BY <2>2 DEF Next, MapInv, Lists, Maps
    <3>2. PICK t \in Thread : MapStep(t)
      BY <3>1 DEF M!Next, MapStep
    <3>3. kind' = kind /\ M!Watch
      BY <3>1 DEF M!Next
    <3>4. Apart(t) /\ Effect(t)
      BY <3>2, <3>3, StepOwn, MapEffect DEF Own
    <3>5. K!KNext \/ UNCHANGED K!kvars
      BY <2>1, <3>3, <3>4, EffectStep
    <3> QED BY <2>1, <3>5
  <2>3. CASE UNCHANGED vars
    <3>1. UNCHANGED <<kind, items, key, list, op, ans, arg, sawIn, sawOut>>
      BY <2>3 DEF vars, orderedVars, mapVars, sharedVars, listVars
    <3>2. TheSet' = TheSet /\ Acts' = Acts
      BY <3>1 DEF TheSet, Acts, Members, M!Members
    <3> QED BY <2>1, <3>1, <3>2 DEF K!kvars, TheSet, Acts
  <2> QED BY <2>2, <2>3
<1>3. kind \in Maps /\ Init => MapInv
  BY MapInductive
<1> QED BY <1>1, <1>2, <1>3, PTL DEF Spec, IsSet, K!KSpec
=============================================================================
