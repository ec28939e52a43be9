----------------------------- MODULE DrmMmProofs -----------------------------
(***************************************************************************)
(* Proofs about the range allocator, for any number of nodes, any size of  *)
(* the managed range and any set of requests.                              *)
(*                                                                         *)
(* MmInv speaks of the owned nodes, those on the list and those that a     *)
(* scan has taken off: they are apart whether or not a scan is going on.   *)
(* ScanOK says that each record of the scan names the node after which its *)
(* node will come back, among those that will be back by then; HolesOK     *)
(* says what hole_follows will be when all are back, which is what the     *)
(* first scan that touched the word remembers.  PaysInv says what lies     *)
(* between the two nodes around a hit.                                     *)
(***************************************************************************)
EXTENDS DrmMm, WellFoundedInduction, SequenceTheorems, TLAPS

-----------------------------------------------------------------------------
(* Sequences                                                               *)

Injective(s) == \A i, j \in DOMAIN s : s[i] = s[j] => i = j

\* A set of naturals has a least one.
LEMMA LeastOf ==
    ASSUME NEW S \in SUBSET Nat, S # {}
    PROVE  \E m \in S : \A k \in S : m <= k
  <1> DEFINE R == {ss \in Nat \X Nat : ss[1] < ss[2]}
  <1>1. IsWellFoundedOn(R, Nat)
    BY NatLessThanWellFounded DEF OpToRel
  <1>2. PICK x \in S : \A y \in S : ~(<<y, x>> \in R)
    <2> HIDE DEF R
    <2> QED BY <1>1, WFMin
  <1>3. ASSUME NEW k \in S PROVE x <= k
    <2>1. ~(<<k, x>> \in R)
      BY <1>2
    <2>2. k \in Nat /\ x \in Nat
      OBVIOUS
    <2>3. <<k, x>> \in Nat \X Nat /\ <<k, x>>[1] = k /\ <<k, x>>[2] = x
      BY <2>2
    <2> QED BY <2>1, <2>2, <2>3
  <1> QED BY <1>3

\* An element is taken out, and the rest keeps its order.
LEMMA RemoveAtIs ==
    ASSUME NEW S, NEW s \in Seq(S), NEW i \in 1 .. Len(s)
    PROVE  /\ RemoveAt(s, i) \in Seq(S)
           /\ Len(RemoveAt(s, i)) = Len(s) - 1
           /\ \A k \in 1 .. Len(s) - 1 : RemoveAt(s, i)[k] = IF k < i THEN s[k] ELSE s[k + 1]
  <1> DEFINE a == SubSeq(s, 1, i - 1)
             b == SubSeq(s, i + 1, Len(s))
  <1>1. a \in Seq(S) /\ Len(a) = i - 1 /\ \A k \in 1 .. i - 1 : a[k] = s[k]
    OBVIOUS
  <1>2. b \in Seq(S) /\ Len(b) = Len(s) - i /\ \A k \in 1 .. Len(s) - i : b[k] = s[i + k]
    OBVIOUS
  <1>3. RemoveAt(s, i) = a \o b
    BY DEF RemoveAt
  <1> HIDE DEF a, b
  <1>4. a \o b \in Seq(S) /\ Len(a \o b) = Len(a) + Len(b)
    BY <1>1, <1>2, ConcatProperties
  <1>5. ASSUME NEW k \in 1 .. Len(s) - 1
        PROVE  (a \o b)[k] = IF k < i THEN s[k] ELSE s[k + 1]
    <2>0. /\ Len(s) \in Nat /\ k \in Nat /\ i \in Nat
          /\ (a \o b)[k] = IF k <= Len(a) THEN a[k] ELSE b[k - Len(a)]
      <3>1. k \in 1 .. Len(a) + Len(b) /\ Len(s) \in Nat
        BY <1>1, <1>2
      <3>2. \A j \in 1 .. Len(a) + Len(b) : (a \o b)[j] = IF j <= Len(a) THEN a[j] ELSE b[j - Len(a)]
        BY <1>1, <1>2, ConcatProperties, Zenon
      <3> QED BY <3>1, <3>2
    <2>1. CASE k < i
      <3>1. k <= Len(a) /\ k \in 1 .. i - 1
        BY <1>1, <2>0, <2>1
      <3>2. (a \o b)[k] = a[k]
        BY <2>0, <3>1, Zenon
      <3>3. a[k] = s[k]
        BY <1>1, <3>1, Zenon
      <3> QED BY <2>1, <3>2, <3>3, Zenon
    <2>2. CASE ~(k < i)
      <3>1. ~(k <= Len(a)) /\ k - Len(a) \in 1 .. Len(s) - i /\ i + (k - Len(a)) = k + 1
        BY <1>1, <2>0, <2>2
      <3>2. (a \o b)[k] = b[k - Len(a)]
        BY <2>0, <3>1, Zenon
      <3>3. b[k - Len(a)] = s[i + (k - Len(a))]
        BY <1>2, <3>1, Zenon
      <3> QED BY <2>2, <3>1, <3>2, <3>3, Zenon
    <2> QED BY <2>1, <2>2
  <1> QED BY <1>1, <1>2, <1>3, <1>4, <1>5

\* An element is put in, and the rest keeps its order.
LEMMA InsertAtIs ==
    ASSUME NEW S, NEW s \in Seq(S), NEW i \in 1 .. Len(s) + 1, NEW e \in S
    PROVE  /\ InsertAt(s, i, e) \in Seq(S)
           /\ Len(InsertAt(s, i, e)) = Len(s) + 1
           /\ \A k \in 1 .. Len(s) + 1 :
                 InsertAt(s, i, e)[k] = IF k < i THEN s[k] ELSE IF k = i THEN e ELSE s[k - 1]
  <1> DEFINE a == SubSeq(s, 1, i - 1)
             b == SubSeq(s, i, Len(s))
             c == a \o <<e>>
  <1>1. a \in Seq(S) /\ Len(a) = i - 1 /\ \A k \in 1 .. i - 1 : a[k] = s[k]
    OBVIOUS
  <1>2. b \in Seq(S) /\ Len(b) = Len(s) - i + 1 /\ \A k \in 1 .. Len(s) - i + 1 : b[k] = s[i + k - 1]
    OBVIOUS
  <1>3. InsertAt(s, i, e) = c \o b
    BY DEF InsertAt
  <1> HIDE DEF a, b
  <1>4. c \in Seq(S) /\ Len(c) = i /\ c[i] = e /\ \A k \in 1 .. i - 1 : c[k] = s[k]
    BY <1>1
  <1> HIDE DEF c
  <1>5. c \o b \in Seq(S) /\ Len(c \o b) = Len(c) + Len(b)
    BY <1>4, <1>2, ConcatProperties
  <1>6. ASSUME NEW k \in 1 .. Len(s) + 1
        PROVE  (c \o b)[k] = IF k < i THEN s[k] ELSE IF k = i THEN e ELSE s[k - 1]
    <2>1. CASE k <= i
      <3>1. k \in 1 .. Len(c) + Len(b) /\ k <= Len(c) /\ (k = i \/ (k < i /\ k \in 1 .. i - 1))
        BY <1>2, <1>4, <2>1
      <3>2. (c \o b)[k] = c[k]
        BY <1>2, <1>4, <3>1, ConcatProperties, Zenon
      <3>3. CASE k = i
        <4>1. ~(k < i)
          BY <3>3
        <4> QED BY <4>1, <3>2, <3>3, <1>4, Zenon
      <3>4. CASE k < i /\ k \in 1 .. i - 1
        <4>1. c[k] = s[k]
          BY <1>4, <3>4, Zenon
        <4> QED BY <4>1, <3>2, <3>4, Zenon
      <3> QED BY <3>1, <3>3, <3>4
    <2>2. CASE k > i
      <3>1. (c \o b)[k] = b[k - i]
        BY <1>2, <1>4, <2>2, ConcatProperties
      <3>2. k - i \in 1 .. Len(s) - i + 1 /\ i + (k - i) - 1 = k - 1
        BY <2>2
      <3>3. \A j \in 1 .. Len(s) - i + 1 : b[j] = s[i + j - 1]
        BY <1>2
      <3>4. b[k - i] = s[k - 1]
        BY <3>2, <3>3
      <3>5. ~(k < i) /\ k # i
        BY <2>2
      <3> QED BY <3>1, <3>4, <3>5, Zenon
    <2>3. k <= i \/ k > i
      OBVIOUS
    <2> QED BY <2>1, <2>2, <2>3, Zenon
  <1> QED BY <1>2, <1>3, <1>4, <1>5, <1>6

\* Where an element stands
LEMMA PositionIs ==
    ASSUME NEW S, NEW s \in Seq(S), NEW n \in ToSet(s)
    PROVE  Position(s, n) \in 1 .. Len(s) /\ s[Position(s, n)] = n
  BY DEF Position, ToSet

\* What is left when an element is taken out of a sequence without repetitions
LEMMA WithoutIs ==
    ASSUME NEW S, NEW s \in Seq(S), Injective(s), NEW n
    PROVE  /\ Without(s, n) \in Seq(S)
           /\ ToSet(Without(s, n)) = ToSet(s) \ {n}
           /\ Injective(Without(s, n))
  <1>1. CASE n \notin ToSet(s)
    BY <1>1 DEF Without
  <1>2. CASE n \in ToSet(s)
    <2> DEFINE i == Position(s, n)
               r == RemoveAt(s, i)
    <2>1. i \in 1 .. Len(s) /\ s[i] = n
      BY <1>2, PositionIs
    <2>2. Without(s, n) = r
      BY <1>2 DEF Without
    <2> HIDE DEF i
    <2>3. /\ r \in Seq(S) /\ Len(r) = Len(s) - 1
          /\ \A k \in 1 .. Len(s) - 1 : r[k] = IF k < i THEN s[k] ELSE s[k + 1]
      BY <2>1, RemoveAtIs
    <2> HIDE DEF r
    <2>4. DOMAIN r = 1 .. Len(s) - 1 /\ DOMAIN s = 1 .. Len(s) /\ Len(s) \in Nat
      BY <2>3
    <2>5. Injective(r)
      BY <2>1, <2>3, <2>4 DEF Injective
    <2>6. ASSUME NEW k \in DOMAIN r PROVE r[k] \in ToSet(s) \ {n}
      BY <2>1, <2>3, <2>4 DEF Injective, ToSet
    <2>7. ASSUME NEW m \in ToSet(s) \ {n} PROVE m \in ToSet(r)
      <3>1. PICK k \in 1 .. Len(s) : s[k] = m
        BY <2>4 DEF ToSet
      <3>2. k # i
        BY <2>1, <3>1, <2>7
      <3>3. CASE k < i
        BY <3>1, <3>3, <2>1, <2>3, <2>4 DEF ToSet
      <3>4. CASE k > i
        <4>1. k - 1 \in DOMAIN r /\ r[k - 1] = s[k]
          BY <3>1, <3>4, <2>1, <2>3, <2>4
        <4> QED BY <4>1, <3>1 DEF ToSet
      <3> QED BY <3>2, <3>3, <3>4, <2>1
    <2>8. ToSet(r) \subseteq ToSet(s) \ {n}
      BY <2>6 DEF ToSet
    <2> QED BY <2>2, <2>3, <2>5, <2>7, <2>8
  <1> QED BY <1>1, <1>2

\* A new element goes on top.
LEMMA PushIs ==
    ASSUME NEW S, NEW s \in Seq(S), Injective(s), NEW n \in S, n \notin ToSet(s)
    PROVE  /\ <<n>> \o s \in Seq(S)
           /\ ToSet(<<n>> \o s) = ToSet(s) \cup {n}
           /\ Injective(<<n>> \o s)
  <1> DEFINE r == <<n>> \o s
  <1>1. /\ r \in Seq(S) /\ Len(r) = Len(s) + 1 /\ r[1] = n
        /\ \A k \in 1 .. Len(s) : r[k + 1] = s[k]
    OBVIOUS
  <1> HIDE DEF r
  <1>2. DOMAIN r = 1 .. Len(s) + 1 /\ DOMAIN s = 1 .. Len(s) /\ Len(s) \in Nat
    BY <1>1
  <1>3. \A k \in 2 .. Len(s) + 1 : r[k] = s[k - 1] /\ k - 1 \in DOMAIN s
    <2>1. ASSUME NEW k \in 2 .. Len(s) + 1 PROVE r[k] = s[k - 1] /\ k - 1 \in DOMAIN s
      <3>1. k - 1 \in 1 .. Len(s) /\ (k - 1) + 1 = k
        BY <1>2
      <3> QED BY <3>1, <1>1, <1>2
    <2> QED BY <2>1
  <1>4. \A k \in DOMAIN r : k = 1 \/ k \in 2 .. Len(s) + 1
    BY <1>2
  <1>5. Injective(r)
    <2>1. ASSUME NEW i \in DOMAIN r, NEW j \in DOMAIN r, r[i] = r[j] PROVE i = j
      <3>1. CASE i = 1 /\ j # 1
        BY <3>1, <2>1, <1>1, <1>3, <1>4 DEF ToSet
      <3>2. CASE i # 1 /\ j = 1
        BY <3>2, <2>1, <1>1, <1>3, <1>4 DEF ToSet
      <3>3. CASE i # 1 /\ j # 1
        <4>1. s[i - 1] = s[j - 1] /\ i - 1 \in DOMAIN s /\ j - 1 \in DOMAIN s
          BY <3>3, <2>1, <1>3, <1>4
        <4>2. i - 1 = j - 1
          BY <4>1 DEF Injective
        <4> QED BY <4>2, <1>2
      <3> QED BY <3>1, <3>2, <3>3
    <2> QED BY <2>1 DEF Injective
  <1>6. ToSet(r) \subseteq ToSet(s) \cup {n}
    BY <1>1, <1>3, <1>4 DEF ToSet
  <1>7. ASSUME NEW m \in ToSet(s) PROVE m \in ToSet(r)
    <2>1. PICK k \in 1 .. Len(s) : s[k] = m
      BY <1>2 DEF ToSet
    <2>2. k + 1 \in DOMAIN r /\ r[k + 1] = m
      BY <2>1, <1>1, <1>2
    <2> QED BY <2>2 DEF ToSet
  <1>8. n \in ToSet(r)
    BY <1>1, <1>2 DEF ToSet
  <1> QED BY <1>1, <1>5, <1>6, <1>7, <1>8 DEF r

-----------------------------------------------------------------------------
(* Nodes in address order                                                  *)

Spans == [Nodes -> [start : Nat, size : Nat, color : Nat]]
EndOf(nd, n) == IF n = HeadNode THEN 0 ELSE nd[n].start + nd[n].size

\* l is in address order.
Sorted(nd, l) == \A i, j \in DOMAIN l : i < j => EndOf(nd, l[i]) <= nd[l[j]].start

\* The nodes of N are not empty and lie in the managed space.
Solid(nd, N) == \A n \in N : nd[n].size > 0 /\ EndOf(nd, n) <= End

\* p is the last of N before n.
Follows(nd, N, p, n) ==
    /\ p \in N \cup {HeadNode} /\ EndOf(nd, p) <= nd[n].start
    /\ \A m \in N : EndOf(nd, m) <= EndOf(nd, p) \/ EndOf(nd, n) <= nd[m].start

\* The fields of a node are numbers, and its end is the sum of start and size.
LEMMA SpanTypes ==
    ASSUME NEW nd \in Spans, NEW n \in Nodes, HeadNode \notin Nodes
    PROVE  nd[n].start \in Nat /\ nd[n].size \in Nat /\ EndOf(nd, n) = nd[n].start + nd[n].size
  BY DEF Spans, EndOf

\* The head of the list ends at 0: the first hole begins there.
LEMMA HeadEnds == ASSUME NEW nd PROVE EndOf(nd, HeadNode) = 0
  BY DEF EndOf

\* The end of a node, or of the head, is a number.
LEMMA EndIsNat ==
    ASSUME HeadNode \notin Nodes, NEW nd \in Spans, NEW n \in Nodes \cup {HeadNode}
    PROVE  EndOf(nd, n) \in Nat
  <1>1. CASE n = HeadNode
    BY <1>1, HeadEnds
  <1>2. CASE n \in Nodes
    BY <1>2, SpanTypes
  <1> QED BY <1>1, <1>2

\* A list in address order names no node twice.
LEMMA SortedInjective ==
    ASSUME HeadNode \notin Nodes, NEW nd \in Spans, NEW l \in Seq(Nodes), Sorted(nd, l),
           Solid(nd, ToSet(l))
    PROVE  Injective(l)
  <1>1. ASSUME NEW i \in DOMAIN l, NEW j \in DOMAIN l, l[i] = l[j], i < j PROVE FALSE
    <2>1. l[i] \in Nodes /\ l[i] \in ToSet(l)
      BY DEF ToSet
    <2>2. nd[l[i]].size > 0 /\ EndOf(nd, l[i]) <= nd[l[i]].start
      BY <1>1, <2>1 DEF Sorted, Solid
    <2> QED BY <2>1, <2>2, SpanTypes
  <1>2. \A i, j \in DOMAIN l : i < j \/ j < i \/ i = j
    BY LenProperties
  <1> QED BY <1>1, <1>2 DEF Injective

\* Taking a node out keeps the order.
LEMMA SortedWithout ==
    ASSUME HeadNode \notin Nodes, NEW nd \in Spans, NEW l \in Seq(Nodes), Sorted(nd, l),
           NEW n \in ToSet(l)
    PROVE  Sorted(nd, Without(l, n))
  <1> DEFINE i == Position(l, n)
             r == RemoveAt(l, i)
  <1>1. i \in 1 .. Len(l)
    BY PositionIs
  <1>2. Without(l, n) = r
    BY DEF Without
  <1> HIDE DEF i
  <1>3. /\ Len(l) \in Nat /\ Len(r) = Len(l) - 1 /\ r \in Seq(Nodes)
        /\ \A k \in 1 .. Len(l) - 1 : r[k] = IF k < i THEN l[k] ELSE l[k + 1]
    BY <1>1, RemoveAtIs
  <1> HIDE DEF r
  <1>4. DOMAIN r = 1 .. Len(l) - 1 /\ DOMAIN l = 1 .. Len(l)
    BY <1>3
  <1>5. ASSUME NEW a \in DOMAIN r, NEW b \in DOMAIN r, a < b
        PROVE  EndOf(nd, r[a]) <= nd[r[b]].start
    <2> DEFINE a1 == IF a < i THEN a ELSE a + 1
               b1 == IF b < i THEN b ELSE b + 1
    <2>1. r[a] = l[a1] /\ r[b] = l[b1]
      BY <1>3, <1>4
    <2>2. a1 \in DOMAIN l /\ b1 \in DOMAIN l /\ a1 < b1
      BY <1>1, <1>4, <1>5
    <2> HIDE DEF a1, b1
    <2> QED BY <2>1, <2>2 DEF Sorted
  <1> QED BY <1>2, <1>5 DEF Sorted

\* Where a node of the list is; the head is before the first.
LEMMA IndexIs ==
    ASSUME HeadNode \notin Nodes, NEW l \in Seq(Nodes), NEW p \in ToSet(l) \cup {HeadNode}
    PROVE  /\ IndexIn(l, p) \in 0 .. Len(l) /\ Len(l) \in Nat
           /\ p # HeadNode => IndexIn(l, p) # 0 /\ l[IndexIn(l, p)] = p
           /\ p = HeadNode => IndexIn(l, p) = 0
  <1>1. Len(l) \in Nat
    OBVIOUS
  <1>2. CASE p = HeadNode
    BY <1>1, <1>2 DEF IndexIn
  <1>3. CASE p # HeadNode
    BY <1>1, <1>3, PositionIs DEF IndexIn
  <1> QED BY <1>2, <1>3

\* Putting a node in after the last one before it keeps the order.
LEMMA SortedAfter ==
    ASSUME HeadNode \notin Nodes, NEW nd \in Spans, NEW l \in Seq(Nodes), Sorted(nd, l),
           Solid(nd, ToSet(l)), NEW n \in Nodes, NEW p, Follows(nd, ToSet(l), p, n)
    PROVE  /\ After(l, p, n) \in Seq(Nodes) /\ ToSet(After(l, p, n)) = ToSet(l) \cup {n}
           /\ Sorted(nd, After(l, p, n))
  <1> DEFINE i == IndexIn(l, p) + 1
             r == InsertAt(l, i, n)
  <1>0. p \in ToSet(l) \cup {HeadNode}
    BY DEF Follows
  <1>1. i \in 1 .. Len(l) + 1 /\ Len(l) \in Nat /\ (i > 1 => l[i - 1] = p /\ p # HeadNode)
        /\ (i = 1 => p = HeadNode)
    BY <1>0, IndexIs
  <1>2. After(l, p, n) = r
    BY DEF After
  <1> HIDE DEF i
  <1>3. /\ r \in Seq(Nodes) /\ Len(r) = Len(l) + 1
        /\ \A k \in 1 .. Len(l) + 1 :
              r[k] = IF k < i THEN l[k] ELSE IF k = i THEN n ELSE l[k - 1]
    BY <1>1, InsertAtIs
  <1> HIDE DEF r
  <1>4. DOMAIN r = 1 .. Len(l) + 1 /\ DOMAIN l = 1 .. Len(l)
    BY <1>3
  <1>5. \A k \in DOMAIN l : l[k] \in Nodes /\ l[k] \in ToSet(l)
    BY DEF ToSet
  <1>6. ASSUME NEW k \in DOMAIN l, k < i PROVE EndOf(nd, l[k]) <= nd[n].start
    <2>1. p \in Nodes /\ EndOf(nd, p) <= nd[n].start /\ i - 1 \in DOMAIN l /\ l[i - 1] = p
      BY <1>1, <1>4, <1>5, <1>6 DEF Follows
    <2>2. CASE k = i - 1
      BY <2>1, <2>2
    <2>3. CASE k < i - 1
      <3>1. EndOf(nd, l[k]) <= nd[p].start
        BY <2>1, <2>3 DEF Sorted
      <3>2. /\ nd[p].start \in Nat /\ nd[p].size \in Nat /\ EndOf(nd, p) = nd[p].start + nd[p].size
            /\ nd[n].start \in Nat /\ EndOf(nd, l[k]) \in Nat
        BY <2>1, <1>5, SpanTypes, EndIsNat
      <3> QED BY <2>1, <3>1, <3>2
    <2> QED BY <2>2, <2>3, <1>1, <1>4, <1>6
  <1>7. ASSUME NEW k \in DOMAIN l, k >= i PROVE EndOf(nd, n) <= nd[l[k]].start
    <2>1. EndOf(nd, p) <= nd[l[k]].start
      <3>1. CASE i = 1
        BY <3>1, <1>1, <1>5, HeadEnds, SpanTypes
      <3>2. CASE i > 1
        <4>1. i - 1 \in DOMAIN l /\ l[i - 1] = p /\ i - 1 < k
          BY <3>2, <1>1, <1>4, <1>7
        <4> QED BY <4>1 DEF Sorted
      <3> QED BY <3>1, <3>2, <1>1
    <2>2. nd[l[k]].size > 0 /\ EndOf(nd, l[k]) = nd[l[k]].start + nd[l[k]].size
          /\ nd[l[k]].size \in Nat /\ nd[l[k]].start \in Nat /\ EndOf(nd, p) \in Nat
      <3>1. p \in Nodes \cup {HeadNode}
        BY <1>0, <1>5 DEF ToSet
      <3>2. EndOf(nd, p) \in Nat
        BY <3>1, EndIsNat
      <3> QED BY <1>5, <3>2, SpanTypes DEF Solid
    <2>3. EndOf(nd, l[k]) <= EndOf(nd, p) \/ EndOf(nd, n) <= nd[l[k]].start
      BY <1>5 DEF Follows
    <2>4. ~(EndOf(nd, l[k]) <= EndOf(nd, p))
      BY <2>1, <2>2
    <2> QED BY <2>3, <2>4
  <1>8. ASSUME NEW a \in DOMAIN r, NEW b \in DOMAIN r, a < b
        PROVE  EndOf(nd, r[a]) <= nd[r[b]].start
    <2>1. CASE b < i
      <3>1. r[a] = l[a] /\ r[b] = l[b] /\ a \in DOMAIN l /\ b \in DOMAIN l
        BY <2>1, <1>1, <1>3, <1>4, <1>8
      <3> QED BY <3>1, <1>8 DEF Sorted
    <2>2. CASE b = i
      <3>1. r[a] = l[a] /\ r[b] = n /\ a \in DOMAIN l /\ a < i
        BY <2>2, <1>1, <1>3, <1>4, <1>8
      <3> QED BY <3>1, <1>6
    <2>3. CASE b > i /\ a = i
      <3>1. r[a] = n /\ r[b] = l[b - 1] /\ b - 1 \in DOMAIN l /\ b - 1 >= i
        BY <2>3, <1>1, <1>3, <1>4, <1>8
      <3> QED BY <3>1, <1>7
    <2>4. CASE b > i /\ a < i
      <3>1. r[a] = l[a] /\ r[b] = l[b - 1] /\ a \in DOMAIN l /\ b - 1 \in DOMAIN l /\ a < b - 1
        BY <2>4, <1>1, <1>3, <1>4, <1>8
      <3> QED BY <3>1 DEF Sorted
    <2>5. CASE a > i
      <3>1. r[a] = l[a - 1] /\ r[b] = l[b - 1] /\ a - 1 \in DOMAIN l /\ b - 1 \in DOMAIN l
            /\ a - 1 < b - 1
        BY <2>5, <1>1, <1>3, <1>4, <1>8
      <3> QED BY <3>1 DEF Sorted
    <2> QED BY <2>1, <2>2, <2>3, <2>4, <2>5, <1>1, <1>4, <1>8
  <1>9. ToSet(r) = ToSet(l) \cup {n}
    <2>1. ASSUME NEW k \in DOMAIN r PROVE r[k] \in ToSet(l) \cup {n}
      <3>1. CASE k < i
        BY <3>1, <1>1, <1>3, <1>4, <1>5
      <3>2. CASE k = i
        BY <3>2, <1>1, <1>3, <1>4
      <3>3. CASE k > i
        <4>1. r[k] = l[k - 1] /\ k - 1 \in DOMAIN l
          BY <3>3, <1>1, <1>3, <1>4
        <4> QED BY <4>1, <1>5
      <3> QED BY <3>1, <3>2, <3>3, <1>1, <1>4
    <2>2. ASSUME NEW k \in DOMAIN l PROVE l[k] \in ToSet(r)
      <3>1. CASE k < i
        <4>1. r[k] = l[k] /\ k \in DOMAIN r
          BY <3>1, <1>1, <1>3, <1>4
        <4> QED BY <4>1 DEF ToSet
      <3>2. CASE k >= i
        <4>1. r[k + 1] = l[k] /\ k + 1 \in DOMAIN r
          BY <3>2, <1>1, <1>3, <1>4
        <4> QED BY <4>1 DEF ToSet
      <3> QED BY <3>1, <3>2, <1>1, <1>4
    <2>3. n \in ToSet(r)
      <3>1. i \in DOMAIN r /\ r[i] = n
        BY <1>1, <1>3, <1>4
      <3> QED BY <3>1 DEF ToSet
    <2> QED BY <2>1, <2>2, <2>3 DEF ToSet
  <1> QED BY <1>2, <1>3, <1>8, <1>9 DEF Sorted

\* Two nodes of a list in address order do not overlap.
LEMMA SortedApart ==
    ASSUME NEW nd, NEW l \in Seq(Nodes), Sorted(nd, l), NEW m \in ToSet(l), NEW n \in ToSet(l), m # n
    PROVE  EndOf(nd, m) <= nd[n].start \/ EndOf(nd, n) <= nd[m].start
  <1>1. PICK i \in DOMAIN l : l[i] = m
    BY DEF ToSet
  <1>2. PICK j \in DOMAIN l : l[j] = n
    BY DEF ToSet
  <1>3. i < j \/ j < i
    BY <1>1, <1>2, LenProperties
  <1> QED BY <1>1, <1>2, <1>3 DEF Sorted

\* What lies between a node and the next one of the list
LEMMA HoleIs ==
    ASSUME MmAssumption, node \in Spans, NEW l \in Seq(Nodes), Sorted(node, l),
           Solid(node, ToSet(l)), NEW h \in ToSet(l) \cup {HeadNode}
    PROVE  /\ NextIn(l, h) \in ToSet(l) \cup {HeadNode}
           /\ NextIn(l, h) = HeadNode => HoleEnd(l, h) = End
           /\ NextIn(l, h) # HeadNode => HoleEnd(l, h) = node[NextIn(l, h)].start
           /\ HoleEnd(l, h) \in Nat /\ HoleEnd(l, h) <= End /\ EndOf(node, h) <= HoleEnd(l, h)
           /\ \A m \in ToSet(l) :
                 EndOf(node, m) <= EndOf(node, h) \/ HoleEnd(l, h) <= node[m].start
  <1> DEFINE i == IndexIn(l, h)
  <1>0. HeadNode \notin Nodes /\ End \in Nat
    BY DEF MmAssumption
  <1>1. /\ i \in 0 .. Len(l) /\ Len(l) \in Nat /\ DOMAIN l = 1 .. Len(l)
        /\ (h # HeadNode => i # 0 /\ l[i] = h) /\ (h = HeadNode => i = 0)
    BY <1>0, IndexIs, LenProperties
  <1>2. NextIn(l, h) = IF i = Len(l) THEN HeadNode ELSE l[i + 1]
    BY DEF NextIn
  <1> HIDE DEF i
  <1>3. \A k \in DOMAIN l : l[k] \in Nodes /\ l[k] \in ToSet(l) /\ l[k] # HeadNode
    BY <1>0 DEF ToSet
  <1>4. ASSUME NEW k \in DOMAIN l, k <= i PROVE EndOf(node, l[k]) <= EndOf(node, h)
    <2>1. h # HeadNode /\ l[i] = h /\ i \in DOMAIN l /\ h \in Nodes
      BY <1>1, <1>3, <1>4
    <2>2. CASE k = i
      <3>1. EndOf(node, h) \in Nat
        BY <2>1, <1>0, EndIsNat
      <3> QED BY <2>1, <2>2, <3>1
    <2>3. CASE k < i
      <3>1. EndOf(node, l[k]) <= node[h].start
        BY <2>1, <2>3 DEF Sorted
      <3>2. /\ node[h].start \in Nat /\ node[h].size \in Nat
            /\ EndOf(node, h) = node[h].start + node[h].size /\ EndOf(node, l[k]) \in Nat
        BY <1>0, <1>3, <2>1, SpanTypes, EndIsNat
      <3> QED BY <3>1, <3>2
    <2> QED BY <2>2, <2>3, <1>1, <1>4
  <1>5. CASE i = Len(l)
    <2>1. NextIn(l, h) = HeadNode /\ HoleEnd(l, h) = End
      BY <1>2, <1>5 DEF HoleEnd
    <2>2. EndOf(node, h) <= End
      <3>1. CASE h = HeadNode
        BY <3>1, <1>0, HeadEnds
      <3>2. CASE h # HeadNode
        BY <3>2 DEF Solid
      <3> QED BY <3>1, <3>2
    <2>3. \A m \in ToSet(l) : EndOf(node, m) <= EndOf(node, h)
      <3>1. \A k \in DOMAIN l : k <= i
        BY <1>1, <1>5
      <3> QED BY <1>4, <3>1 DEF ToSet
    <2> QED BY <1>0, <2>1, <2>2, <2>3
  <1>6. CASE i # Len(l)
    <2> DEFINE x == l[i + 1]
    <2>1. i + 1 \in DOMAIN l /\ NextIn(l, h) = x
      <3>1. i + 1 \in DOMAIN l
        <4>1. i \in 0 .. Len(l) /\ Len(l) \in Nat /\ i # Len(l)
          BY <1>1, <1>6
        <4>2. i + 1 \in 1 .. Len(l)
          BY <4>1
        <4> QED BY <4>2, <1>1
      <3>2. NextIn(l, h) = x
        BY <1>2, <1>6, Zenon
      <3> QED BY <3>1, <3>2
    <2>2. x \in Nodes /\ x \in ToSet(l) /\ x # HeadNode
      BY <2>1, <1>3
    <2>3. HoleEnd(l, h) = node[x].start
      BY <2>1, <2>2 DEF HoleEnd
    <2>4. EndOf(node, h) <= node[x].start
      <3>1. CASE h = HeadNode
        BY <3>1, <1>0, <2>2, HeadEnds, SpanTypes
      <3>2. CASE h # HeadNode
        <4>1. i \in DOMAIN l /\ l[i] = h /\ i < i + 1
          BY <3>2, <1>1
        <4> QED BY <4>1, <2>1 DEF Sorted
      <3> QED BY <3>1, <3>2
    <2>5. /\ node[x].start \in Nat /\ node[x].size \in Nat
          /\ EndOf(node, x) = node[x].start + node[x].size /\ EndOf(node, x) <= End
      BY <1>0, <2>2, SpanTypes DEF Solid
    <2>6. ASSUME NEW k \in DOMAIN l, k > i PROVE node[x].start <= node[l[k]].start
      <3>1. CASE k = i + 1
        BY <3>1, <2>5
      <3>2. CASE k > i + 1
        <4>1. EndOf(node, x) <= node[l[k]].start
          BY <3>2, <2>1 DEF Sorted
        <4>2. node[l[k]].start \in Nat
          BY <1>0, <1>3, SpanTypes
        <4> QED BY <4>1, <4>2, <2>5
      <3> QED BY <3>1, <3>2, <1>1, <2>6
    <2>7. \A m \in ToSet(l) : EndOf(node, m) <= EndOf(node, h) \/ node[x].start <= node[m].start
      <3>1. \A k \in DOMAIN l : k <= i \/ k > i
        BY <1>1
      <3> QED BY <3>1, <1>4, <2>6 DEF ToSet
    <2>8. node[x].start <= End
      BY <1>0, <2>5
    <2> HIDE DEF x
    <2> QED BY <2>1, <2>2, <2>3, <2>4, <2>5, <2>7, <2>8
  <1> QED BY <1>5, <1>6

\* The node before one of the list is the last of the others before it.
LEMMA PrevIs ==
    ASSUME HeadNode \notin Nodes, NEW nd \in Spans, NEW l \in Seq(Nodes), Sorted(nd, l),
           Solid(nd, ToSet(l)), NEW n \in ToSet(l)
    PROVE  Follows(nd, ToSet(l) \ {n}, PrevIn(l, n), n)
  <1> DEFINE i == IndexIn(l, n)
             p == PrevIn(l, n)
  <1>1. \A k \in DOMAIN l : l[k] \in Nodes /\ l[k] \in ToSet(l) /\ l[k] # HeadNode
    BY DEF ToSet
  <1>2. /\ i \in DOMAIN l /\ DOMAIN l = 1 .. Len(l) /\ Len(l) \in Nat /\ l[i] = n
        /\ n \in Nodes /\ n # HeadNode
    <2>1. n \in Nodes /\ n # HeadNode
      BY <1>1 DEF ToSet
    <2> QED BY <2>1, IndexIs, LenProperties
  <1>3. p = IF i = 1 THEN HeadNode ELSE l[i - 1]
    BY DEF PrevIn
  <1> HIDE DEF i, p
  <1>4. nd[n].start \in Nat
    BY <1>2, SpanTypes
  <1>5. ASSUME NEW k \in DOMAIN l, k > i PROVE EndOf(nd, n) <= nd[l[k]].start
    BY <1>2, <1>5 DEF Sorted
  <1>6. CASE i = 1
    <2>1. p = HeadNode /\ EndOf(nd, p) = 0
      BY <1>3, <1>6, HeadEnds
    <2>2. \A k \in DOMAIN l : l[k] # n => k > i
      BY <1>2, <1>6
    <2>3. \A m \in ToSet(l) \ {n} : EndOf(nd, n) <= nd[m].start
      BY <2>2, <1>5 DEF ToSet
    <2> QED BY <1>4, <2>1, <2>3 DEF Follows, p
  <1>7. CASE i # 1
    <2>1. i - 1 \in DOMAIN l /\ p = l[i - 1] /\ i - 1 < i
      BY <1>2, <1>3, <1>7
    <2>2. p \in Nodes /\ p \in ToSet(l)
      BY <2>1, <1>1
    <2>3. EndOf(nd, p) <= nd[n].start
      BY <1>2, <2>1 DEF Sorted
    <2>4. p # n
      <3>1. Injective(l)
        BY SortedInjective
      <3> QED BY <3>1, <1>2, <2>1 DEF Injective
    <2>5. ASSUME NEW k \in DOMAIN l, k < i PROVE EndOf(nd, l[k]) <= EndOf(nd, p)
      <3>1. /\ nd[p].start \in Nat /\ nd[p].size \in Nat
            /\ EndOf(nd, p) = nd[p].start + nd[p].size /\ EndOf(nd, l[k]) \in Nat
        BY <1>1, <2>2, SpanTypes, EndIsNat
      <3>2. CASE k = i - 1
        BY <3>1, <3>2, <2>1
      <3>3. CASE k < i - 1
        <4>1. EndOf(nd, l[k]) <= nd[p].start
          BY <2>1, <3>3 DEF Sorted
        <4> QED BY <3>1, <4>1
      <3> QED BY <3>2, <3>3, <2>5, <1>2
    <2>6. \A k \in DOMAIN l : l[k] # n => k < i \/ k > i
      BY <1>2
    <2>7. \A m \in ToSet(l) \ {n} : EndOf(nd, m) <= EndOf(nd, p) \/ EndOf(nd, n) <= nd[m].start
      BY <2>6, <2>5, <1>5 DEF ToSet
    <2> QED BY <2>2, <2>3, <2>4, <2>7 DEF Follows, p
  <1> QED BY <1>6, <1>7

-----------------------------------------------------------------------------
(* Ranges and the free space after them, for any set of nodes              *)

Apart(nd, A) == \A m, n \in A :
    m = n \/ EndOf(nd, m) <= nd[n].start \/ EndOf(nd, n) <= nd[m].start
\* Nodes that touch have the same colour.
Tinted(nd, A) == \A m, n \in A : EndOf(nd, m) = nd[n].start => nd[m].color = nd[n].color
Free(nd, A, n) == EndOf(nd, n) < End /\ \A m \in A : nd[m].start # EndOf(nd, n)
FreeOf(nd, A) == {n \in A \cup {HeadNode} : Free(nd, A, n)}

\* Only the ranges of the nodes of A matter.
LEMMA SameRanges ==
    ASSUME NEW nd, NEW ne, NEW A, HeadNode \notin A, \A m \in A : ne[m] = nd[m]
    PROVE  /\ \A m \in A \cup {HeadNode} : EndOf(ne, m) = EndOf(nd, m)
           /\ Solid(nd, A) => Solid(ne, A)
           /\ Apart(nd, A) => Apart(ne, A)
           /\ Tinted(nd, A) => Tinted(ne, A)
           /\ FreeOf(ne, A) = FreeOf(nd, A)
  <1>1. \A m \in A \cup {HeadNode} : EndOf(ne, m) = EndOf(nd, m)
    BY DEF EndOf
  <1> QED BY <1>1 DEF Solid, Apart, Tinted, FreeOf, Free

\* What is true of the ranges stays true of fewer of them.
LEMMA FewerRanges ==
    ASSUME NEW nd, NEW A, NEW B \in SUBSET A
    PROVE  /\ Solid(nd, A) => Solid(nd, B)
           /\ Apart(nd, A) => Apart(nd, B)
           /\ Tinted(nd, A) => Tinted(nd, B)
  BY DEF Solid, Apart, Tinted

\* n goes into the hole after h, which ends at e.
InHole(nd, ne, A, h, n, e) ==
    /\ h \in A \cup {HeadNode} /\ n \in Nodes \ A
    /\ \A m \in A : ne[m] = nd[m]
    /\ e \in Nat /\ e <= End /\ (e = End \/ \E m \in A : nd[m].start = e)
    /\ \A m \in A : EndOf(nd, m) <= EndOf(nd, h) \/ e <= nd[m].start
    /\ EndOf(nd, h) <= ne[n].start /\ ne[n].size > 0 /\ EndOf(ne, n) <= e

\* Nobody but h ends where n begins.
LEMMA OnlyBefore ==
    ASSUME MmAssumption, NEW nd \in Spans, NEW ne \in Spans, NEW A \in SUBSET Nodes, NEW h, NEW n, NEW e,
           Solid(nd, A), Apart(nd, A), InHole(nd, ne, A, h, n, e)
    PROVE  \A m \in A \cup {HeadNode} : EndOf(nd, m) = ne[n].start => m = h
  <1>0. HeadNode \notin Nodes /\ n \in Nodes
    BY DEF MmAssumption, InHole
  <1>2. \A m \in A : nd[m].start \in Nat /\ nd[m].size \in Nat /\ nd[m].size > 0
                     /\ EndOf(nd, m) = nd[m].start + nd[m].size
    BY <1>0, SpanTypes DEF Solid
  <1>3. /\ ne[n].start \in Nat /\ ne[n].size \in Nat /\ ne[n].size > 0
        /\ EndOf(ne, n) = ne[n].start + ne[n].size
    BY <1>0, SpanTypes DEF InHole
  <1>4. e \in Nat /\ h \in A \cup {HeadNode} /\ EndOf(nd, h) <= ne[n].start /\ EndOf(ne, n) <= e
    BY DEF InHole
  <1>5. \A m \in A : EndOf(nd, m) <= EndOf(nd, h) \/ e <= nd[m].start
    BY DEF InHole
  <1>10. ASSUME NEW m \in A \cup {HeadNode}, m # h PROVE EndOf(nd, m) # ne[n].start
    <2>1. CASE m = HeadNode
      <3>1. h \in A /\ EndOf(nd, HeadNode) = 0
        BY <2>1, <1>4, <1>10, HeadEnds
      <3> QED BY <2>1, <3>1, <1>2, <1>3, <1>4
    <2>2. CASE m # HeadNode /\ EndOf(nd, m) <= EndOf(nd, h)
      <3>1. m \in A
        BY <2>2
      <3>2. h \in A
        <4>1. CASE h = HeadNode
          BY <4>1, <3>1, <2>2, <1>2, HeadEnds
        <4> QED BY <4>1, <1>4
      <3>3. EndOf(nd, m) <= nd[h].start \/ EndOf(nd, h) <= nd[m].start
        BY <3>1, <3>2, <1>10 DEF Apart
      <3> QED BY <3>1, <3>2, <3>3, <2>2, <1>2, <1>3, <1>4
    <2>3. CASE m # HeadNode /\ e <= nd[m].start
      <3>1. m \in A
        BY <2>3
      <3> QED BY <3>1, <2>3, <1>2, <1>3, <1>4
    <2> QED BY <2>1, <2>2, <2>3, <1>5
  <1> QED BY <1>10

\* What comes of it: the ranges are apart, and the hole is filled or made smaller.
Placed(nd, ne, A, h, n, e) ==
    /\ Solid(ne, A \cup {n}) /\ Apart(ne, A \cup {n}) /\ Follows(ne, A, h, n)
    /\ FreeOf(ne, A \cup {n}) =
          (IF ne[n].start = EndOf(nd, h) THEN FreeOf(nd, A) \ {h} ELSE FreeOf(nd, A))
          \cup (IF EndOf(ne, n) < e THEN {n} ELSE {})

\* A node placed in a hole fills the front of it, or not, and leaves what is after it.
LEMMA PlacedInHole ==
    ASSUME MmAssumption, NEW nd \in Spans, NEW ne \in Spans, NEW A \in SUBSET Nodes, NEW h, NEW n, NEW e,
           Solid(nd, A), Apart(nd, A), InHole(nd, ne, A, h, n, e)
    PROVE  Placed(nd, ne, A, h, n, e)
  <1>0. HeadNode \notin Nodes /\ End \in Nat /\ HeadNode \notin A /\ n \in Nodes /\ n \notin A
        /\ n # HeadNode
    BY DEF MmAssumption, InHole
  <1>1. \A m \in A \cup {HeadNode} : EndOf(ne, m) = EndOf(nd, m) /\ EndOf(nd, m) \in Nat
    <2>1. \A m \in A : ne[m] = nd[m]
      BY DEF InHole
    <2>2. \A m \in A \cup {HeadNode} : EndOf(ne, m) = EndOf(nd, m)
      BY <1>0, <2>1, SameRanges
    <2>3. \A m \in A \cup {HeadNode} : EndOf(nd, m) \in Nat
      BY <1>0, EndIsNat
    <2> QED BY <2>2, <2>3
  <1>2. \A m \in A : ne[m] = nd[m] /\ nd[m].start \in Nat /\ nd[m].size \in Nat /\ nd[m].size > 0
                     /\ EndOf(nd, m) = nd[m].start + nd[m].size /\ EndOf(nd, m) <= End
    BY <1>0, SpanTypes DEF InHole, Solid
  <1>3. /\ ne[n].start \in Nat /\ ne[n].size \in Nat /\ ne[n].size > 0
        /\ EndOf(ne, n) = ne[n].start + ne[n].size
    BY <1>0, SpanTypes DEF InHole
  <1>4. e \in Nat /\ e <= End /\ h \in A \cup {HeadNode} /\ EndOf(nd, h) <= ne[n].start
        /\ EndOf(ne, n) <= e
    BY DEF InHole
  <1>5. \A m \in A : EndOf(nd, m) <= EndOf(nd, h) \/ e <= nd[m].start
    BY DEF InHole
  <1>6. Solid(ne, A \cup {n})
    BY <1>0, <1>1, <1>2, <1>3, <1>4 DEF Solid
  <1>7. \A m \in A : EndOf(nd, m) <= ne[n].start \/ EndOf(ne, n) <= nd[m].start
    BY <1>1, <1>2, <1>3, <1>4, <1>5
  <1>8. Apart(ne, A \cup {n})
    <2>1. \A a, b \in A : a = b \/ EndOf(ne, a) <= ne[b].start \/ EndOf(ne, b) <= ne[a].start
      BY <1>1, <1>2 DEF Apart
    <2>2. \A a \in A : EndOf(ne, a) <= ne[n].start \/ EndOf(ne, n) <= ne[a].start
      BY <1>1, <1>2, <1>7
    <2> QED BY <2>1, <2>2 DEF Apart
  <1>9. Follows(ne, A, h, n)
    <2>1. \A m \in A : EndOf(ne, m) <= EndOf(ne, h) \/ EndOf(ne, n) <= ne[m].start
      BY <1>1, <1>2, <1>3, <1>4, <1>5
    <2> QED BY <2>1, <1>1, <1>4 DEF Follows
  <1>10. \A m \in A \cup {HeadNode} : EndOf(nd, m) = ne[n].start => m = h
    BY OnlyBefore
  <1>11. ASSUME NEW m \in A \cup {HeadNode}
         PROVE  Free(ne, A \cup {n}, m) <=> Free(nd, A, m) /\ ~(m = h /\ ne[n].start = EndOf(nd, h))
    <2>1. EndOf(ne, m) = EndOf(nd, m)
      BY <1>1
    <2>2. (\A a \in A \cup {n} : ne[a].start # EndOf(ne, m)) <=>
          (\A a \in A : nd[a].start # EndOf(nd, m)) /\ ne[n].start # EndOf(nd, m)
      BY <2>1, <1>2
    <2>3. ne[n].start # EndOf(nd, m) <=> ~(m = h /\ ne[n].start = EndOf(nd, h))
      BY <1>10
    <2> QED BY <2>1, <2>2, <2>3 DEF Free
  <1>12. Free(ne, A \cup {n}, n) <=> EndOf(ne, n) < e
    <2>1. CASE EndOf(ne, n) = e
      <3>1. CASE e = End
        BY <2>1, <3>1, <1>0 DEF Free
      <3>2. CASE \E m \in A : nd[m].start = e
        <4>1. PICK m \in A : nd[m].start = e
          BY <3>2
        <4>2. ne[m].start = EndOf(ne, n)
          BY <4>1, <2>1, <1>2
        <4>3. ~Free(ne, A \cup {n}, n)
          BY <4>2 DEF Free
        <4> QED BY <4>3, <2>1, <1>4
      <3> QED BY <3>1, <3>2 DEF InHole
    <2>2. CASE EndOf(ne, n) < e
      <3>1. EndOf(ne, n) < End
        BY <2>2, <1>0, <1>3, <1>4
      <3>2. ASSUME NEW m \in A PROVE ne[m].start # EndOf(ne, n)
        <4>1. EndOf(nd, m) <= EndOf(nd, h) \/ e <= nd[m].start
          BY <1>5
        <4>2. ne[m].start = nd[m].start /\ EndOf(nd, h) \in Nat
          BY <1>1, <1>2, <1>4
        <4> QED BY <4>1, <4>2, <2>2, <1>2, <1>3, <1>4
      <3>3. ne[n].start # EndOf(ne, n)
        BY <1>3
      <3> QED BY <3>1, <3>2, <3>3, <2>2 DEF Free
    <2> QED BY <2>1, <2>2, <1>3, <1>4
  <1>13. FreeOf(ne, A \cup {n}) =
                 (IF ne[n].start = EndOf(nd, h) THEN FreeOf(nd, A) \ {h} ELSE FreeOf(nd, A))
                 \cup (IF EndOf(ne, n) < e THEN {n} ELSE {})
    <2>1. \A m : m \in FreeOf(ne, A \cup {n}) <=>
              \/ m \in A \cup {HeadNode} /\ Free(ne, A \cup {n}, m)
              \/ m = n /\ Free(ne, A \cup {n}, n)
      BY DEF FreeOf
    <2>2. \A m : m \in FreeOf(nd, A) <=> m \in A \cup {HeadNode} /\ Free(nd, A, m)
      BY DEF FreeOf
    <2>3. \A m : m \in FreeOf(ne, A \cup {n}) <=>
              \/ m \in FreeOf(nd, A) /\ ~(m = h /\ ne[n].start = EndOf(nd, h))
              \/ m = n /\ EndOf(ne, n) < e
      BY <2>1, <2>2, <1>11, <1>12
    <2> QED BY <2>3
  <1> QED BY <1>6, <1>8, <1>9, <1>13 DEF Placed

\* Colours keep apart when they do on both sides of the new node.
SameTint(nd, ne, A, h, n, e) ==
    /\ h \in A /\ EndOf(nd, h) = ne[n].start => nd[h].color = ne[n].color
    /\ \A m \in A : nd[m].start = e /\ EndOf(ne, n) = e => ne[n].color = nd[m].color

\* A placed node that keeps its distance touches none of another colour.
LEMMA TintedInHole ==
    ASSUME MmAssumption, NEW nd \in Spans, NEW ne \in Spans, NEW A \in SUBSET Nodes, NEW h, NEW n, NEW e,
           Solid(nd, A), Apart(nd, A), InHole(nd, ne, A, h, n, e), Tinted(nd, A),
           SameTint(nd, ne, A, h, n, e)
    PROVE  Tinted(ne, A \cup {n})
  <1>0. HeadNode \notin Nodes /\ n \in Nodes /\ n \notin A
    BY DEF MmAssumption, InHole
  <1>1. \A m \in A : ne[m] = nd[m] /\ EndOf(ne, m) = EndOf(nd, m)
    <2>1. \A m \in A : ne[m] = nd[m]
      BY DEF InHole
    <2> QED BY <1>0, <2>1, SameRanges
  <1>2. \A m \in A : nd[m].start \in Nat /\ nd[m].size \in Nat /\ nd[m].size > 0
                     /\ EndOf(nd, m) = nd[m].start + nd[m].size
    BY <1>0, SpanTypes DEF Solid
  <1>3. /\ ne[n].start \in Nat /\ ne[n].size \in Nat /\ ne[n].size > 0
        /\ EndOf(ne, n) = ne[n].start + ne[n].size /\ EndOf(ne, n) <= e /\ e \in Nat
        /\ EndOf(nd, h) <= ne[n].start
    BY <1>0, SpanTypes DEF InHole
  <1>4. EndOf(nd, h) \in Nat
    <2>1. h \in Nodes \cup {HeadNode}
      BY DEF InHole
    <2> QED BY <2>1, <1>0, EndIsNat
  <1>5. ASSUME NEW a \in A, NEW b \in A, EndOf(ne, a) = ne[b].start
        PROVE  ne[a].color = ne[b].color
    BY <1>1, <1>5 DEF Tinted
  <1>6. ASSUME NEW a \in A, EndOf(ne, a) = ne[n].start PROVE ne[a].color = ne[n].color
    <2>1. EndOf(nd, a) = ne[n].start
      BY <1>1, <1>6
    <2>2. a = h
      BY <2>1, OnlyBefore
    <2> QED BY <2>1, <2>2, <1>1 DEF SameTint
  <1>7. ASSUME NEW b \in A, EndOf(ne, n) = ne[b].start PROVE ne[n].color = ne[b].color
    <2>1. EndOf(nd, b) <= EndOf(nd, h) \/ e <= nd[b].start
      BY DEF InHole
    <2>2. nd[b].start = e /\ EndOf(ne, n) = e
      BY <2>1, <1>1, <1>2, <1>3, <1>4, <1>7
    <2> QED BY <2>2, <1>1 DEF SameTint
  <1>8. EndOf(ne, n) # ne[n].start
    BY <1>3
  <1> QED BY <1>5, <1>6, <1>7, <1>8 DEF Tinted

\* When n goes, the space before it and its own belong to the node before it.
LEMMA FreedBefore ==
    ASSUME MmAssumption, NEW nd \in Spans, NEW A \in SUBSET Nodes, NEW n \in A, NEW p,
           Solid(nd, A), Apart(nd, A), Follows(nd, A \ {n}, p, n)
    PROVE  FreeOf(nd, A \ {n}) = (FreeOf(nd, A) \ {n}) \cup {p}
  <1>0. HeadNode \notin Nodes /\ End \in Nat /\ HeadNode \notin A /\ p \in (A \ {n}) \cup {HeadNode}
        /\ n # HeadNode /\ p # n
    BY DEF MmAssumption, Follows
  <1>1. \A m \in A \cup {HeadNode} : EndOf(nd, m) \in Nat
    BY <1>0, EndIsNat
  <1>2. \A m \in A : nd[m].start \in Nat /\ nd[m].size \in Nat /\ nd[m].size > 0
                     /\ EndOf(nd, m) = nd[m].start + nd[m].size /\ EndOf(nd, m) <= End
    BY <1>0, SpanTypes DEF Solid
  <1>3. EndOf(nd, p) <= nd[n].start
    BY DEF Follows
  <1>4. \A m \in A \ {n} : EndOf(nd, m) <= EndOf(nd, p) \/ EndOf(nd, n) <= nd[m].start
    BY DEF Follows
  <1>5. Free(nd, A \ {n}, p)
    <2>1. EndOf(nd, p) < End
      BY <1>0, <1>1, <1>2, <1>3
    <2>2. ASSUME NEW m \in A \ {n} PROVE nd[m].start # EndOf(nd, p)
      BY <1>0, <1>1, <1>2, <1>3, <1>4
    <2> QED BY <2>1, <2>2 DEF Free
  <1>6. ASSUME NEW m \in (A \ {n}) \cup {HeadNode}, m # p
        PROVE  EndOf(nd, m) # nd[n].start
    <2>1. CASE m = HeadNode
      <3>1. p \in A /\ EndOf(nd, HeadNode) = 0
        BY <2>1, <1>0, <1>6, HeadEnds
      <3> QED BY <2>1, <3>1, <1>2, <1>3
    <2>2. CASE m # HeadNode /\ EndOf(nd, m) <= EndOf(nd, p)
      <3>1. m \in A
        BY <2>2
      <3>2. p \in A
        <4>1. CASE p = HeadNode
          BY <4>1, <3>1, <2>2, <1>2, HeadEnds
        <4> QED BY <4>1, <1>0
      <3>3. EndOf(nd, m) <= nd[p].start \/ EndOf(nd, p) <= nd[m].start
        BY <3>1, <3>2, <1>6 DEF Apart
      <3> QED BY <3>1, <3>2, <3>3, <2>2, <1>2, <1>3
    <2>3. CASE m # HeadNode /\ EndOf(nd, n) <= nd[m].start
      <3>1. m \in A
        BY <2>3
      <3> QED BY <3>1, <2>3, <1>2
    <2> QED BY <2>1, <2>2, <2>3, <1>4
  <1>7. ASSUME NEW m \in (A \ {n}) \cup {HeadNode}, m # p
        PROVE  Free(nd, A \ {n}, m) <=> Free(nd, A, m)
    BY <1>6, <1>7 DEF Free
  <1>8. \A m : m \in FreeOf(nd, A \ {n}) <=> (m \in FreeOf(nd, A) /\ m # n) \/ m = p
    BY <1>0, <1>5, <1>7 DEF FreeOf
  <1> QED BY <1>8

-----------------------------------------------------------------------------
(* The invariant                                                           *)

RecordType == [node : Nodes, prev : Nodes \cup {HeadNode}, precedes : BOOLEAN]
Owned    == ToSet(list) \cup OffList

MmTypes ==
    /\ colored \in BOOLEAN /\ list \in Seq(Nodes) /\ stack \in Seq(Nodes \cup {HeadNode})
    /\ node \in [Nodes -> [start : 0 .. End, size : 0 .. End, color : Nat]]
    /\ hole \subseteq Nodes \cup {HeadNode} /\ marked \subseteq Nodes
    /\ unused \in 0 .. Target
    /\ scanned \in Seq(RecordType) /\ ask \in Requests \cup {NoAsk}
    /\ hit \in [start : Nat, end : Nat]

\* Every node is owned once, and its range is its own; nodes that touch have
\* the same colour, when there are colours.
RangesOK ==
    /\ Solid(node, Owned) /\ Apart(node, Owned) /\ Sorted(node, list)
    /\ colored => Tinted(node, Owned)

\* Nodes are off the list once, and each follows, among those that are back
\* when it comes back, the one that its record names.  N: the nodes of the list
Off(a)      == {a[i].node : i \in DOMAIN a}
Later(a, k) == {a[i].node : i \in k .. Len(a)}
Scans(nd, N, a) ==
    /\ \A i, j \in DOMAIN a : a[i].node = a[j].node => i = j
    /\ \A i \in DOMAIN a : a[i].node \notin N
    /\ \A k \in DOMAIN a : Follows(nd, (N \cup Off(a)) \ Later(a, k), a[k].prev, a[k].node)

ScanOK == (ask = NoAsk => scanned = <<>>) /\ Scans(node, ToSet(list), scanned)

\* hole_follows as it will be when all nodes are back: what the first scan that
\* took a node after n remembers, or what it is (H)
WillBe(H, a, n) ==
    \/ n \in H /\ \A k \in DOMAIN a : a[k].prev # n
    \/ \E k \in DOMAIN a : /\ a[k].prev = n /\ a[k].precedes
                           /\ \A j \in DOMAIN a : j > k => a[j].prev # n

HolesOK ==
    /\ \A n \in Nodes \cup {HeadNode} : WillBe(hole, scanned, n) <=> n \in FreeOf(node, Owned)
    /\ ToSet(stack) = FreeOf(node, Owned) /\ Injective(stack)

MmInv == MmTypes /\ RangesOK /\ ScanOK /\ HolesOK

\* The table of nodes has spans.
LEMMA NodeTypes ==
    ASSUME MmAssumption, MmTypes
    PROVE  node \in Spans /\ HeadNode \notin Nodes
  BY DEF MmAssumption, MmTypes, Spans

\* Only nodes are owned.
LEMMA OwnedTypes ==
    ASSUME MmTypes
    PROVE  Owned \in SUBSET Nodes /\ ToSet(list) \in SUBSET Nodes
  <1>1. \A i \in DOMAIN scanned : scanned[i] \in RecordType
    BY DEF MmTypes
  <1>2. \A i \in DOMAIN scanned : scanned[i].node \in Nodes
    BY <1>1 DEF RecordType
  <1> QED BY <1>2 DEF Owned, OffList, ToSet, MmTypes

\* With no scan going on the owned nodes are those of the list.
LEMMA NothingOff ==
    ASSUME scanned = <<>>
    PROVE  OffList = {} /\ Owned = ToSet(list) /\ DOMAIN scanned = {}
  BY DEF OffList, Owned

\* The list by itself is in order and solid.
LEMMA ListOK ==
    ASSUME MmAssumption, MmTypes, RangesOK
    PROVE  /\ node \in Spans /\ list \in Seq(Nodes) /\ Sorted(node, list)
           /\ Solid(node, ToSet(list)) /\ Apart(node, ToSet(list)) /\ Injective(list)
  <1>1. node \in Spans /\ list \in Seq(Nodes) /\ Sorted(node, list) /\ HeadNode \notin Nodes
    BY NodeTypes DEF MmTypes, RangesOK
  <1>2. ToSet(list) \in SUBSET Owned
    BY DEF Owned
  <1>3. Solid(node, ToSet(list)) /\ Apart(node, ToSet(list))
    BY <1>2, FewerRanges DEF RangesOK
  <1> QED BY <1>1, <1>3, SortedInjective

-----------------------------------------------------------------------------
(* Searching                                                               *)

\* Aligning makes a start larger, or leaves it.
LEMMA AlignUp ==
    ASSUME NEW s \in Nat, NEW a \in Nat
    PROVE  Align(s, a) \in Nat /\ Align(s, a) >= s
  <1>1. CASE a = 0
    BY <1>1 DEF Align
  <1>2. CASE a # 0
    <2>1. s % a \in 0 .. a - 1
      BY <1>2
    <2> QED BY <2>1, <1>2 DEF Align
  <1> QED BY <1>1, <1>2

Wanted == [size : Nat \ {0}, align : Nat, color : Nat, lo : Nat, hi : Nat, best : BOOLEAN]

\* The usable part of a hole lies in it and in the range that is asked for, and
\* leaves a page next to another colour.
LEMMA UsableIs ==
    ASSUME HeadNode \notin Nodes, node \in Spans, colored \in BOOLEAN, NEW l,
           NEW n \in Nodes \cup {HeadNode}, NEW r \in Wanted, HoleEnd(l, n) \in Nat,
           NEW u, u = Usable(l, n, r)
    PROVE  /\ u[1] \in Nat /\ u[2] \in Int /\ u[1] >= EndOf(node, n) /\ u[1] >= r.lo
           /\ u[2] <= HoleEnd(l, n) /\ u[2] <= r.hi
           /\ colored /\ Color(n) # r.color => u[1] > EndOf(node, n)
           /\ colored /\ NextIn(l, n) # HeadNode /\ Color(NextIn(l, n)) # r.color
                => u[2] < HoleEnd(l, n)
           /\ ~colored => /\ u[1] = EndOf(node, n) \/ u[1] = r.lo
                          /\ u[2] = HoleEnd(l, n) \/ u[2] = r.hi
  <1> DEFINE s == Larger(HoleStart(n), r.lo)
             e == Smaller(HoleEnd(l, n), r.hi)
             below == colored /\ Color(n) # r.color
             above == colored /\ NextIn(l, n) # HeadNode /\ Color(NextIn(l, n)) # r.color
  <1>1. HoleStart(n) = EndOf(node, n) /\ EndOf(node, n) \in Nat
    BY EndIsNat DEF HoleStart, EndOf
  <1>2. r.lo \in Nat /\ r.hi \in Nat
    BY DEF Wanted
  <1>3. /\ s \in Nat /\ s >= EndOf(node, n) /\ s >= r.lo /\ (s = EndOf(node, n) \/ s = r.lo)
        /\ e \in Nat /\ e <= HoleEnd(l, n) /\ e <= r.hi /\ (e = HoleEnd(l, n) \/ e = r.hi)
    BY <1>1, <1>2 DEF Larger, Smaller
  <1>4. u = <<IF below THEN s + 1 ELSE s, IF above THEN e - 1 ELSE e>>
    BY DEF Usable, ColorAdjust
  <1> HIDE DEF s, e
  <1>5. u[1] = (IF below THEN s + 1 ELSE s) /\ u[2] = (IF above THEN e - 1 ELSE e)
    BY <1>4
  <1> QED BY <1>1, <1>2, <1>3, <1>5

\* The search finds a hole of the stack that fits, the first one of them
\* unless the best is asked for.
LEMMA SearchIs ==
    ASSUME MmAssumption, stack \in Seq(Nodes \cup {HeadNode}), node \in Spans,
           NEW r, r.best \in BOOLEAN
    PROVE  /\ Search(r) = None <=> Found(r) = {}
           /\ Found(r) # {} => \E i \in Found(r) : /\ Search(r) = stack[i]
                                                   /\ ~r.best => \A j \in Found(r) : i <= j
  <1>1. Found(r) \subseteq 1 .. Len(stack) /\ Len(stack) \in Nat
    BY DEF Found
  <1>2. \A i \in Found(r) : stack[i] \in Nodes \cup {HeadNode} /\ stack[i] # None
    BY <1>1 DEF Found, MmAssumption
  <1>3. \A i \in Found(r) : EntrySize(stack[i]) \in Nat
    <2>1. ASSUME NEW n \in Nodes \cup {HeadNode} PROVE EntrySize(n) \in Nat
      BY DEF EntrySize, Spans, MmAssumption
    <2> QED BY <1>2, <2>1
  <1> DEFINE Best(i) == \A j \in Found(r) : ~Worse(i, j, r) /\ (Worse(j, i, r) \/ i <= j)
  <1>4. ASSUME Found(r) # {} PROVE \E i \in Found(r) : Best(i)
    <2>1. CASE ~r.best
      <3>1. PICK i \in Found(r) : \A j \in Found(r) : i <= j
        <4>1. Found(r) \in SUBSET Nat
          BY <1>1
        <4> QED BY <4>1, <1>4, LeastOf
      <3> QED BY <2>1, <3>1 DEF Worse
    <2>2. CASE r.best
      <3> DEFINE Sizes == {EntrySize(stack[i]) : i \in Found(r)}
      <3>1. PICK z \in Sizes : \A y \in Sizes : z <= y
        <4>1. Sizes \in SUBSET Nat /\ Sizes # {}
          BY <1>3, <1>4
        <4> HIDE DEF Sizes
        <4> QED BY <4>1, LeastOf
      <3> DEFINE Smallest == {i \in Found(r) : EntrySize(stack[i]) = z}
      <3>2. PICK i \in Smallest : \A j \in Smallest : i <= j
        <4>1. Smallest \in SUBSET Nat /\ Smallest # {}
          BY <1>1, <3>1
        <4> HIDE DEF Smallest
        <4> QED BY <4>1, LeastOf
      <3>3. i \in Found(r) /\ EntrySize(stack[i]) = z /\ z \in Nat
        BY <1>3, <3>2
      <3>4. ASSUME NEW j \in Found(r)
            PROVE  ~Worse(i, j, r) /\ (Worse(j, i, r) \/ i <= j)
        <4>1. z <= EntrySize(stack[j]) /\ EntrySize(stack[j]) \in Nat
          BY <3>1, <1>3
        <4>2. CASE EntrySize(stack[j]) = z
          BY <3>2, <3>3, <4>1, <4>2 DEF Worse
        <4>3. CASE EntrySize(stack[j]) # z
          BY <2>2, <3>3, <4>1, <4>3 DEF Worse
        <4> QED BY <4>2, <4>3
      <3> QED BY <3>3, <3>4
    <2> QED BY <2>1, <2>2
  <1>5. ASSUME Found(r) # {}
        PROVE  \E i \in Found(r) : /\ Search(r) = stack[i] /\ Search(r) # None
                                   /\ ~r.best => \A j \in Found(r) : i <= j
    <2> DEFINE i == CHOOSE k \in Found(r) : Best(k)
    <2>1. i \in Found(r) /\ Best(i)
      BY <1>4, <1>5
    <2>2. Search(r) = stack[i]
      BY <1>5 DEF Search
    <2> HIDE DEF i
    <2>3. ~r.best => \A j \in Found(r) : i <= j
      BY <2>1 DEF Worse
    <2> QED BY <1>2, <2>1, <2>2, <2>3
  <1>6. Found(r) = {} => Search(r) = None
    BY DEF Search
  <1> QED BY <1>5, <1>6

-----------------------------------------------------------------------------
(* Insertion                                                               *)

\* The placing of n by drm_mm_insert_helper_range, after a search
Inserted(n, r) ==
    /\ n \in Nodes /\ n \notin Owned /\ r \in Requests /\ scanned = <<>>
    /\ Search(r) # None /\ InsertHelper(Search(r), n, r)
    /\ UNCHANGED <<colored, scanned>>

\* The node lies in the hole that was found, and keeps its distance.
LEMMA InsertedIs ==
    ASSUME MmAssumption, MmInv, NEW n, NEW r, Inserted(n, r),
           NEW h, h = Search(r), NEW e, e = HoleEnd(list, h)
    PROVE  /\ h \in ToSet(list) \cup {HeadNode} /\ h \in ToSet(stack) /\ e \in 0 .. End
           /\ node' \in [Nodes -> [start : 0 .. End, size : 0 .. End, color : Nat]]
           /\ node'[n].start >= r.lo /\ node'[n].size = r.size /\ node'[n].color = r.color
           /\ \A m \in Nodes : m # n => node'[m] = node[m]
           /\ InHole(node, node', ToSet(list), h, n, e)
           /\ node'[n].start = Align(Usable(list, h, r)[1], r.align)
           /\ colored /\ h # HeadNode /\ EndOf(node, h) = node'[n].start => Color(h) = r.color
           /\ colored /\ NextIn(list, h) # HeadNode /\ EndOf(node', n) = e
                => Color(NextIn(list, h)) = r.color
  <1> DEFINE u == Usable(list, h, r)
             s == Align(u[1], r.align)
  <1>0. HeadNode \notin Nodes /\ End \in Nat /\ n \in Nodes /\ r \in Wanted /\ MmTypes /\ RangesOK
        /\ colored \in BOOLEAN
    BY DEF MmAssumption, Inserted, Wanted, MmInv, MmTypes
  <1>1. OffList = {} /\ Owned = ToSet(list)
    BY NothingOff DEF Inserted
  <1>2. /\ node \in Spans /\ list \in Seq(Nodes) /\ Sorted(node, list) /\ Solid(node, ToSet(list))
        /\ Apart(node, ToSet(list))
    BY <1>0, ListOK
  <1>3. h \in ToSet(stack) /\ Fits(h, r)
    <2>1. r.best \in BOOLEAN
      BY <1>0 DEF Wanted
    <2>2. stack \in Seq(Nodes \cup {HeadNode})
      BY <1>0 DEF MmTypes
    <2>3. PICK i \in Found(r) : Search(r) = stack[i]
      BY <1>2, <2>1, <2>2, SearchIs DEF Inserted
    <2> QED BY <2>3 DEF Found, ToSet
  <1>4. h \in ToSet(list) \cup {HeadNode}
    BY <1>1, <1>3 DEF MmInv, HolesOK, FreeOf
  <1>5. h \in Nodes \cup {HeadNode}
    BY <1>0, <1>4, OwnedTypes
  <1>6. /\ NextIn(list, h) \in ToSet(list) \cup {HeadNode}
        /\ NextIn(list, h) = HeadNode => e = End
        /\ NextIn(list, h) # HeadNode => e = node[NextIn(list, h)].start
        /\ e \in Nat /\ e <= End
        /\ \A m \in ToSet(list) : EndOf(node, m) <= EndOf(node, h) \/ e <= node[m].start
    BY <1>2, <1>4, HoleIs
  <1>7. /\ u[1] \in Nat /\ u[2] \in Int /\ u[1] >= EndOf(node, h) /\ u[1] >= r.lo /\ u[2] <= e
        /\ colored /\ Color(h) # r.color => u[1] > EndOf(node, h)
        /\ colored /\ NextIn(list, h) # HeadNode /\ Color(NextIn(list, h)) # r.color => u[2] < e
    BY <1>0, <1>2, <1>5, <1>6, UsableIs
  <1>8. u[2] >= s + r.size
    BY <1>3 DEF Fits, CheckFreeHole
  <1>9. r.align \in Nat /\ r.size \in Nat /\ r.size > 0 /\ r.color \in Nat /\ r.lo \in Nat
    BY <1>0 DEF Wanted
  <1>10. s \in Nat /\ s >= u[1]
    BY <1>7, <1>9, AlignUp
  <1>11. node' = [node EXCEPT ![n] = [start |-> s, size |-> r.size, color |-> r.color]]
    BY DEF Inserted, InsertHelper
  <1>12. EndOf(node, h) \in Nat
    BY <1>0, <1>2, <1>5, EndIsNat
  <1> HIDE DEF u, s
  <1>13. s \in 0 .. End /\ r.size \in 0 .. End /\ s + r.size <= e /\ EndOf(node, h) <= s /\ s >= r.lo
    BY <1>0, <1>6, <1>7, <1>8, <1>9, <1>10, <1>12
  <1>14. /\ node' \in [Nodes -> [start : 0 .. End, size : 0 .. End, color : Nat]]
         /\ node'[n] = [start |-> s, size |-> r.size, color |-> r.color]
         /\ \A m \in Nodes : m # n => node'[m] = node[m]
    BY <1>0, <1>9, <1>11, <1>13 DEF MmTypes
  <1>15. /\ node'[n].start = s /\ node'[n].size = r.size /\ node'[n].color = r.color
         /\ EndOf(node', n) = s + r.size
    BY <1>0, <1>14 DEF EndOf
  <1>16. InHole(node, node', ToSet(list), h, n, e)
    <2>1. \A m \in ToSet(list) : node'[m] = node[m]
      BY <1>0, <1>1, <1>14, OwnedTypes DEF Inserted
    <2>2. e = End \/ \E m \in ToSet(list) : node[m].start = e
      BY <1>6
    <2>3. n \in Nodes \ ToSet(list)
      BY <1>0, <1>1 DEF Inserted
    <2> QED BY <1>4, <1>6, <1>9, <1>13, <1>15, <2>1, <2>2, <2>3 DEF InHole
  <1>17. colored /\ h # HeadNode /\ EndOf(node, h) = node'[n].start => Color(h) = r.color
    BY <1>7, <1>10, <1>12, <1>15
  <1>18. colored /\ NextIn(list, h) # HeadNode /\ EndOf(node', n) = e => Color(NextIn(list, h)) = r.color
    BY <1>6, <1>7, <1>8, <1>9, <1>10, <1>15
  <1> QED BY <1>0, <1>3, <1>4, <1>6, <1>13, <1>14, <1>15, <1>16, <1>17, <1>18 DEF u, s

\* Insertion keeps the list in order, the ranges apart and the holes known.
LEMMA InsertKeeps ==
    ASSUME MmAssumption, MmInv, NEW n, NEW r, Inserted(n, r)
    PROVE  /\ list' \in Seq(Nodes) /\ stack' \in Seq(Nodes \cup {HeadNode})
           /\ hole' \subseteq Nodes \cup {HeadNode}
           /\ Owned' = Owned \cup {n} /\ RangesOK' /\ HolesOK'
  <1> DEFINE h == Search(r)
             e == HoleEnd(list, h)
             L == ToSet(list)
  <1>0. HeadNode \notin Nodes /\ End \in Nat /\ n \in Nodes /\ MmTypes /\ RangesOK /\ HolesOK
        /\ scanned = <<>> /\ scanned' = <<>> /\ colored' = colored /\ n \notin Owned
    BY DEF MmAssumption, Inserted, MmInv
  <1>1. OffList = {} /\ Owned = L /\ DOMAIN scanned = {} /\ L \in SUBSET Nodes
    BY <1>0, NothingOff, OwnedTypes
  <1>2. node \in Spans /\ list \in Seq(Nodes) /\ Sorted(node, list) /\ Solid(node, L) /\ Apart(node, L)
    BY <1>0, ListOK
  <1>3. /\ h \in L \cup {HeadNode} /\ h \in ToSet(stack) /\ e \in 0 .. End
        /\ node' \in [Nodes -> [start : 0 .. End, size : 0 .. End, color : Nat]]
        /\ node'[n].size = r.size /\ node'[n].color = r.color
        /\ \A m \in Nodes : m # n => node'[m] = node[m]
        /\ InHole(node, node', L, h, n, e)
        /\ node'[n].start = Align(Usable(list, h, r)[1], r.align)
        /\ colored /\ h # HeadNode /\ EndOf(node, h) = node'[n].start => Color(h) = r.color
        /\ colored /\ NextIn(list, h) # HeadNode /\ EndOf(node', n) = e
             => Color(NextIn(list, h)) = r.color
    BY InsertedIs
  <1>4. InsertHelper(h, n, r)
    BY DEF Inserted
  <1>5. NextIn(list, h) \in L \cup {HeadNode}
        /\ (NextIn(list, h) = HeadNode => e = End)
        /\ (NextIn(list, h) # HeadNode => e = node[NextIn(list, h)].start)
    BY <1>2, <1>3, HoleIs
  <1> HIDE DEF h, e, L
  <1>6. node' \in Spans
    BY <1>3 DEF Spans
  <1>7. /\ Solid(node', L \cup {n}) /\ Apart(node', L \cup {n}) /\ Follows(node', L, h, n)
        /\ FreeOf(node', L \cup {n}) =
              (IF node'[n].start = EndOf(node, h) THEN FreeOf(node, L) \ {h} ELSE FreeOf(node, L))
              \cup (IF EndOf(node', n) < e THEN {n} ELSE {})
    <2>1. InHole(node, node', L, h, n, e) /\ e \in Nat
      BY <1>3
    <2>2. Placed(node, node', L, h, n, e)
      BY <1>1, <1>2, <1>6, <2>1, PlacedInHole
    <2> QED BY <2>2 DEF Placed
  <1>8. \A m \in L : node'[m] = node[m]
    BY <1>3 DEF InHole
  <1>9. list' \in Seq(Nodes) /\ ToSet(list') = L \cup {n} /\ Sorted(node', list')
    <2>1. \A m \in L \cup {HeadNode} : EndOf(node', m) = EndOf(node, m)
      BY <1>0, <1>1, <1>8, SameRanges
    <2>2. Sorted(node', list)
      <3>1. ASSUME NEW i \in DOMAIN list, NEW j \in DOMAIN list, i < j
            PROVE  EndOf(node', list[i]) <= node'[list[j]].start
        <4>1. list[i] \in L /\ list[j] \in L
          BY DEF L, ToSet
        <4>2. EndOf(node, list[i]) <= node[list[j]].start
          BY <1>2, <3>1 DEF Sorted
        <4> QED BY <4>1, <4>2, <2>1, <1>8
      <3> QED BY <3>1 DEF Sorted
    <2>3. Solid(node', L)
      BY <1>0, <1>1, <1>2, <1>8, SameRanges
    <2>4. list' = After(list, h, n)
      BY <1>4 DEF InsertHelper
    <2> QED BY <1>0, <1>2, <1>6, <1>7, <2>2, <2>3, <2>4, SortedAfter DEF L
  <1>10. OffList' = {}
    BY <1>0, NothingOff DEF OffList
  <1>11. Owned' = L \cup {n}
    BY <1>9, <1>10 DEF Owned
  <1>12. colored => Tinted(node', L \cup {n})
    <2> SUFFICES ASSUME colored PROVE Tinted(node', L \cup {n})
      OBVIOUS
    <2>1. Tinted(node, L)
      BY <1>0, <1>1 DEF RangesOK
    <2>2. h \in L /\ EndOf(node, h) = node'[n].start => node[h].color = node'[n].color
      BY <1>0, <1>1, <1>3 DEF Color
    <2>3. ASSUME NEW m \in L, node[m].start = e, EndOf(node', n) = e
          PROVE  node'[n].color = node[m].color
      <3>1. NextIn(list, h) # HeadNode
        <4>1. node[m].start \in Nat /\ node[m].size \in Nat /\ node[m].size > 0
              /\ EndOf(node, m) = node[m].start + node[m].size /\ EndOf(node, m) <= End
          BY <1>0, <1>1, <1>2, SpanTypes DEF Solid
        <4> QED BY <4>1, <2>3, <1>0, <1>5
      <3>2. m = NextIn(list, h)
        <4> DEFINE x == NextIn(list, h)
        <4>1. x \in L /\ node[x].start = e
          BY <3>1, <1>5
        <4> HIDE DEF x
        <4>2. /\ node[m].start \in Nat /\ node[m].size \in Nat /\ node[m].size > 0
              /\ EndOf(node, m) = node[m].start + node[m].size
              /\ node[x].start \in Nat /\ node[x].size \in Nat /\ node[x].size > 0
              /\ EndOf(node, x) = node[x].start + node[x].size
          BY <4>1, <1>0, <1>1, <1>2, SpanTypes DEF Solid
        <4>3. m = x \/ EndOf(node, m) <= node[x].start \/ EndOf(node, x) <= node[m].start
          BY <4>1, <1>2 DEF Apart
        <4>4. m = x
          BY <4>1, <4>2, <4>3, <2>3
        <4> QED BY <4>4 DEF x
      <3>3. Color(m) = r.color
        BY <3>1, <3>2, <2>3, <1>3
      <3>4. Color(m) = node[m].color
        BY <1>0, <1>1 DEF Color
      <3>5. node'[n].color = r.color
        BY <1>3
      <3> QED BY <3>3, <3>4, <3>5, Zenon
    <2>4. SameTint(node, node', L, h, n, e)
      BY <2>2, <2>3 DEF SameTint
    <2>5. InHole(node, node', L, h, n, e)
      BY <1>3
    <2> QED BY <1>1, <1>2, <1>6, <2>1, <2>4, <2>5, TintedInHole
  <1>13. RangesOK'
    BY <1>0, <1>7, <1>9, <1>11, <1>12 DEF RangesOK
  <1> DEFINE fills == node'[n].start = EndOf(node, h)
             rest == EndOf(node', n) < e
             below == IF fills THEN Without(stack, h) ELSE stack
             left == IF fills THEN FreeOf(node, L) \ {h} ELSE FreeOf(node, L)
  <1>14. HoleStart(h) = EndOf(node, h) /\ EndOf(node', n) = node'[n].start + r.size
    BY <1>0, <1>3 DEF HoleStart, EndOf
  <1>15. /\ hole' = (IF fills THEN hole \ {h} ELSE hole) \cup (IF rest THEN {n} ELSE {})
         /\ stack' = IF rest THEN <<n>> \o below ELSE below
    BY <1>3, <1>4, <1>14 DEF InsertHelper, e
  <1>16. FreeOf(node', L \cup {n}) = left \cup (IF rest THEN {n} ELSE {})
    BY <1>7
  <1>17. /\ stack \in Seq(Nodes \cup {HeadNode}) /\ ToSet(stack) = FreeOf(node, L) /\ Injective(stack)
         /\ \A m \in Nodes \cup {HeadNode} : m \in hole <=> m \in FreeOf(node, L)
    BY <1>0, <1>1 DEF HolesOK, MmTypes, WillBe
  <1>18. below \in Seq(Nodes \cup {HeadNode}) /\ ToSet(below) = left /\ Injective(below)
    BY <1>17, WithoutIs
  <1>19. n \notin FreeOf(node, L) /\ n \notin left
    BY <1>0, <1>1 DEF FreeOf
  <1> HIDE DEF fills, rest, below
  <1>20. /\ stack' \in Seq(Nodes \cup {HeadNode}) /\ Injective(stack')
         /\ ToSet(stack') = left \cup (IF rest THEN {n} ELSE {})
    <2>1. CASE rest
      <3>1. <<n>> \o below \in Seq(Nodes \cup {HeadNode}) /\ ToSet(<<n>> \o below) = left \cup {n}
            /\ Injective(<<n>> \o below)
        <4> HIDE DEF left
        <4> QED BY <1>0, <1>18, <1>19, PushIs
      <3> QED BY <2>1, <3>1, <1>15
    <2>2. CASE ~rest
      BY <2>2, <1>15, <1>18
    <2> QED BY <2>1, <2>2
  <1>21. hole' \subseteq Nodes \cup {HeadNode}
    BY <1>0, <1>15 DEF MmTypes
  <1>22. \A m \in Nodes \cup {HeadNode} : m \in hole' <=> m \in left \cup (IF rest THEN {n} ELSE {})
    BY <1>15, <1>17
  <1>23. HolesOK'
    <2>1. \A m : WillBe(hole', scanned', m) <=> m \in hole'
      BY <1>0 DEF WillBe
    <2>2. FreeOf(node', Owned') = left \cup (IF rest THEN {n} ELSE {})
      BY <1>11, <1>16
    <2> QED BY <2>1, <2>2, <1>20, <1>22 DEF HolesOK
  <1> QED BY <1>1, <1>9, <1>11, <1>13, <1>20, <1>21, <1>23

-----------------------------------------------------------------------------
(* Removal                                                                 *)

\* Removal (drm_mm_put_block) keeps the order, the ranges and the holes.
LEMMA RemoveKeeps ==
    ASSUME MmAssumption, MmInv, NEW n \in Nodes, PutBlock(n)
    PROVE  /\ list' \in Seq(Nodes) /\ stack' \in Seq(Nodes \cup {HeadNode})
           /\ hole' \subseteq Nodes \cup {HeadNode}
           /\ node' \in [Nodes -> [start : 0 .. End, size : 0 .. End, color : Nat]]
           /\ scanned = <<>> /\ scanned' = <<>>
           /\ n \in Owned /\ Owned' = Owned \ {n} /\ RangesOK' /\ HolesOK'
           /\ \A m \in Nodes : m # n => node'[m] = node[m]
  <1> DEFINE L == ToSet(list)
             p == PrevIn(list, n)
             N == Nodes \cup {HeadNode}
  <1>0. HeadNode \notin Nodes /\ End \in Nat /\ MmTypes /\ RangesOK /\ HolesOK
        /\ scanned = <<>> /\ scanned' = <<>> /\ colored' = colored /\ n \in L
    BY DEF MmAssumption, MmInv, PutBlock, ScanOK
  <1>1. OffList = {} /\ Owned = L /\ DOMAIN scanned = {} /\ L \in SUBSET Nodes
    BY <1>0, NothingOff, OwnedTypes
  <1>2. node \in Spans /\ list \in Seq(Nodes) /\ Sorted(node, list) /\ Solid(node, L) /\ Apart(node, L)
        /\ Injective(list)
    BY <1>0, ListOK
  <1>3. Follows(node, L \ {n}, p, n)
    BY <1>0, <1>2, PrevIs
  <1>4. /\ list' = Without(list, n) /\ hole' = (hole \ {n}) \cup {p}
        /\ stack' = <<p>> \o Without(Without(stack, n), p)
        /\ node' = [node EXCEPT ![n] = Cleared]
    BY DEF PutBlock, Unlink
  <1> HIDE DEF L, p
  <1>5. p \in N /\ p \in (L \ {n}) \cup {HeadNode}
    BY <1>1, <1>3 DEF Follows
  <1>6. list' \in Seq(Nodes) /\ ToSet(list') = L \ {n} /\ Sorted(node, list')
    BY <1>0, <1>2, <1>4, WithoutIs, SortedWithout DEF L
  <1>7. /\ node' \in [Nodes -> [start : 0 .. End, size : 0 .. End, color : Nat]]
        /\ \A m \in Nodes : m # n => node'[m] = node[m]
    BY <1>0, <1>4 DEF MmTypes, Cleared
  <1>8. Owned' = L \ {n}
    BY <1>0, <1>6 DEF Owned, OffList
  <1>9. \A m \in L \ {n} : node'[m] = node[m]
    BY <1>1, <1>7
  <1>10. /\ \A m \in (L \ {n}) \cup {HeadNode} : EndOf(node', m) = EndOf(node, m)
         /\ Solid(node, L \ {n}) => Solid(node', L \ {n})
         /\ Apart(node, L \ {n}) => Apart(node', L \ {n})
         /\ Tinted(node, L \ {n}) => Tinted(node', L \ {n})
         /\ FreeOf(node', L \ {n}) = FreeOf(node, L \ {n})
    <2>1. HeadNode \notin L \ {n}
      BY <1>0, <1>1
    <2> QED BY <2>1, <1>9, SameRanges
  <1>11. Solid(node, L \ {n}) /\ Apart(node, L \ {n}) /\ (colored => Tinted(node, L \ {n}))
    BY <1>0, <1>1, <1>2, FewerRanges DEF RangesOK
  <1>12. Sorted(node', list')
    <2>1. ASSUME NEW i \in DOMAIN list', NEW j \in DOMAIN list', i < j
          PROVE  EndOf(node', list'[i]) <= node'[list'[j]].start
      <3>1. list'[i] \in L \ {n} /\ list'[j] \in L \ {n}
        BY <1>6 DEF ToSet
      <3>2. EndOf(node, list'[i]) <= node[list'[j]].start
        BY <1>6, <2>1 DEF Sorted
      <3> QED BY <3>1, <3>2, <1>9, <1>10
    <2> QED BY <2>1 DEF Sorted
  <1>13. RangesOK'
    BY <1>0, <1>8, <1>10, <1>11, <1>12 DEF RangesOK
  <1>14. FreeOf(node, L \ {n}) = (FreeOf(node, L) \ {n}) \cup {p}
    BY <1>0, <1>1, <1>2, <1>3, FreedBefore
  <1>15. /\ stack \in Seq(N) /\ ToSet(stack) = FreeOf(node, L) /\ Injective(stack)
         /\ \A m \in N : m \in hole <=> m \in FreeOf(node, L)
    BY <1>0, <1>1 DEF HolesOK, MmTypes, WillBe
  <1> HIDE DEF N
  <1> DEFINE w == Without(stack, n)
             ww == Without(w, p)
  <1>16. w \in Seq(N) /\ ToSet(w) = FreeOf(node, L) \ {n} /\ Injective(w)
    BY <1>15, WithoutIs
  <1> HIDE DEF w
  <1>17. ww \in Seq(N) /\ ToSet(ww) = (FreeOf(node, L) \ {n}) \ {p} /\ Injective(ww)
    BY <1>16, WithoutIs
  <1>18. stack' = <<p>> \o ww
    BY <1>4 DEF w
  <1> HIDE DEF ww
  <1>19. stack' \in Seq(N) /\ ToSet(stack') = (FreeOf(node, L) \ {n}) \cup {p} /\ Injective(stack')
    <2>1. p \notin ToSet(ww)
      BY <1>17
    <2>2. <<p>> \o ww \in Seq(N) /\ ToSet(<<p>> \o ww) = ToSet(ww) \cup {p} /\ Injective(<<p>> \o ww)
      BY <2>1, <1>5, <1>17, PushIs
    <2> QED BY <2>2, <1>17, <1>18
  <1>20. hole' \subseteq N
    BY <1>0, <1>4, <1>5 DEF MmTypes, N
  <1>21. \A m \in N : m \in hole' <=> m \in (FreeOf(node, L) \ {n}) \cup {p}
    BY <1>4, <1>15
  <1>22. HolesOK'
    <2>1. \A m : WillBe(hole', scanned', m) <=> m \in hole'
      BY <1>0 DEF WillBe
    <2>2. FreeOf(node', Owned') = (FreeOf(node, L) \ {n}) \cup {p}
      BY <1>8, <1>10, <1>14
    <2> QED BY <2>1, <2>2, <1>19, <1>21 DEF HolesOK, N
  <1> QED BY <1>0, <1>1, <1>6, <1>7, <1>8, <1>13, <1>19, <1>20, <1>22 DEF N

-----------------------------------------------------------------------------
(* The scan                                                                *)

\* b is a with the record t before it.
Shifted(a, b, t) ==
    /\ a \in Seq(RecordType) /\ b \in Seq(RecordType) /\ t \in RecordType
    /\ Len(b) = Len(a) + 1 /\ b[1] = t /\ \A k \in 1 .. Len(a) : b[k + 1] = a[k]

\* The records of b are t and then those of a.
LEMMA ShiftIs ==
    ASSUME NEW a, NEW b, NEW t, Shifted(a, b, t)
    PROVE  /\ Len(a) \in Nat /\ DOMAIN a = 1 .. Len(a) /\ DOMAIN b = 1 .. Len(a) + 1 /\ b[1] = t
           /\ \A k \in DOMAIN a : k + 1 \in DOMAIN b /\ b[k + 1] = a[k]
           /\ \A k \in DOMAIN b : k = 1 \/ (k - 1 \in DOMAIN a /\ b[k] = a[k - 1])
  <1>1. Len(a) \in Nat /\ DOMAIN a = 1 .. Len(a) /\ DOMAIN b = 1 .. Len(a) + 1 /\ b[1] = t
    BY LenProperties DEF Shifted
  <1>2. \A k \in DOMAIN a : k + 1 \in DOMAIN b /\ b[k + 1] = a[k]
    BY <1>1 DEF Shifted
  <1>3. ASSUME NEW k \in DOMAIN b, k # 1 PROVE k - 1 \in DOMAIN a /\ b[k] = a[k - 1]
    <2>1. k - 1 \in DOMAIN a /\ (k - 1) + 1 = k
      BY <1>1, <1>3
    <2> QED BY <2>1, <1>2
  <1> QED BY <1>1, <1>2, <1>3

\* The nodes that come back later than the k-th
LEMMA ShiftLater ==
    ASSUME NEW a, NEW b, NEW t, Shifted(a, b, t)
    PROVE  /\ Off(b) = Off(a) \cup {t.node} /\ Later(b, 1) = Off(b)
           /\ \A k \in DOMAIN a : Later(b, k + 1) = Later(a, k)
  <1>1. /\ Len(a) \in Nat /\ DOMAIN a = 1 .. Len(a) /\ DOMAIN b = 1 .. Len(a) + 1 /\ b[1] = t
        /\ Len(b) = Len(a) + 1
        /\ \A k \in DOMAIN a : k + 1 \in DOMAIN b /\ b[k + 1] = a[k]
        /\ \A k \in DOMAIN b : k = 1 \/ (k - 1 \in DOMAIN a /\ b[k] = a[k - 1])
    BY ShiftIs DEF Shifted
  <1>2. Off(b) = Off(a) \cup {t.node}
    <2>1. 1 \in DOMAIN b
      BY <1>1
    <2> QED BY <2>1, <1>1 DEF Off
  <1>3. Later(b, 1) = Off(b)
    BY <1>1 DEF Later, Off
  <1>4. ASSUME NEW k \in DOMAIN a PROVE Later(b, k + 1) = Later(a, k)
    <2>1. ASSUME NEW i \in k + 1 .. Len(b) PROVE b[i].node \in Later(a, k)
      <3>1. i - 1 \in k .. Len(a) /\ b[i] = a[i - 1]
        BY <1>1
      <3> QED BY <3>1 DEF Later
    <2>2. ASSUME NEW i \in k .. Len(a) PROVE a[i].node \in Later(b, k + 1)
      <3>1. i + 1 \in k + 1 .. Len(b) /\ b[i + 1] = a[i]
        BY <1>1
      <3>2. b[i + 1].node = a[i].node
        BY <3>1
      <3> QED BY <3>1, <3>2 DEF Later
    <2> QED BY <2>1, <2>2 DEF Later
  <1> QED BY <1>2, <1>3, <1>4

\* Taking a node off and putting it back are each other's inverse.
LEMMA ShiftScans ==
    ASSUME NEW nd, NEW a, NEW b, NEW t, Shifted(a, b, t), NEW N, t.node \notin N
    PROVE  Scans(nd, N, b) <=>
           Scans(nd, N \cup {t.node}, a) /\ Follows(nd, N, t.prev, t.node)
  <1> DEFINE M == N \cup {t.node}
  <1>1. /\ Len(a) \in Nat /\ DOMAIN a = 1 .. Len(a) /\ DOMAIN b = 1 .. Len(a) + 1 /\ b[1] = t
        /\ \A k \in DOMAIN a : k + 1 \in DOMAIN b /\ b[k + 1] = a[k]
        /\ \A k \in DOMAIN b : k = 1 \/ (k - 1 \in DOMAIN a /\ b[k] = a[k - 1])
    BY ShiftIs
  <1>2. /\ Off(b) = Off(a) \cup {t.node} /\ Later(b, 1) = Off(b)
        /\ \A k \in DOMAIN a : Later(b, k + 1) = Later(a, k)
    BY ShiftLater
  <1>3. N \cup Off(b) = M \cup Off(a)
    BY <1>2
  <1>4. 1 \in DOMAIN b
    BY <1>1
  <1>5. ASSUME Scans(nd, N, b) PROVE Scans(nd, M, a) /\ Follows(nd, N, t.prev, t.node)
    <2>1. \A i, j \in DOMAIN a : a[i].node = a[j].node => i = j
      <3>1. ASSUME NEW i \in DOMAIN a, NEW j \in DOMAIN a, a[i].node = a[j].node PROVE i = j
        <4>1. i + 1 = j + 1
          BY <1>1, <1>5, <3>1 DEF Scans
        <4> QED BY <4>1, <1>1
      <3> QED BY <3>1
    <2>2. ASSUME NEW i \in DOMAIN a PROVE a[i].node \notin M
      <3>1. a[i].node \notin N
        BY <1>1, <1>5 DEF Scans
      <3>2. a[i].node # t.node
        <4>1. i + 1 \in DOMAIN b /\ b[i + 1].node = a[i].node /\ i + 1 # 1
          BY <1>1
        <4> QED BY <4>1, <1>1, <1>4, <1>5 DEF Scans
      <3> QED BY <3>1, <3>2
    <2>3. ASSUME NEW k \in DOMAIN a
          PROVE  Follows(nd, (M \cup Off(a)) \ Later(a, k), a[k].prev, a[k].node)
      <3>1. Follows(nd, (N \cup Off(b)) \ Later(b, k + 1), b[k + 1].prev, b[k + 1].node)
        BY <1>1, <1>5 DEF Scans
      <3>2. b[k + 1] = a[k] /\ Later(b, k + 1) = Later(a, k)
        BY <1>1, <1>2
      <3> HIDE DEF M
      <3> QED BY <3>1, <3>2, <1>3
    <2>4. Follows(nd, N, t.prev, t.node)
      <3>1. Follows(nd, (N \cup Off(b)) \ Later(b, 1), t.prev, t.node)
        BY <1>1, <1>4, <1>5 DEF Scans
      <3>2. N \cap Off(b) = {}
        BY <1>5 DEF Scans, Off
      <3>3. (N \cup Off(b)) \ Later(b, 1) = N
        BY <3>2, <1>2
      <3> QED BY <3>1, <3>3
    <2> QED BY <2>1, <2>2, <2>3, <2>4 DEF Scans
  <1>6. ASSUME Scans(nd, M, a), Follows(nd, N, t.prev, t.node) PROVE Scans(nd, N, b)
    <2>1. \A i \in DOMAIN a : a[i].node \notin N /\ a[i].node # t.node
      BY <1>6 DEF Scans
    <2>2. ASSUME NEW i \in DOMAIN b, NEW j \in DOMAIN b, b[i].node = b[j].node PROVE i = j
      <3>1. CASE i = 1 /\ j # 1
        BY <3>1, <2>1, <2>2, <1>1
      <3>2. CASE i # 1 /\ j = 1
        BY <3>2, <2>1, <2>2, <1>1
      <3>3. CASE i # 1 /\ j # 1
        <4>1. i - 1 \in DOMAIN a /\ j - 1 \in DOMAIN a /\ a[i - 1].node = a[j - 1].node
          BY <3>3, <2>2, <1>1
        <4>2. i - 1 = j - 1
          BY <4>1, <1>6 DEF Scans
        <4> QED BY <4>2, <1>1
      <3> QED BY <3>1, <3>2, <3>3
    <2>3. \A i \in DOMAIN b : b[i].node \notin N
      BY <2>1, <1>1
    <2>4. ASSUME NEW k \in DOMAIN b
          PROVE  Follows(nd, (N \cup Off(b)) \ Later(b, k), b[k].prev, b[k].node)
      <3>1. CASE k = 1
        <4>1. N \cap Off(b) = {}
          BY <2>3 DEF Off
        <4>2. (N \cup Off(b)) \ Later(b, 1) = N
          BY <4>1, <1>2
        <4> QED BY <3>1, <4>2, <1>1, <1>6
      <3>2. CASE k # 1
        <4> DEFINE j == k - 1
        <4>1. j \in DOMAIN a /\ b[k] = a[j] /\ j + 1 = k
          BY <3>2, <1>1
        <4> HIDE DEF j
        <4>2. Follows(nd, (M \cup Off(a)) \ Later(a, j), a[j].prev, a[j].node)
          BY <4>1, <1>6 DEF Scans
        <4>3. Later(b, k) = Later(a, j)
          BY <4>1, <1>2
        <4> HIDE DEF M
        <4> QED BY <4>1, <4>2, <4>3, <1>3
      <3> QED BY <3>1, <3>2
    <2> QED BY <2>2, <2>3, <2>4 DEF Scans
  <1> QED BY <1>5, <1>6

\* The word on the holes stays the same.
LEMMA ShiftHoles ==
    ASSUME NEW a, NEW b, NEW t, Shifted(a, b, t), NEW G, NEW H,
           \A m : m # t.prev => (m \in G <=> m \in H), t.precedes <=> t.prev \in H, NEW n
    PROVE  WillBe(G, b, n) <=> WillBe(H, a, n)
  <1>1. /\ Len(a) \in Nat /\ DOMAIN a = 1 .. Len(a) /\ DOMAIN b = 1 .. Len(a) + 1 /\ b[1] = t
        /\ \A k \in DOMAIN a : k + 1 \in DOMAIN b /\ b[k + 1] = a[k]
        /\ \A k \in DOMAIN b : k = 1 \/ (k - 1 \in DOMAIN a /\ b[k] = a[k - 1])
    BY ShiftIs
  <1>2. 1 \in DOMAIN b
    BY <1>1
  <1>3. (\E k \in DOMAIN a : a[k].prev = n) \/ (\A k \in DOMAIN a : a[k].prev # n)
    OBVIOUS
  <1> DEFINE Oldest(c, k) == c[k].prev = n /\ c[k].precedes /\ \A j \in DOMAIN c : j > k => c[j].prev # n
  <1>4. \A k \in DOMAIN a : Oldest(a, k) <=> Oldest(b, k + 1)
    <2>1. ASSUME NEW k \in DOMAIN a
          PROVE  (\A j \in DOMAIN a : j > k => a[j].prev # n)
                 <=> (\A j \in DOMAIN b : j > k + 1 => b[j].prev # n)
      <3>1. ASSUME \A j \in DOMAIN a : j > k => a[j].prev # n, NEW j \in DOMAIN b, j > k + 1
            PROVE  b[j].prev # n
        <4>1. j - 1 \in DOMAIN a /\ b[j] = a[j - 1] /\ j - 1 > k
          BY <3>1, <1>1
        <4> QED BY <4>1, <3>1
      <3>2. ASSUME \A j \in DOMAIN b : j > k + 1 => b[j].prev # n, NEW j \in DOMAIN a, j > k
            PROVE  a[j].prev # n
        <4>1. j + 1 \in DOMAIN b /\ b[j + 1] = a[j] /\ j + 1 > k + 1
          BY <3>2, <1>1
        <4> QED BY <4>1, <3>2
      <3> QED BY <3>1, <3>2
    <2>2. \A k \in DOMAIN a : b[k + 1] = a[k]
      BY <1>1
    <2> QED BY <2>1, <2>2
  <1>5. CASE \E k \in DOMAIN a : a[k].prev = n
    <2>1. PICK k \in DOMAIN a : a[k].prev = n
      BY <1>5
    <2>2. k + 1 \in DOMAIN b /\ b[k + 1].prev = n /\ k + 1 > 1
      BY <2>1, <1>1
    <2>3. ~Oldest(b, 1)
      BY <2>2
    <2>4. (\E i \in DOMAIN b : Oldest(b, i)) <=> \E i \in DOMAIN a : Oldest(a, i)
      <3>1. ASSUME NEW i \in DOMAIN b, Oldest(b, i) PROVE \E j \in DOMAIN a : Oldest(a, j)
        <4>1. i - 1 \in DOMAIN a /\ (i - 1) + 1 = i
          BY <3>1, <2>3, <1>1
        <4>2. Oldest(a, i - 1)
          BY <3>1, <4>1, <1>4
        <4> QED BY <4>1, <4>2
      <3>2. ASSUME NEW i \in DOMAIN a, Oldest(a, i) PROVE \E j \in DOMAIN b : Oldest(b, j)
        <4>1. i + 1 \in DOMAIN b /\ Oldest(b, i + 1)
          BY <3>2, <1>1, <1>4
        <4> QED BY <4>1
      <3> QED BY <3>1, <3>2
    <2> QED BY <2>1, <2>2, <2>4 DEF WillBe
  <1>6. CASE \A k \in DOMAIN a : a[k].prev # n
    <2>1. WillBe(H, a, n) <=> n \in H
      BY <1>6 DEF WillBe
    <2>2. \A k \in DOMAIN b : k # 1 => b[k].prev # n
      BY <1>1, <1>6
    <2>3. CASE t.prev = n
      <3>1. \A j \in DOMAIN b : j > 1 => b[j].prev # n
        BY <2>2
      <3>2. WillBe(G, b, n) <=> t.precedes
        <4>1. b[1].prev = n
          BY <2>3, <1>1
        <4>2. \A k \in DOMAIN b : b[k].prev = n => k = 1
          BY <2>2
        <4> QED BY <4>1, <4>2, <3>1, <1>1, <1>2 DEF WillBe
      <3> QED BY <2>1, <2>3, <3>2
    <2>4. CASE t.prev # n
      <3>1. \A k \in DOMAIN b : b[k].prev # n
        BY <2>2, <2>4, <1>1
      <3>2. WillBe(G, b, n) <=> n \in G
        BY <3>1 DEF WillBe
      <3> QED BY <2>1, <2>4, <3>2
    <2> QED BY <2>3, <2>4
  <1> QED BY <1>3, <1>5, <1>6

\* The scan takes n off the list.
LEMMA AddKeeps ==
    ASSUME MmAssumption, MmInv, NEW n \in Nodes, ScanAddBlock(n)
    PROVE  MmInv' /\ Owned' = Owned /\ node' = node
  <1> DEFINE L == ToSet(list)
             p == PrevIn(list, n)
             l == Without(list, n)
             t == [node |-> n, prev |-> p, precedes |-> p \in hole]
  <1>0. HeadNode \notin Nodes /\ MmTypes /\ RangesOK /\ HolesOK /\ ScanOK /\ n \in L /\ ask # NoAsk
    BY DEF MmAssumption, MmInv, ScanAddBlock
  <1>1. /\ node \in Spans /\ list \in Seq(Nodes) /\ Sorted(node, list) /\ Solid(node, L)
        /\ Injective(list) /\ L \in SUBSET Nodes
    BY <1>0, ListOK, OwnedTypes
  <1>2. Follows(node, L \ {n}, p, n)
    BY <1>0, <1>1, PrevIs
  <1>3. /\ scanned' = <<t>> \o scanned /\ list' = l /\ hole' = hole \cup {p}
        /\ hit' = IF CheckFreeHole(Usable(l, p, ask), ask)
                  THEN [start |-> HoleStart(p), end |-> HoleEnd(l, p)] ELSE NoHit
        /\ colored' = colored /\ node' = node /\ stack' = stack /\ ask' = ask
        /\ marked' = marked /\ unused' = unused
    BY DEF ScanAddBlock
  <1>4. p \in Nodes \cup {HeadNode} /\ p \in (L \ {n}) \cup {HeadNode}
    BY <1>1, <1>2 DEF Follows
  <1>5. l \in Seq(Nodes) /\ ToSet(l) = L \ {n} /\ Sorted(node, l)
    BY <1>0, <1>1, WithoutIs, SortedWithout
  <1>6. t \in RecordType /\ t.node = n /\ t.prev = p /\ (t.precedes <=> p \in hole)
    <2>1. t.node = n /\ t.prev = p
      OBVIOUS
    <2>2. (p \in hole) \in BOOLEAN
      OBVIOUS
    <2>3. t.precedes = (p \in hole)
      OBVIOUS
    <2>4. t \in RecordType
      BY <1>4, <2>2, Zenon DEF RecordType
    <2> QED BY <2>1, <2>3, <2>4
  <1> HIDE DEF L, p, l, t
  <1>7. Solid(node, L \ {n})
    BY <1>1, FewerRanges
  <1>8. HoleStart(p) \in Nat /\ HoleEnd(l, p) \in Nat
    <2>1. HoleStart(p) = EndOf(node, p)
      BY DEF HoleStart, EndOf
    <2>2. EndOf(node, p) \in Nat
      BY <1>0, <1>1, <1>4, EndIsNat
    <2>3. HoleEnd(l, p) \in Nat
      BY <1>1, <1>4, <1>5, <1>7, HoleIs
    <2> QED BY <2>1, <2>2, <2>3
  <1>9. Shifted(scanned, scanned', t)
    <2>1. scanned \in Seq(RecordType)
      BY <1>0 DEF MmTypes
    <2>2. /\ <<t>> \o scanned \in Seq(RecordType) /\ Len(<<t>> \o scanned) = Len(scanned) + 1
          /\ (<<t>> \o scanned)[1] = t
          /\ \A k \in 1 .. Len(scanned) : (<<t>> \o scanned)[k + 1] = scanned[k]
      BY <2>1, <1>6
    <2> QED BY <2>1, <2>2, <1>3, <1>6 DEF Shifted
  <1>10. OffList = Off(scanned) /\ OffList' = Off(scanned')
    BY DEF OffList, Off
  <1>11. Owned' = Owned
    <2>1. Off(scanned') = Off(scanned) \cup {n}
      BY <1>6, <1>9, ShiftLater
    <2>2. ToSet(list') = L \ {n}
      BY <1>3, <1>5
    <2> QED BY <2>1, <2>2, <1>0, <1>10 DEF Owned, L
  <1>12. RangesOK'
    BY <1>0, <1>3, <1>5, <1>11 DEF RangesOK
  <1>13. MmTypes'
    <2>1. scanned' \in Seq(RecordType)
      BY <1>9 DEF Shifted
    <2>2. hit' \in [start : Nat, end : Nat]
      BY <1>3, <1>8 DEF NoHit
    <2>3. hole' \subseteq Nodes \cup {HeadNode}
      BY <1>0, <1>3, <1>4 DEF MmTypes
    <2> QED BY <2>1, <2>2, <2>3, <1>0, <1>3, <1>5 DEF MmTypes
  <1>14. ScanOK'
    <2>1. Scans(node, L \ {n}, scanned') <=>
          Scans(node, (L \ {n}) \cup {t.node}, scanned) /\ Follows(node, L \ {n}, t.prev, t.node)
      <3>1. t.node \notin L \ {n}
        BY <1>6
      <3> QED BY <3>1, <1>9, ShiftScans
    <2>2. (L \ {n}) \cup {t.node} = L
      BY <1>0, <1>6
    <2>3. Scans(node, L, scanned)
      BY <1>0 DEF ScanOK, L
    <2>4. Scans(node, L \ {n}, scanned')
      BY <2>1, <2>2, <2>3, <1>2, <1>6
    <2> QED BY <2>4, <1>0, <1>3, <1>5 DEF ScanOK
  <1>15. HolesOK'
    <2>1. ASSUME NEW m PROVE WillBe(hole', scanned', m) <=> WillBe(hole, scanned, m)
      <3>1. \A x : x # t.prev => (x \in hole' <=> x \in hole)
        BY <1>3, <1>6
      <3>2. t.precedes <=> t.prev \in hole
        BY <1>6
      <3> QED BY <3>1, <3>2, <1>9, ShiftHoles
    <2>2. FreeOf(node', Owned') = FreeOf(node, Owned)
      BY <1>3, <1>11
    <2> QED BY <2>1, <2>2, <1>0, <1>3 DEF HolesOK
  <1> QED BY <1>3, <1>11, <1>12, <1>13, <1>14, <1>15 DEF MmInv

\* The scan puts the node back that it took off last.
LEMMA BackKeeps ==
    ASSUME MmAssumption, MmInv, ScanRemoveBlock
    PROVE  MmInv' /\ Owned' = Owned /\ node' = node
  <1> DEFINE L == ToSet(list)
             t == Head(scanned)
             l == After(list, t.prev, t.node)
  <1>0. HeadNode \notin Nodes /\ MmTypes /\ RangesOK /\ HolesOK /\ ScanOK /\ scanned # <<>>
    BY DEF MmAssumption, MmInv, ScanRemoveBlock
  <1>1. /\ node \in Spans /\ list \in Seq(Nodes) /\ Sorted(node, list) /\ Solid(node, L)
        /\ L \in SUBSET Nodes
    BY <1>0, ListOK, OwnedTypes
  <1>2. /\ list' = l /\ hole' = HoleBack(t) /\ scanned' = Tail(scanned)
        /\ marked' = IF InHit(l, t.node) THEN marked \cup {t.node} ELSE marked
        /\ ask' = IF hit = NoHit /\ Len(scanned) = 1 THEN NoAsk ELSE ask
        /\ colored' = colored /\ node' = node /\ stack' = stack /\ hit' = hit /\ unused' = unused
    BY DEF ScanRemoveBlock
  <1>3. scanned \in Seq(RecordType)
    BY <1>0 DEF MmTypes
  <1>4. /\ t \in RecordType /\ Tail(scanned) \in Seq(RecordType) /\ t = scanned[1]
        /\ Len(Tail(scanned)) = Len(scanned) - 1 /\ Len(scanned) \in Nat \ {0}
        /\ \A k \in 1 .. Len(Tail(scanned)) : Tail(scanned)[k] = scanned[k + 1]
    BY <1>0, <1>3, HeadTailProperties, EmptySeq, LenProperties
  <1>5. t.node \in Nodes /\ t.prev \in Nodes \cup {HeadNode} /\ t.precedes \in BOOLEAN
    BY <1>4 DEF RecordType
  <1> HIDE DEF L, t, l
  <1>6. Shifted(scanned', scanned, t)
    BY <1>2, <1>3, <1>4 DEF Shifted
  <1>7. t.node \notin L /\ Follows(node, L, t.prev, t.node)
    <2>1. Scans(node, L, scanned)
      BY <1>0 DEF ScanOK, L
    <2>2. 1 \in DOMAIN scanned
      BY <1>4
    <2>3. t.node \notin L
      BY <2>1, <2>2, <1>4 DEF Scans
    <2> QED BY <2>1, <2>3, <1>6, ShiftScans
  <1>8. l \in Seq(Nodes) /\ ToSet(l) = L \cup {t.node}
    BY <1>0, <1>1, <1>5, <1>7, SortedAfter DEF L, l
  <1>9. OffList = Off(scanned) /\ OffList' = Off(scanned')
    BY DEF OffList, Off
  <1>10. Owned' = Owned
    <2>1. Off(scanned) = Off(scanned') \cup {t.node}
      BY <1>6, ShiftLater
    <2> QED BY <2>1, <1>2, <1>8, <1>9 DEF Owned, L
  <1>11. Sorted(node, l)
    BY <1>0, <1>1, <1>5, <1>7, SortedAfter DEF L, l
  <1>12. RangesOK'
    BY <1>0, <1>2, <1>10, <1>11 DEF RangesOK
  <1>13. MmTypes'
    <2>1. hole' \subseteq Nodes \cup {HeadNode}
      BY <1>0, <1>2, <1>5 DEF MmTypes, HoleBack
    <2>2. marked' \subseteq Nodes
      BY <1>0, <1>2, <1>5 DEF MmTypes
    <2>3. ask' \in Requests \cup {NoAsk}
      BY <1>0, <1>2 DEF MmTypes
    <2> QED BY <2>1, <2>2, <2>3, <1>0, <1>2, <1>4, <1>8 DEF MmTypes
  <1>14. ScanOK'
    <2>1. Scans(node, L \cup {t.node}, scanned')
      <3>1. Scans(node, L, scanned)
        BY <1>0 DEF ScanOK, L
      <3> QED BY <3>1, <1>6, <1>7, ShiftScans
    <2>2. ask' = NoAsk => scanned' = <<>>
      <3>1. CASE ask = NoAsk
        BY <3>1, <1>0 DEF ScanOK
      <3>2. CASE ask # NoAsk
        <4> SUFFICES ASSUME ask' = NoAsk PROVE scanned' = <<>>
          OBVIOUS
        <4>1. Len(scanned) = 1
          BY <3>2, <1>2
        <4>2. Len(scanned') = 0 /\ scanned' \in Seq(RecordType)
          BY <4>1, <1>2, <1>4
        <4> QED BY <4>2, EmptySeq
      <3> QED BY <3>1, <3>2
    <2> QED BY <2>1, <2>2, <1>2, <1>8 DEF ScanOK
  <1>15. HolesOK'
    <2>1. ASSUME NEW m PROVE WillBe(hole, scanned, m) <=> WillBe(hole', scanned', m)
      <3>1. \A x : x # t.prev => (x \in hole <=> x \in hole')
        BY <1>2 DEF HoleBack
      <3>2. t.precedes <=> t.prev \in hole'
        BY <1>2, <1>5 DEF HoleBack
      <3> QED BY <3>1, <3>2, <1>6, ShiftHoles
    <2>2. FreeOf(node', Owned') = FreeOf(node, Owned)
      BY <1>2, <1>10
    <2> QED BY <2>1, <2>2, <1>0, <1>2 DEF HolesOK
  <1> QED BY <1>2, <1>10, <1>12, <1>13, <1>14, <1>15 DEF MmInv

-----------------------------------------------------------------------------
(* The invariant holds                                                     *)

\* The invariant holds after drm_mm_init.
LEMMA InitInv ==
    ASSUME MmAssumption, MmInit
    PROVE  MmInv
  <1>0. /\ HeadNode \notin Nodes /\ End \in Nat \ {0} /\ Target \in Nat
        /\ list = <<>> /\ hole = {HeadNode} /\ stack = <<HeadNode>> /\ scanned = <<>>
        /\ node = [n \in Nodes |-> Cleared] /\ ask = NoAsk /\ hit = NoHit /\ marked = {}
        /\ unused = 0 /\ colored \in BOOLEAN
    BY DEF MmAssumption, MmInit
  <1>1. MmTypes
    <2>1. node \in [Nodes -> [start : 0 .. End, size : 0 .. End, color : Nat]]
      BY <1>0 DEF Cleared
    <2>2. hit \in [start : Nat, end : Nat]
      BY <1>0 DEF NoHit
    <2>3. stack \in Seq(Nodes \cup {HeadNode}) /\ list \in Seq(Nodes) /\ scanned \in Seq(RecordType)
      BY <1>0
    <2> QED BY <2>1, <2>2, <2>3, <1>0 DEF MmTypes
  <1>2. Owned = {} /\ ToSet(list) = {}
    BY <1>0, NothingOff DEF ToSet
  <1>3. RangesOK
    BY <1>0, <1>2 DEF RangesOK, Solid, Apart, Sorted, Tinted
  <1>4. ScanOK
    BY <1>0 DEF ScanOK, Scans
  <1>5. FreeOf(node, Owned) = {HeadNode}
    BY <1>0, <1>2, HeadEnds DEF FreeOf, Free
  <1>6. ToSet(stack) = {HeadNode} /\ Injective(stack)
    BY <1>0 DEF ToSet, Injective
  <1>7. HolesOK
    BY <1>0, <1>5, <1>6 DEF HolesOK, WillBe
  <1> QED BY <1>1, <1>3, <1>4, <1>7 DEF MmInv

\* A step that leaves the list, the nodes and the holes alone
LEMMA QuietKeeps ==
    ASSUME MmInv, UNCHANGED <<colored, list, node, hole, stack, scanned>>, MmTypes',
           ask' = NoAsk => scanned' = <<>>
    PROVE  MmInv' /\ Owned' = Owned
  <1>1. Owned' = Owned
    BY DEF Owned, OffList
  <1>2. RangesOK' /\ HolesOK'
    BY <1>1 DEF MmInv, RangesOK, HolesOK
  <1>3. ScanOK'
    BY DEF MmInv, ScanOK
  <1> QED BY <1>1, <1>2, <1>3 DEF MmInv

\* A placed node completes a step of GetBlock or of Refill.
LEMMA PlaceKeeps ==
    ASSUME MmAssumption, MmInv, NEW n, NEW r, Inserted(n, r),
           marked' \subseteq Nodes, unused' \in 0 .. Target, ask' \in Requests \cup {NoAsk},
           hit' \in [start : Nat, end : Nat]
    PROVE  MmInv'
  <1>1. /\ list' \in Seq(Nodes) /\ stack' \in Seq(Nodes \cup {HeadNode})
        /\ hole' \subseteq Nodes \cup {HeadNode} /\ RangesOK' /\ HolesOK'
    BY InsertKeeps
  <1>2. node' \in [Nodes -> [start : 0 .. End, size : 0 .. End, color : Nat]]
    BY InsertedIs
  <1>3. scanned' = <<>> /\ colored' \in BOOLEAN /\ scanned' \in Seq(RecordType)
    BY DEF Inserted, MmInv, MmTypes
  <1>4. MmTypes'
    BY <1>1, <1>2, <1>3 DEF MmTypes
  <1>5. ScanOK'
    BY <1>3 DEF ScanOK, Scans
  <1> QED BY <1>1, <1>4, <1>5 DEF MmInv

\* The number of spare nodes stays within its bounds.
LEMMA SpareCount ==
    ASSUME MmAssumption, MmTypes, Kmalloc
    PROVE  unused' \in 0 .. Target
  BY DEF MmAssumption, MmTypes, Kmalloc

\* GetBlock places a node.
LEMMA GetInserts ==
    ASSUME MmInv, NEW n \in Nodes, NEW r \in Requests, GetBlock(n, r)
    PROVE  Inserted(n, r)
  BY DEF GetBlock, Inserted, Allocated, Owned, MmInv, ScanOK

\* Refill places a node, for what the scan was asked.
LEMMA RefillInserts ==
    ASSUME MmInv, NEW n \in Nodes, Refill(n)
    PROVE  Inserted(n, ask) /\ ask \in Requests
  BY DEF Refill, Inserted, Allocated, Owned, MmInv, MmTypes

\* Every call keeps the invariant.
LEMMA StepKeeps ==
    ASSUME MmAssumption, MmInv, [MmNext]_mmVars
    PROVE  MmInv'
  <1>0. MmTypes /\ ScanOK /\ Target \in Nat /\ HeadNode \notin Nodes
    BY DEF MmInv, MmAssumption
  <1>1. ASSUME NEW n \in Nodes, NEW r \in Requests, GetBlock(n, r) PROVE MmInv'
    <2>1. Inserted(n, r)
      BY <1>1, GetInserts
    <2>2. marked' = marked /\ ask' = ask /\ hit' = hit /\ Kmalloc
      BY <1>1 DEF GetBlock
    <2>3. unused' \in 0 .. Target
      BY <1>0, <2>2, SpareCount
    <2>4. marked' \subseteq Nodes /\ ask' \in Requests \cup {NoAsk} /\ hit' \in [start : Nat, end : Nat]
      BY <1>0, <2>2 DEF MmTypes
    <2> QED BY <2>1, <2>3, <2>4, PlaceKeeps
  <1>2. ASSUME NEW n \in Nodes, Refill(n) PROVE MmInv'
    <2>1. Inserted(n, ask)
      BY <1>2, RefillInserts
    <2>2. marked' = marked /\ ask' = NoAsk /\ hit' = NoHit /\ Kmalloc
      BY <1>2 DEF Refill
    <2>3. unused' \in 0 .. Target
      BY <1>0, <2>2, SpareCount
    <2>4. marked' \subseteq Nodes /\ ask' \in Requests \cup {NoAsk} /\ hit' \in [start : Nat, end : Nat]
      BY <1>0, <2>2 DEF MmTypes, NoHit
    <2> QED BY <2>1, <2>3, <2>4, PlaceKeeps
  <1>3. ASSUME NEW n \in Nodes, PutBlock(n) PROVE MmInv'
    <2>1. /\ list' \in Seq(Nodes) /\ stack' \in Seq(Nodes \cup {HeadNode})
          /\ hole' \subseteq Nodes \cup {HeadNode}
          /\ node' \in [Nodes -> [start : 0 .. End, size : 0 .. End, color : Nat]]
          /\ scanned' = <<>> /\ RangesOK' /\ HolesOK'
      BY <1>3, RemoveKeeps
    <2>2. /\ marked' = marked \ {n} /\ ask' = ask /\ hit' = hit /\ colored' = colored
          /\ unused' = IF unused < Target THEN unused + 1 ELSE unused
      BY <1>3 DEF PutBlock
    <2>3. MmTypes'
      BY <1>0, <2>1, <2>2 DEF MmTypes
    <2>4. ScanOK'
      BY <2>1 DEF ScanOK, Scans
    <2> QED BY <2>1, <2>3, <2>4 DEF MmInv
  <1>4. ASSUME NEW n \in Nodes, ScanAddBlock(n) PROVE MmInv'
    BY <1>4, AddKeeps
  <1>5. ASSUME ScanRemoveBlock PROVE MmInv'
    BY <1>5, BackKeeps
  <1>6. ASSUME NEW r \in Requests, InitScan(r) PROVE MmInv'
    <2>1. /\ UNCHANGED <<colored, list, node, hole, stack, scanned, unused>>
          /\ ask' = r /\ hit' = NoHit /\ marked' = {} /\ ask = NoAsk
      BY <1>6 DEF InitScan
    <2>2. MmTypes'
      BY <1>0, <2>1 DEF MmTypes, NoHit
    <2>3. scanned' = <<>>
      BY <1>0, <2>1 DEF ScanOK
    <2> QED BY <2>1, <2>2, <2>3, QuietKeeps
  <1>7. ASSUME PreGet PROVE MmInv'
    <2>1. /\ UNCHANGED <<colored, list, node, hole, stack, scanned, ask, hit, marked>>
          /\ unused' \in unused .. Target
      BY <1>7 DEF PreGet
    <2>2. MmTypes'
      BY <1>0, <2>1 DEF MmTypes
    <2>3. ask' = NoAsk => scanned' = <<>>
      BY <1>0, <2>1 DEF ScanOK
    <2> QED BY <2>1, <2>2, <2>3, QuietKeeps
  <1>8. ASSUME Takedown PROVE MmInv'
    <2>1. /\ UNCHANGED <<colored, list, node, scanned, ask, hit, marked>>
          /\ ask = NoAsk /\ list = <<>> /\ unused' = 0
          /\ hole' = {HeadNode} /\ stack' = <<HeadNode>>
      BY <1>8 DEF Takedown
    <2>2. scanned = <<>>
      BY <1>0, <2>1 DEF ScanOK
    <2>3. Owned = {} /\ Owned' = {}
      BY <2>1, <2>2 DEF Owned, OffList, ToSet
    <2>4. MmTypes'
      BY <1>0, <2>1 DEF MmTypes
    <2>5. ScanOK'
      BY <2>1, <2>2 DEF ScanOK, Scans
    <2>6. RangesOK'
      BY <2>1, <2>3 DEF MmInv, RangesOK
    <2>7. FreeOf(node', Owned') = {HeadNode}
      BY <2>3, HeadEnds DEF FreeOf, Free, MmAssumption
    <2>8. ToSet(stack') = {HeadNode} /\ Injective(stack')
      BY <2>1 DEF ToSet, Injective
    <2>9. HolesOK'
      BY <2>1, <2>2, <2>7, <2>8 DEF HolesOK, WillBe
    <2> QED BY <2>4, <2>5, <2>6, <2>9 DEF MmInv
  <1>9. ASSUME UNCHANGED mmVars PROVE MmInv'
    <2>1. UNCHANGED <<colored, list, node, hole, stack, scanned, ask, hit, marked, unused>>
      BY <1>9 DEF mmVars
    <2>2. MmTypes'
      BY <1>0, <2>1 DEF MmTypes
    <2>3. ask' = NoAsk => scanned' = <<>>
      BY <1>0, <2>1 DEF ScanOK
    <2> QED BY <2>1, <2>2, <2>3, QuietKeeps
  <1> QED BY <1>1, <1>2, <1>3, <1>4, <1>5, <1>6, <1>7, <1>8, <1>9 DEF MmNext

\* The list is in address order, the ranges are apart, what the scan remembers
\* is right, and the holes are known, in every state.
THEOREM MmInvariant == ASSUME MmAssumption PROVE MmSpec => []MmInv
  <1>1. MmInit => MmInv
    BY InitInv
  <1>2. MmInv /\ [MmNext]_mmVars => MmInv'
    BY StepKeeps
  <1> QED BY <1>1, <1>2, PTL DEF MmSpec

-----------------------------------------------------------------------------
(* The refinement                                                          *)

Taken == [n \in Nodes |-> IF Allocated(n)
              THEN [lo |-> node[n].start, hi |-> node[n].start + node[n].size]
              ELSE [lo |-> 0, hi |-> 0]]

\* An owned node has taken its range, any other one has taken nothing.
LEMMA TakenIs ==
    ASSUME NEW n \in Nodes
    PROVE  /\ n \in Owned => Taken[n] = [lo |-> node[n].start, hi |-> node[n].start + node[n].size]
           /\ n \notin Owned => Taken[n] = [lo |-> 0, hi |-> 0]
  BY DEF Taken, Owned, Allocated

\* The same after a step.
LEMMA TakenIsNext ==
    ASSUME NEW n \in Nodes
    PROVE  /\ n \in Owned' => Taken'[n] = [lo |-> node'[n].start, hi |-> node'[n].start + node'[n].size]
           /\ n \notin Owned' => Taken'[n] = [lo |-> 0, hi |-> 0]
  BY DEF Taken, Owned, Allocated

\* A placed node takes a range that is nobody's.
LEMMA InsertTakes ==
    ASSUME MmAssumption, MmInv, NEW n, NEW r, Inserted(n, r)
    PROVE  Ranges!Next
  <1>0. HeadNode \notin Nodes /\ End \in Nat /\ n \in Nodes /\ n \notin Owned
    BY DEF Inserted, MmAssumption
  <1>1. Owned' = Owned \cup {n} /\ RangesOK'
    BY InsertKeeps
  <1>2. /\ node' \in [Nodes -> [start : 0 .. End, size : 0 .. End, color : Nat]]
        /\ \A m \in Nodes : m # n => node'[m] = node[m]
    BY InsertedIs
  <1>3. node' \in Spans /\ Owned \in SUBSET Nodes /\ node \in Spans
    BY <1>2, OwnedTypes, NodeTypes DEF Spans, MmInv
  <1>4. /\ node'[n].start \in Nat /\ node'[n].size \in Nat /\ node'[n].size > 0
        /\ node'[n].start + node'[n].size = EndOf(node', n) /\ EndOf(node', n) <= End
    BY <1>0, <1>1, <1>3, SpanTypes DEF RangesOK, Solid
  <1>5. Taken[n] = [lo |-> 0, hi |-> 0]
    BY <1>0, TakenIs
  <1>6. Taken'[n] = [lo |-> node'[n].start, hi |-> node'[n].start + node'[n].size]
    BY <1>0, <1>1, TakenIsNext
  <1>7. Taken'[n] \in Ranges!Ranges /\ Taken'[n].lo < Taken'[n].hi
    BY <1>0, <1>4, <1>6 DEF Ranges!Ranges
  <1>8. ASSUME NEW m \in Nodes \ {n} PROVE Taken'[m] = Taken[m] /\ ~Ranges!Overlap(Taken'[n], Taken[m])
    <2>1. CASE m \in Owned
      <3>1. Taken[m] = [lo |-> node[m].start, hi |-> node[m].start + node[m].size]
        BY <2>1, TakenIs
      <3>2. Taken'[m] = [lo |-> node'[m].start, hi |-> node'[m].start + node'[m].size]
        BY <2>1, <1>1, TakenIsNext
      <3>3. node'[m] = node[m]
        BY <1>2
      <3>4. EndOf(node', m) <= node'[n].start \/ EndOf(node', n) <= node'[m].start
        BY <2>1, <1>1 DEF RangesOK, Apart
      <3>5. /\ node[m].start \in Nat /\ node[m].size \in Nat
            /\ EndOf(node', m) = node[m].start + node[m].size
        BY <3>3, <1>0, <1>3, SpanTypes
      <3>6. Taken'[n].lo = node'[n].start /\ Taken'[n].hi = EndOf(node', n)
            /\ Taken[m].lo = node[m].start /\ Taken[m].hi = EndOf(node', m)
        BY <1>4, <1>6, <3>1, <3>5
      <3> QED BY <3>1, <3>2, <3>3, <3>4, <3>5, <3>6, <1>4 DEF Ranges!Overlap
    <2>2. CASE m \notin Owned
      <3>1. Taken[m] = [lo |-> 0, hi |-> 0] /\ Taken'[m] = [lo |-> 0, hi |-> 0]
        BY <2>2, <1>1, TakenIs, TakenIsNext
      <3> QED BY <3>1, <1>4, <1>6 DEF Ranges!Overlap
    <2> QED BY <2>1, <2>2
  <1>9. Ranges!Take(n)
    BY <1>5, <1>7, <1>8 DEF Ranges!Take, Ranges!Empty, Taken
  <1> QED BY <1>0, <1>9 DEF Ranges!Next

\* A node that is put gives its range back.
LEMMA PutGives ==
    ASSUME MmAssumption, MmInv, NEW n \in Nodes, PutBlock(n)
    PROVE  Ranges!Next
  <1>1. n \in Owned /\ Owned' = Owned \ {n} /\ \A m \in Nodes : m # n => node'[m] = node[m]
    BY RemoveKeeps
  <1>2. node[n].start \in Nat /\ node[n].size \in Nat /\ node[n].size > 0
    BY <1>1, NodeTypes, SpanTypes DEF MmInv, RangesOK, Solid
  <1>3. Taken[n] # [lo |-> 0, hi |-> 0]
    <2>1. Taken[n] = [lo |-> node[n].start, hi |-> node[n].start + node[n].size]
      BY <1>1, TakenIs
    <2>2. Taken[n].hi = node[n].start + node[n].size
      BY <2>1
    <2>3. Taken[n].hi # 0
      BY <2>2, <1>2
    <2> QED BY <2>3
  <1>4. \A m \in Nodes : Taken'[m] = IF m = n THEN [lo |-> 0, hi |-> 0] ELSE Taken[m]
    <2>1. ASSUME NEW m \in Nodes, m # n PROVE Taken'[m] = Taken[m]
      <3>1. node'[m] = node[m] /\ (m \in Owned' <=> m \in Owned)
        BY <1>1, <2>1
      <3>2. CASE m \in Owned
        BY <3>1, <3>2, TakenIs, TakenIsNext
      <3>3. CASE m \notin Owned
        BY <3>1, <3>3, TakenIs, TakenIsNext
      <3> QED BY <3>2, <3>3
    <2>2. Taken'[n] = [lo |-> 0, hi |-> 0]
      BY <1>1, TakenIsNext
    <2> QED BY <2>1, <2>2
  <1>5. Taken' = [Taken EXCEPT ![n] = [lo |-> 0, hi |-> 0]]
    <2>1. DOMAIN Taken = Nodes /\ DOMAIN Taken' = Nodes /\ Taken = [m \in Nodes |-> Taken[m]]
          /\ Taken' = [m \in Nodes |-> Taken'[m]]
      BY DEF Taken
    <2> QED BY <2>1, <1>4
  <1>6. Ranges!Give(n)
    BY <1>3, <1>5 DEF Ranges!Give, Ranges!Empty, Taken
  <1> QED BY <1>6 DEF Ranges!Next

\* Whatever else happens, what is owned stays where it is.
LEMMA OthersKeep ==
    ASSUME Owned' = Owned, node' = node
    PROVE  Taken' = Taken
  BY DEF Taken, Owned, Allocated

\* Every call takes a free range, gives one back, or changes nobody's.
LEMMA StepImplements ==
    ASSUME MmAssumption, MmInv, [MmNext]_mmVars
    PROVE  Ranges!Next \/ Taken' = Taken
  <1>0. ScanOK /\ MmTypes
    BY DEF MmInv
  <1>1. ASSUME NEW n \in Nodes, NEW r \in Requests, GetBlock(n, r) PROVE Ranges!Next
    BY <1>1, GetInserts, InsertTakes
  <1>2. ASSUME NEW n \in Nodes, Refill(n) PROVE Ranges!Next
    BY <1>2, RefillInserts, InsertTakes
  <1>3. ASSUME NEW n \in Nodes, PutBlock(n) PROVE Ranges!Next
    BY <1>3, PutGives
  <1>4. ASSUME NEW n \in Nodes, ScanAddBlock(n) PROVE Taken' = Taken
    BY <1>4, AddKeeps, OthersKeep
  <1>5. ASSUME ScanRemoveBlock PROVE Taken' = Taken
    BY <1>5, BackKeeps, OthersKeep
  <1>6. ASSUME \/ \E r \in Requests : InitScan(r)
               \/ PreGet \/ Takedown \/ UNCHANGED mmVars
        PROVE  Taken' = Taken
    <2>1. list' = list /\ scanned' = scanned /\ node' = node
      BY <1>6 DEF InitScan, PreGet, Takedown, mmVars
    <2> QED BY <2>1, OthersKeep DEF Owned, OffList
  <1> QED BY <1>1, <1>2, <1>3, <1>4, <1>5, <1>6 DEF MmNext

\* The allocator implements the set of disjoint ranges: a placed node takes a
\* range that is nobody's, a node that is put gives it back, and a scan, which
\* takes nodes off the list and puts them back, changes nobody's.
THEOREM RangesOwned == ASSUME MmAssumption PROVE MmSpec => OwnRanges
  <1>1. MmInit => Ranges!Init
    <2> SUFFICES ASSUME MmInit PROVE Ranges!Init
      OBVIOUS
    <2>1. Owned = {}
      BY NothingOff DEF MmInit, ToSet
    <2>2. \A n \in Nodes : Taken[n] = [lo |-> 0, hi |-> 0]
      BY <2>1, TakenIs
    <2>3. Taken = [n \in Nodes |-> [lo |-> 0, hi |-> 0]]
      <3>1. Taken = [n \in Nodes |-> Taken[n]]
        BY DEF Taken
      <3> QED BY <2>2, <3>1
    <2> QED BY <2>3 DEF Ranges!Init, Ranges!Empty, Taken
  <1>2. MmInv /\ [MmNext]_mmVars => [Ranges!Next]_Taken
    BY StepImplements
  <1>3. MmSpec => []MmInv
    BY MmInvariant
  <1>4. MmSpec => Ranges!Init /\ [][Ranges!Next]_Taken
    BY <1>1, <1>2, <1>3, PTL DEF MmSpec
  <1>5. Ranges!Init /\ [][Ranges!Next]_Taken => Ranges!Spec
    BY DEF Ranges!Spec, Taken
  <1> QED BY <1>4, <1>5 DEF OwnRanges

-----------------------------------------------------------------------------
(* Holes, colours and searches                                             *)

\* The space after a node of the list is free exactly when the next one does
\* not begin where it ends.
LEMMA FreeIsGap ==
    ASSUME MmAssumption, MmTypes, RangesOK, scanned = <<>>, NEW n \in ToSet(list) \cup {HeadNode}
    PROVE  n \in FreeOf(node, Owned) <=> HoleStart(n) < HoleEnd(list, n)
  <1> DEFINE L == ToSet(list)
             e == HoleEnd(list, n)
             x == NextIn(list, n)
  <1>0. HeadNode \notin Nodes /\ End \in Nat
    BY DEF MmAssumption
  <1>1. Owned = L /\ L \in SUBSET Nodes
    BY NothingOff, OwnedTypes
  <1>2. node \in Spans /\ list \in Seq(Nodes) /\ Sorted(node, list) /\ Solid(node, L)
    BY ListOK
  <1>3. /\ x \in L \cup {HeadNode} /\ (x = HeadNode => e = End)
        /\ (x # HeadNode => e = node[x].start)
        /\ e \in Nat /\ e <= End /\ EndOf(node, n) <= e
        /\ \A m \in L : EndOf(node, m) <= EndOf(node, n) \/ e <= node[m].start
    BY <1>2, HoleIs
  <1>4. HoleStart(n) = EndOf(node, n)
    BY DEF HoleStart, EndOf
  <1>5. EndOf(node, n) \in Nat
    BY <1>0, <1>1, <1>2, EndIsNat
  <1>6. \A m \in L : node[m].start \in Nat /\ node[m].size \in Nat /\ node[m].size > 0
                     /\ EndOf(node, m) = node[m].start + node[m].size
    BY <1>0, <1>1, <1>2, SpanTypes DEF Solid
  <1> HIDE DEF L, e, x
  <1>7. n \in FreeOf(node, Owned) <=> Free(node, L, n)
    BY <1>1 DEF FreeOf, L
  <1>8. ASSUME Free(node, L, n) PROVE EndOf(node, n) < e
    BY <1>0, <1>3, <1>5, <1>8 DEF Free
  <1>9. ASSUME EndOf(node, n) < e PROVE Free(node, L, n)
    <2>1. EndOf(node, n) < End
      BY <1>0, <1>3, <1>5, <1>9
    <2>2. ASSUME NEW m \in L PROVE node[m].start # EndOf(node, n)
      BY <1>3, <1>5, <1>6, <1>9
    <2> QED BY <2>1, <2>2 DEF Free
  <1> QED BY <1>4, <1>7, <1>8, <1>9 DEF e

\* What hole_follows says: the invariant, when no scan is going on.
LEMMA HolesAreExact ==
    ASSUME MmAssumption, MmInv
    PROVE  HolesExact
  <1> SUFFICES ASSUME scanned = <<>>
               PROVE  /\ hole = {n \in ToSet(list) \cup {HeadNode} : HoleStart(n) < HoleEnd(list, n)}
                      /\ ToSet(stack) = hole
                      /\ \A i, j \in DOMAIN stack : stack[i] = stack[j] => i = j
    BY DEF HolesExact
  <1>1. Owned = ToSet(list) /\ DOMAIN scanned = {} /\ ToSet(list) \in SUBSET Nodes
    BY NothingOff, OwnedTypes DEF MmInv
  <1>2. /\ \A n \in Nodes \cup {HeadNode} : n \in hole <=> n \in FreeOf(node, Owned)
        /\ hole \subseteq Nodes \cup {HeadNode}
        /\ ToSet(stack) = FreeOf(node, Owned) /\ Injective(stack)
    BY <1>1 DEF MmInv, HolesOK, MmTypes, WillBe
  <1>3. FreeOf(node, Owned) \subseteq ToSet(list) \cup {HeadNode}
    BY <1>1 DEF FreeOf
  <1>4. hole = FreeOf(node, Owned)
    BY <1>1, <1>2, <1>3
  <1>5. \A n \in ToSet(list) \cup {HeadNode} :
            n \in FreeOf(node, Owned) <=> HoleStart(n) < HoleEnd(list, n)
    BY FreeIsGap DEF MmInv
  <1> QED BY <1>2, <1>3, <1>4, <1>5 DEF Injective

\* Colours keep apart on the list as they do among the owned nodes.
LEMMA ColorsAreApart ==
    ASSUME MmAssumption, MmInv
    PROVE  ColorsApart
  <1> SUFFICES ASSUME colored, NEW m \in ToSet(list), NEW n \in ToSet(list),
                      node[m].start + node[m].size = node[n].start
               PROVE  node[m].color = node[n].color
    BY DEF ColorsApart
  <1>1. m \in Owned /\ n \in Owned /\ m \in Nodes /\ n \in Nodes
    BY OwnedTypes DEF Owned, MmInv
  <1>2. EndOf(node, m) = node[n].start
    BY <1>1 DEF EndOf, MmAssumption
  <1> QED BY <1>1, <1>2 DEF MmInv, RangesOK, Tinted

\* What is a number of alignments is aligned.
LEMMA AlignedIs ==
    ASSUME NEW a \in Nat \ {0}, NEW k \in Nat, NEW t, t = a * k
    PROVE  t % a = 0
  <1> DEFINE q == t \div a
             m == t % a
  <1>1. t \in Nat
    OBVIOUS
  <1>2. m \in 0 .. a - 1 /\ t = a * q + m /\ q \in Nat
    BY <1>1
  <1> HIDE DEF q, m
  <1>3. k >= q + 1 \/ k = q \/ k + 1 <= q
    BY <1>2
  <1>4. ASSUME k >= q + 1 PROVE m = 0
    <2>1. a * (k - (q + 1)) \in Nat /\ a * (k - (q + 1)) = a * k - (a * q + a)
      <3>1. k - (q + 1) \in Nat
        BY <1>2, <1>4
      <3> QED BY <3>1, <1>2
    <2>2. a * k \in Nat /\ a * q \in Nat
      BY <1>2
    <2> QED BY <1>2, <2>1, <2>2
  <1>5. ASSUME k = q PROVE m = 0
    <2>1. a * k = a * q /\ a * k \in Nat
      BY <1>5
    <2> QED BY <1>2, <2>1
  <1>6. ASSUME k + 1 <= q PROVE m = 0
    <2>1. a * (q - (k + 1)) \in Nat /\ a * (q - (k + 1)) = a * q - (a * k + a)
      <3>1. q - (k + 1) \in Nat
        BY <1>2, <1>6
      <3> QED BY <3>1, <1>2
    <2>2. a * k \in Nat /\ a * q \in Nat
      BY <1>2
    <2> QED BY <1>2, <2>1, <2>2
  <1>7. m = 0
    BY <1>3, <1>4, <1>5, <1>6
  <1> QED BY <1>7 DEF m

\* Aligning twice is aligning once.
LEMMA AlignTwice ==
    ASSUME NEW s \in Nat, NEW a \in Nat
    PROVE  Align(Align(s, a), a) = Align(s, a)
  <1>1. CASE a = 0 \/ s % a = 0
    BY <1>1 DEF Align
  <1>2. CASE a # 0 /\ s % a # 0
    <2> DEFINE t == s + a - (s % a)
    <2>1. Align(s, a) = t
      BY <1>2 DEF Align
    <2>2. s % a \in 0 .. a - 1 /\ s = a * (s \div a) + (s % a) /\ s \div a \in Nat
      BY <1>2
    <2>3. t = a * (s \div a) + a
      BY <2>2
    <2>4. t = a * ((s \div a) + 1) /\ t \in Nat
      BY <2>2, <2>3
    <2> HIDE DEF t
    <2>5. t % a = 0
      <3>1. a \in Nat \ {0} /\ (s \div a) + 1 \in Nat
        BY <1>2, <2>2
      <3> QED BY <3>1, <2>4, AlignedIs
    <2> QED BY <2>1, <2>5 DEF Align
  <1> QED BY <1>1, <1>2

\* What is aligned and not below u is not below u aligned.
LEMMA AlignLeast ==
    ASSUME NEW s \in Nat, NEW u \in Nat, NEW a \in Nat, u <= s, s = Align(s, a)
    PROVE  Align(u, a) <= s
  <1>1. CASE a = 0 \/ u % a = 0
    BY <1>1 DEF Align
  <1>2. CASE a # 0 /\ u % a # 0
    <2>1. s % a \in 0 .. a - 1 /\ u % a \in 1 .. a - 1
      BY <1>2
    <2>2. s % a = 0
      BY <1>2, <2>1 DEF Align
    <2> DEFINE k == s \div a
               q == u \div a
    <2>3. s = a * k /\ k \in Nat
      BY <1>2, <2>2
    <2>4. u = a * q + (u % a) /\ q \in Nat
      BY <1>2
    <2> HIDE DEF k, q
    <2>5. k > q
      <3> SUFFICES ASSUME k <= q PROVE FALSE
        BY <2>3, <2>4
      <3>1. a * k <= a * q
        BY <2>3, <2>4
      <3> QED BY <3>1, <2>1, <2>3, <2>4
    <2>6. a * k >= a * q + a
      <3>1. k - (q + 1) \in Nat
        BY <2>3, <2>4, <2>5
      <3>2. a * (k - (q + 1)) \in Nat
        BY <3>1
      <3>3. a * (k - (q + 1)) = a * k - (a * q + a)
        BY <2>3, <2>4
      <3>4. a * k \in Nat /\ a * q \in Nat
        BY <2>3, <2>4
      <3> QED BY <3>2, <3>3, <3>4
    <2>7. Align(u, a) = u + a - (u % a)
      BY <1>2 DEF Align
    <2> QED BY <2>1, <2>3, <2>4, <2>6, <2>7
  <1> QED BY <1>1, <1>2

\* A search that succeeds has found a place.
LEMMA FitIsPlace ==
    ASSUME MmAssumption, MmInv, scanned = <<>>, NEW r \in Requests, NEW h \in ToSet(stack),
           Fits(h, r)
    PROVE  \E s \in 0 .. End : Place(s, r)
  <1> DEFINE u == Usable(list, h, r)
             s == Align(u[1], r.align)
             e == HoleEnd(list, h)
             L == ToSet(list)
  <1>0. HeadNode \notin Nodes /\ End \in Nat /\ r \in Wanted /\ MmTypes /\ RangesOK
        /\ colored \in BOOLEAN
    BY DEF MmAssumption, Wanted, MmInv, MmTypes
  <1>1. Owned = L /\ L \in SUBSET Nodes
    BY <1>0, NothingOff, OwnedTypes
  <1>2. node \in Spans /\ list \in Seq(Nodes) /\ Sorted(node, list) /\ Solid(node, L)
    BY <1>0, ListOK
  <1>3. h \in L \cup {HeadNode} /\ h \in Nodes \cup {HeadNode}
    BY <1>1 DEF MmInv, HolesOK, FreeOf
  <1>4. /\ e \in Nat /\ e <= End
        /\ \A m \in L : EndOf(node, m) <= EndOf(node, h) \/ e <= node[m].start
    BY <1>2, <1>3, HoleIs
  <1>5. /\ u[1] \in Nat /\ u[2] \in Int /\ u[1] >= EndOf(node, h) /\ u[1] >= r.lo
        /\ u[2] <= e /\ u[2] <= r.hi
    BY <1>0, <1>2, <1>3, <1>4, UsableIs
  <1>6. u[2] >= s + r.size
    BY DEF Fits, CheckFreeHole
  <1>7. r.align \in Nat /\ r.size \in Nat /\ r.size > 0 /\ r.lo \in Nat /\ r.hi \in Nat
    BY <1>0 DEF Wanted
  <1>8. s \in Nat /\ s >= u[1] /\ Align(s, r.align) = s
    BY <1>5, <1>7, AlignUp, AlignTwice
  <1>9. EndOf(node, h) \in Nat
    BY <1>0, <1>2, <1>3, EndIsNat
  <1>10. \A m \in L : node[m].start \in Nat /\ node[m].size \in Nat
                      /\ EndOf(node, m) = node[m].start + node[m].size
    BY <1>0, <1>1, <1>2, SpanTypes
  <1> HIDE DEF u, s, e
  <1>11. s + r.size <= r.hi /\ s + r.size <= End /\ s \in 0 .. End /\ s >= r.lo
    BY <1>0, <1>4, <1>5, <1>6, <1>7, <1>8
  <1>12. \A m \in L : s + r.size <= node[m].start \/ node[m].start + node[m].size <= s
    BY <1>4, <1>5, <1>6, <1>7, <1>8, <1>9, <1>10, SMTT(40)
  <1>13. Place(s, r)
    BY <1>0, <1>7, <1>8, <1>11, <1>12 DEF Place, Smaller, L
  <1> QED BY <1>11, <1>13

\* Where there is a place, there is a hole on the stack that fits: the one after
\* the last node before it.
LEMMA PlaceIsFit ==
    ASSUME MmAssumption, MmInv, scanned = <<>>, ~colored, NEW r \in Requests, NEW s \in 0 .. End,
           Place(s, r)
    PROVE  \E h \in ToSet(stack) : Fits(h, r)
  <1> DEFINE L == ToSet(list)
             B == {x \in L \cup {HeadNode} : EndOf(node, x) <= s}
             D == {s - EndOf(node, x) : x \in B}
  <1>0. HeadNode \notin Nodes /\ End \in Nat /\ r \in Wanted /\ MmTypes /\ RangesOK
        /\ colored \in BOOLEAN /\ s \in Nat
    BY DEF MmAssumption, Wanted, MmInv, MmTypes
  <1>1. Owned = L /\ L \in SUBSET Nodes
    BY <1>0, NothingOff, OwnedTypes
  <1>2. node \in Spans /\ list \in Seq(Nodes) /\ Sorted(node, list) /\ Solid(node, L)
    BY <1>0, ListOK
  <1>3. \A x \in L \cup {HeadNode} : EndOf(node, x) \in Nat
    BY <1>0, <1>1, <1>2, EndIsNat
  <1>4. \A m \in L : node[m].start \in Nat /\ node[m].size \in Nat /\ node[m].size > 0
                     /\ EndOf(node, m) = node[m].start + node[m].size
    BY <1>0, <1>1, <1>2, SpanTypes DEF Solid
  <1>5. r.align \in Nat /\ r.size \in Nat /\ r.size > 0 /\ r.lo \in Nat /\ r.hi \in Nat
    BY <1>0 DEF Wanted
  <1>6. /\ s >= r.lo /\ s + r.size <= r.hi /\ s + r.size <= End /\ s = Align(s, r.align)
        /\ \A m \in L : s + r.size <= node[m].start \/ EndOf(node, m) <= s
    <2>1. s + r.size <= r.hi /\ s + r.size <= End
      BY <1>0, <1>5 DEF Place, Smaller
    <2> QED BY <2>1, <1>4 DEF Place, L
  <1>7. PICK h \in B : \A x \in B : EndOf(node, x) <= EndOf(node, h)
    <2>1. D \in SUBSET Nat
      BY <1>0, <1>3
    <2>2. HeadNode \in B
      BY <1>0, HeadEnds
    <2>3. D # {}
      BY <2>2
    <2>4. PICK d \in D : \A k \in D : d <= k
      <3> HIDE DEF D
      <3> QED BY <2>1, <2>3, LeastOf
    <2>5. PICK h \in B : d = s - EndOf(node, h)
      BY <2>4
    <2>6. ASSUME NEW x \in B PROVE EndOf(node, x) <= EndOf(node, h)
      <3>1. s - EndOf(node, h) <= s - EndOf(node, x)
        BY <2>4, <2>5
      <3>2. EndOf(node, h) \in Nat /\ EndOf(node, x) \in Nat
        BY <1>3, <2>5
      <3> QED BY <1>0, <3>1, <3>2
    <2> QED BY <2>6
  <1> DEFINE e == HoleEnd(list, h)
             u == Usable(list, h, r)
  <1>8. h \in L \cup {HeadNode} /\ h \in Nodes \cup {HeadNode} /\ EndOf(node, h) <= s
        /\ EndOf(node, h) \in Nat
    BY <1>1, <1>3, <1>7
  <1>9. /\ NextIn(list, h) \in L \cup {HeadNode}
        /\ NextIn(list, h) = HeadNode => e = End
        /\ NextIn(list, h) # HeadNode => e = node[NextIn(list, h)].start
        /\ e \in Nat /\ e <= End /\ EndOf(node, h) <= e
    BY <1>2, <1>8, HoleIs
  <1> HIDE DEF e
  <1>10. s + r.size <= e
    <2>1. CASE NextIn(list, h) = HeadNode
      BY <2>1, <1>6, <1>9
    <2>2. CASE NextIn(list, h) # HeadNode
      <3> DEFINE x == NextIn(list, h)
      <3>1. x \in L /\ e = node[x].start
        BY <2>2, <1>9
      <3>2. ~ EndOf(node, x) <= s
        <4> SUFFICES ASSUME EndOf(node, x) <= s PROVE FALSE
          OBVIOUS
        <4>1. x \in B
          BY <3>1
        <4>2. EndOf(node, x) <= EndOf(node, h)
          BY <4>1, <1>7
        <4> HIDE DEF x
        <4> QED BY <3>1, <4>2, <1>4, <1>8, <1>9
      <3> QED BY <3>1, <3>2, <1>6
    <2> QED BY <2>1, <2>2
  <1>11. h \in ToSet(stack)
    <2>1. HoleStart(h) < HoleEnd(list, h)
      BY <1>0, <1>5, <1>8, <1>9, <1>10 DEF HoleStart, EndOf, e
    <2>2. h \in FreeOf(node, Owned)
      BY <1>0, <1>8, <2>1, FreeIsGap
    <2> QED BY <2>2 DEF MmInv, HolesOK
  <1>12. /\ u[1] \in Nat /\ u[2] \in Int
         /\ u[1] = EndOf(node, h) \/ u[1] = r.lo
         /\ u[2] = e \/ u[2] = r.hi
    BY <1>0, <1>2, <1>8, <1>9, UsableIs DEF e
  <1> HIDE DEF u
  <1>13. u[1] <= s /\ u[2] >= s + r.size
    BY <1>6, <1>8, <1>10, <1>12
  <1>14. Align(u[1], r.align) <= s /\ Align(u[1], r.align) \in Nat
    <2>1. Align(u[1], r.align) <= s
      BY <1>0, <1>5, <1>6, <1>12, <1>13, AlignLeast
    <2>2. Align(u[1], r.align) \in Nat
      BY <1>5, <1>12, AlignUp
    <2> QED BY <2>1, <2>2
  <1>15. CheckFreeHole(u, r)
    BY <1>0, <1>5, <1>12, <1>13, <1>14 DEF CheckFreeHole
  <1>16. Fits(h, r)
    BY <1>15 DEF Fits, u
  <1> QED BY <1>11, <1>16

\* The two together: drm_mm_search_free_in_range_generic fails only when there is no place.
LEMMA SearchesAreComplete ==
    ASSUME MmAssumption, MmInv
    PROVE  SearchComplete
  <1> SUFFICES ASSUME scanned = <<>>, ~colored, NEW r \in Requests
               PROVE  Search(r) = None <=> \A s \in 0 .. End : ~Place(s, r)
    BY DEF SearchComplete
  <1>1. Search(r) = None <=> Found(r) = {}
    <2>1. r.best \in BOOLEAN /\ node \in Spans /\ stack \in Seq(Nodes \cup {HeadNode})
      BY NodeTypes DEF MmAssumption, MmInv, MmTypes
    <2> QED BY <2>1, SearchIs
  <1>2. Found(r) = {} <=> \A h \in ToSet(stack) : ~Fits(h, r)
    BY DEF Found, ToSet
  <1> QED BY <1>1, <1>2, FitIsPlace, PlaceIsFit

-----------------------------------------------------------------------------
(* What a scan gains                                                       *)

\* What the scan has found lies between p and x, two nodes that stay: it is all
\* that a request may use when nothing else is left there.
EdgeOf(x) == IF x = HeadNode THEN End ELSE node[x].start
Between(p, x, r) ==
    LET below == colored /\ Color(p) # r.color
        above == colored /\ x # HeadNode /\ Color(x) # r.color
        s     == Larger(HoleStart(p), r.lo)
        e     == Smaller(EdgeOf(x), r.hi)
    IN  <<IF below THEN s + 1 ELSE s, IF above THEN e - 1 ELSE e>>

Inside(m) == hit.start <= node[m].start /\ EndOf(node, m) <= hit.end

\* The nodes within what was found are off the list or marked, no other one is
\* marked, and once they are gone the hole is on top.
Pays(p, x) ==
    /\ p \in (ToSet(list) \cup {HeadNode}) \ marked
    /\ x \in (ToSet(list) \cup {HeadNode}) \ marked
    /\ hit.start = HoleStart(p) /\ hit.end = EdgeOf(x) /\ hit.start < hit.end
    /\ CheckFreeHole(Between(p, x, ask), ask)
    /\ \A m \in marked : m \in ToSet(list) /\ Inside(m)
    /\ \A m \in Owned : Inside(m) => m \in OffList \cup marked
    /\ (\A m \in Owned : ~Inside(m)) => stack[1] = p

PaysInv == ask # NoAsk /\ hit # NoHit => \E p, x : Pays(p, x)

\* What may be used of a hole lies between its node and the next one.
LEMMA BetweenIs ==
    ASSUME NEW l, NEW p, NEW r
    PROVE  Usable(l, p, r) = Between(p, NextIn(l, p), r) /\ HoleEnd(l, p) = EdgeOf(NextIn(l, p))
  BY DEF Usable, ColorAdjust, Between, HoleEnd, EdgeOf

\* A node that begins before the edge ends before it, and one that ends after p
\* begins after it.
LEMMA AroundIs ==
    ASSUME MmAssumption, node \in Spans, NEW A \in SUBSET Nodes, Solid(node, A), Apart(node, A),
           NEW p \in A \cup {HeadNode}, NEW x \in A \cup {HeadNode},
           NEW m \in A, m # p, m # x
    PROVE  /\ node[m].start < EdgeOf(x) => EndOf(node, m) <= EdgeOf(x)
           /\ EndOf(node, m) > HoleStart(p) => HoleStart(p) <= node[m].start
  <1>0. HeadNode \notin Nodes /\ End \in Nat
    BY DEF MmAssumption
  <1>1. \A a \in A : node[a].start \in Nat /\ node[a].size \in Nat /\ node[a].size > 0
                     /\ EndOf(node, a) = node[a].start + node[a].size /\ EndOf(node, a) <= End
    BY <1>0, SpanTypes DEF Solid
  <1>2. ASSUME node[m].start < EdgeOf(x) PROVE EndOf(node, m) <= EdgeOf(x)
    <2>1. CASE x = HeadNode
      BY <2>1, <1>1 DEF EdgeOf
    <2>2. CASE x # HeadNode
      <3>1. x \in A /\ EdgeOf(x) = node[x].start
        BY <2>2 DEF EdgeOf
      <3>2. EndOf(node, m) <= node[x].start \/ EndOf(node, x) <= node[m].start
        BY <3>1 DEF Apart
      <3> QED BY <3>1, <3>2, <1>1, <1>2
    <2> QED BY <2>1, <2>2
  <1>3. ASSUME EndOf(node, m) > HoleStart(p) PROVE HoleStart(p) <= node[m].start
    <2>1. CASE p = HeadNode
      BY <2>1, <1>1 DEF HoleStart
    <2>2. CASE p # HeadNode
      <3>1. p \in A /\ HoleStart(p) = EndOf(node, p)
        BY <2>2 DEF HoleStart, EndOf
      <3>2. EndOf(node, m) <= node[p].start \/ EndOf(node, p) <= node[m].start
        BY <3>1 DEF Apart
      <3> QED BY <3>1, <3>2, <1>1, <1>3
    <2> QED BY <2>1, <2>2
  <1> QED BY <1>2, <1>3

\* A hit lies between the neighbours of the node that was taken off last.
LEMMA HitPays ==
    ASSUME MmAssumption, MmInv, NEW n \in Nodes, ScanAddBlock(n), hit' # NoHit
    PROVE  \E p, x : Pays(p, x)'
  <1> DEFINE L == ToSet(list)
  <1>a. PICK p : p = PrevIn(list, n)
    OBVIOUS
  <1>b. PICK l : l = Without(list, n)
    OBVIOUS
  <1>c. PICK x : x = NextIn(l, p)
    OBVIOUS
  <1>0. HeadNode \notin Nodes /\ End \in Nat /\ MmTypes /\ RangesOK /\ n \in L
    BY DEF MmAssumption, MmInv, ScanAddBlock
  <1>1. /\ node \in Spans /\ list \in Seq(Nodes) /\ Sorted(node, list) /\ Solid(node, L)
        /\ Injective(list) /\ L \in SUBSET Nodes
    BY <1>0, ListOK, OwnedTypes
  <1>2. Follows(node, L \ {n}, p, n)
    BY <1>0, <1>1, <1>a, PrevIs
  <1>3. /\ list' = l /\ hit' = [start |-> HoleStart(p), end |-> HoleEnd(l, p)]
        /\ CheckFreeHole(Usable(l, p, ask), ask)
        /\ colored' = colored /\ node' = node /\ stack' = stack /\ ask' = ask /\ marked' = {}
    BY <1>a, <1>b DEF ScanAddBlock
  <1>4. p \in (L \ {n}) \cup {HeadNode}
    BY <1>2 DEF Follows
  <1>5. l \in Seq(Nodes) /\ ToSet(l) = L \ {n} /\ Sorted(node, l)
    BY <1>0, <1>1, <1>b, WithoutIs, SortedWithout
  <1>6. Solid(node, L \ {n})
    BY <1>1, FewerRanges
  <1> HIDE DEF L
  <1>7. /\ x \in (L \ {n}) \cup {HeadNode} /\ EndOf(node, p) <= HoleEnd(l, p)
        /\ \A m \in L \ {n} : EndOf(node, m) <= EndOf(node, p) \/ HoleEnd(l, p) <= node[m].start
    BY <1>1, <1>4, <1>5, <1>6, <1>c, HoleIs
  <1>8. HoleEnd(l, p) = EdgeOf(x) /\ Usable(l, p, ask) = Between(p, x, ask)
    BY <1>c, BetweenIs
  <1>9. HoleStart(p) = EndOf(node, p) /\ EndOf(node, p) \in Nat
    <2>1. p \in Nodes \cup {HeadNode}
      BY <1>1, <1>4
    <2> QED BY <2>1, <1>0, <1>1, EndIsNat DEF HoleStart, EndOf
  <1>10. hit'.start = EndOf(node, p) /\ hit'.end = EdgeOf(x)
    BY <1>3, <1>8, <1>9
  <1>11. \A m \in L : node[m].start \in Nat /\ node[m].size \in Nat /\ node[m].size > 0
                      /\ EndOf(node, m) = node[m].start + node[m].size /\ EndOf(node, m) <= End
    BY <1>0, <1>1, SpanTypes DEF Solid
  <1>12. EndOf(node, p) <= node[n].start /\ EndOf(node, n) <= EdgeOf(x)
    <2>1. EndOf(node, p) <= node[n].start
      BY <1>2 DEF Follows
    <2>2. CASE x = HeadNode
      BY <2>1, <2>2, <1>0, <1>11 DEF EdgeOf
    <2>3. CASE x # HeadNode
      <3>1. x \in L \ {n} /\ EdgeOf(x) = node[x].start
        BY <2>3, <1>7 DEF EdgeOf
      <3>2. EndOf(node, x) <= EndOf(node, p) \/ EndOf(node, n) <= node[x].start
        BY <3>1, <1>2 DEF Follows
      <3> QED BY <2>1, <3>1, <3>2, <1>7, <1>8, <1>9, <1>11
    <2> QED BY <2>1, <2>2, <2>3
  <1>13. EdgeOf(x) \in Nat /\ EndOf(node, p) < EdgeOf(x)
    <2>1. EdgeOf(x) \in Nat
      BY <1>0, <1>7, <1>11 DEF EdgeOf
    <2> QED BY <2>1, <1>0, <1>9, <1>11, <1>12
  <1>14. Owned' = Owned /\ n \in Owned
    BY <1>0, AddKeeps DEF Owned, L
  <1>15. Inside(n)'
    BY <1>3, <1>10, <1>12 DEF Inside, EndOf
  <1>16. ASSUME NEW m \in Owned', Inside(m)' PROVE m \in OffList'
    <2> SUFFICES ASSUME m \in L \ {n} PROVE FALSE
      BY <1>3, <1>5 DEF Owned
    <2>1. EndOf(node, p) <= node[m].start /\ EndOf(node, m) <= EdgeOf(x)
      BY <1>3, <1>10, <1>16 DEF Inside, EndOf
    <2>2. EndOf(node, m) <= EndOf(node, p) \/ EdgeOf(x) <= node[m].start
      BY <1>7, <1>8
    <2> QED BY <2>1, <2>2, <1>9, <1>11, <1>13
  <1>17. HoleStart(p)' = HoleStart(p) /\ EdgeOf(x)' = EdgeOf(x)
         /\ CheckFreeHole(Between(p, x, ask), ask)'
    BY <1>3, <1>8 DEF HoleStart, EdgeOf, Between, Color, CheckFreeHole
  <1>18. Pays(p, x)'
    BY <1>3, <1>4, <1>5, <1>7, <1>9, <1>10, <1>13, <1>14, <1>15, <1>16, <1>17 DEF Pays
  <1> QED BY <1>18

\* A node that comes back is marked exactly when it lies in what was found.
LEMMA BackPays ==
    ASSUME MmAssumption, MmInv, ScanRemoveBlock, hit # NoHit, NEW p, NEW x, Pays(p, x)
    PROVE  Pays(p, x)'
  <1> DEFINE L == ToSet(list)
  <1>a. PICK t : t = Head(scanned)
    OBVIOUS
  <1>b. PICK n : n = t.node
    OBVIOUS
  <1>c. PICK l : l = After(list, t.prev, n)
    OBVIOUS
  <1>0. HeadNode \notin Nodes /\ End \in Nat /\ MmTypes /\ RangesOK /\ ScanOK /\ scanned # <<>>
    BY DEF MmAssumption, MmInv, ScanRemoveBlock
  <1>1. /\ node \in Spans /\ list \in Seq(Nodes) /\ Sorted(node, list) /\ Solid(node, L)
        /\ L \in SUBSET Nodes /\ Owned \in SUBSET Nodes
    BY <1>0, ListOK, OwnedTypes
  <1>2. /\ list' = l /\ scanned' = Tail(scanned)
        /\ marked' = IF InHit(l, n) THEN marked \cup {n} ELSE marked
        /\ ask' = ask
        /\ colored' = colored /\ node' = node /\ stack' = stack /\ hit' = hit
    BY <1>a, <1>b, <1>c DEF ScanRemoveBlock
  <1>3. scanned \in Seq(RecordType)
    BY <1>0 DEF MmTypes
  <1>4. /\ t \in RecordType /\ Tail(scanned) \in Seq(RecordType) /\ t = scanned[1]
        /\ Len(Tail(scanned)) = Len(scanned) - 1 /\ Len(scanned) \in Nat \ {0}
        /\ \A k \in 1 .. Len(Tail(scanned)) : Tail(scanned)[k] = scanned[k + 1]
    BY <1>0, <1>3, <1>a, HeadTailProperties, EmptySeq, LenProperties
  <1>5. n \in Nodes /\ t.prev \in Nodes \cup {HeadNode}
    BY <1>4, <1>b DEF RecordType
  <1> HIDE DEF L
  <1>6. Shifted(scanned', scanned, t)
    BY <1>2, <1>3, <1>4 DEF Shifted
  <1>7. n \notin L /\ Follows(node, L, t.prev, n)
    <2>1. Scans(node, L, scanned)
      BY <1>0 DEF ScanOK, L
    <2>2. 1 \in DOMAIN scanned
      BY <1>4
    <2>3. n \notin L
      BY <2>1, <2>2, <1>4, <1>b DEF Scans
    <2> QED BY <2>1, <2>3, <1>6, <1>b, ShiftScans
  <1>8. l \in Seq(Nodes) /\ ToSet(l) = L \cup {n} /\ Sorted(node, l)
    BY <1>0, <1>1, <1>5, <1>7, <1>c, SortedAfter DEF L
  <1>9. OffList = OffList' \cup {n} /\ Owned' = Owned /\ n \in Owned
    <2>1. OffList = Off(scanned) /\ OffList' = Off(scanned')
      BY DEF OffList, Off
    <2>2. Off(scanned) = Off(scanned') \cup {n}
      BY <1>6, <1>b, ShiftLater
    <2> QED BY <2>1, <2>2, BackKeeps DEF Owned
  <1>10. L \cup {n} \in SUBSET Owned /\ Solid(node, L \cup {n}) /\ Apart(node, Owned) /\ Solid(node, Owned)
    <2>1. L \cup {n} \in SUBSET Owned
      BY <1>9 DEF Owned, L
    <2> QED BY <2>1, <1>0, FewerRanges DEF RangesOK
  <1>11. /\ p \in (L \cup {HeadNode}) \ marked /\ x \in (L \cup {HeadNode}) \ marked
         /\ hit.start = HoleStart(p) /\ hit.end = EdgeOf(x) /\ hit.start < hit.end
    BY DEF Pays, L
  <1>12. p # n /\ x # n /\ p \in Owned \cup {HeadNode} /\ x \in Owned \cup {HeadNode}
    BY <1>0, <1>5, <1>7, <1>10, <1>11
  <1>13. \A m \in Owned : node[m].start \in Nat /\ node[m].size \in Nat /\ node[m].size > 0
                          /\ EndOf(node, m) = node[m].start + node[m].size
    BY <1>0, <1>1, <1>10, SpanTypes DEF Solid
  <1>14. /\ node[n].start < hit.end => EndOf(node, n) <= hit.end
         /\ EndOf(node, n) > hit.start => hit.start <= node[n].start
    BY <1>1, <1>9, <1>10, <1>11, <1>12, AroundIs
  <1>15. /\ HoleEnd(l, n) \in Nat /\ EndOf(node, n) <= HoleEnd(l, n)
         /\ \A m \in L : EndOf(node, m) <= EndOf(node, n) \/ HoleEnd(l, n) <= node[m].start
    BY <1>1, <1>8, <1>10, HoleIs
  <1>16. hit.start \in Nat /\ hit.end \in Nat
    BY <1>0 DEF MmTypes
  <1>17. InHit(l, n) <=> Inside(n)
    <2>1. ASSUME Inside(n) PROVE InHit(l, n)
      BY <2>1, <1>9, <1>13, <1>15, <1>16 DEF InHit, Inside
    <2>2. ASSUME InHit(l, n) PROVE Inside(n)
      <3>1. HoleEnd(l, n) > hit.start /\ node[n].start < hit.end
        BY <2>2 DEF InHit
      <3>2. EndOf(node, n) > hit.start
        <4>1. CASE p = HeadNode
          BY <4>1, <1>9, <1>11, <1>13 DEF HoleStart
        <4>2. CASE p # HeadNode
          <5>1. p \in L /\ p \in Owned /\ hit.start = EndOf(node, p)
            BY <4>2, <1>11, <1>12 DEF HoleStart, EndOf
          <5>2. EndOf(node, p) <= EndOf(node, n)
            BY <5>1, <3>1, <1>13, <1>15, <1>16
          <5>3. EndOf(node, p) # EndOf(node, n)
            <6>1. EndOf(node, p) <= node[n].start \/ EndOf(node, n) <= node[p].start
              BY <5>1, <1>9, <1>10, <1>12 DEF Apart
            <6> QED BY <6>1, <5>1, <1>9, <1>13
          <5> QED BY <5>1, <5>2, <5>3, <1>9, <1>13
        <4> QED BY <4>1, <4>2
      <3> QED BY <3>1, <3>2, <1>14 DEF Inside
    <2> QED BY <2>1, <2>2
  <1>18. \A m : Inside(m)' <=> Inside(m)
    BY <1>2 DEF Inside, EndOf
  <1>19. marked' = IF Inside(n) THEN marked \cup {n} ELSE marked
    BY <1>2, <1>17
  <1>20. ToSet(list') = L \cup {n}
    BY <1>2, <1>8
  <1>21. \A m \in marked' : m \in ToSet(list') /\ Inside(m)'
    <2>1. \A m \in marked : m \in L /\ Inside(m)
      BY DEF Pays, L
    <2> QED BY <2>1, <1>18, <1>19, <1>20
  <1>22. \A m \in Owned' : Inside(m)' => m \in OffList' \cup marked'
    <2>1. \A m \in Owned : Inside(m) => m \in OffList \cup marked
      BY DEF Pays
    <2> QED BY <2>1, <1>9, <1>18, <1>19
  <1>23. (\A m \in Owned' : ~Inside(m)') => stack'[1] = p
    <2>1. (\A m \in Owned : ~Inside(m)) => stack[1] = p
      BY DEF Pays
    <2> QED BY <2>1, <1>2, <1>9, <1>18
  <1>24. HoleStart(p)' = HoleStart(p) /\ EdgeOf(x)' = EdgeOf(x)
         /\ CheckFreeHole(Between(p, x, ask), ask)'
    <2>1. CheckFreeHole(Between(p, x, ask), ask)
      BY DEF Pays
    <2> QED BY <2>1, <1>2 DEF HoleStart, EdgeOf, Between, Color, CheckFreeHole
  <1>25. p \in (ToSet(list') \cup {HeadNode}) \ marked' /\ x \in (ToSet(list') \cup {HeadNode}) \ marked'
    BY <1>11, <1>12, <1>19, <1>20
  <1> QED BY <1>2, <1>11, <1>21, <1>22, <1>23, <1>24, <1>25 DEF Pays

\* When the last node goes that lay in what was found, the node before it is p.
LEMMA FreePays ==
    ASSUME MmAssumption, MmInv, NEW n \in Nodes, PutBlock(n), ask # NoAsk, NEW p, NEW x, Pays(p, x)
    PROVE  Pays(p, x)'
  <1> DEFINE L == ToSet(list)
  <1>a. PICK q : q = PrevIn(list, n)
    OBVIOUS
  <1>0. HeadNode \notin Nodes /\ End \in Nat /\ MmTypes /\ RangesOK /\ scanned = <<>> /\ n \in L
        /\ n \in marked
    BY DEF MmAssumption, MmInv, PutBlock
  <1>1. /\ node \in Spans /\ list \in Seq(Nodes) /\ Sorted(node, list) /\ Solid(node, L)
        /\ Apart(node, L) /\ L \in SUBSET Nodes /\ Injective(list)
    BY <1>0, ListOK, OwnedTypes
  <1>2. Owned = L /\ OffList = {}
    BY <1>0, NothingOff
  <1>3. /\ list' = Without(list, n) /\ stack' = <<q>> \o Without(Without(stack, n), q)
        /\ marked' = marked \ {n} /\ ask' = ask /\ hit' = hit /\ colored' = colored
    BY <1>a DEF PutBlock, Unlink
  <1>4. /\ scanned' = <<>> /\ Owned' = L \ {n}
        /\ \A m \in Nodes : m # n => node'[m] = node[m]
    BY <1>2, RemoveKeeps
  <1>5. ToSet(list') = L \ {n}
    BY <1>1, <1>3, WithoutIs
  <1>6. Follows(node, L \ {n}, q, n)
    BY <1>0, <1>1, <1>a, PrevIs
  <1>7. /\ p \in (L \cup {HeadNode}) \ marked /\ x \in (L \cup {HeadNode}) \ marked
        /\ hit.start = HoleStart(p) /\ hit.end = EdgeOf(x) /\ hit.start < hit.end
        /\ CheckFreeHole(Between(p, x, ask), ask)
        /\ \A m \in marked : m \in L /\ Inside(m)
        /\ \A m \in L : Inside(m) => m \in marked
    BY <1>2 DEF Pays
  <1> HIDE DEF L
  <1>8. p # n /\ x # n /\ p \in (L \ {n}) \cup {HeadNode} /\ x \in (L \ {n}) \cup {HeadNode}
    BY <1>0, <1>7
  <1>9. \A m \in L \ {n} : node'[m] = node[m]
    BY <1>1, <1>4
  <1>10. \A m \in L \ {n} : Inside(m)' <=> Inside(m)
    BY <1>0, <1>1, <1>3, <1>9 DEF Inside, EndOf
  <1>11. (p = HeadNode \/ node'[p] = node[p]) /\ (x = HeadNode \/ node'[x] = node[x])
    BY <1>8, <1>9
  <1>12. HoleStart(p)' = HoleStart(p) /\ EdgeOf(x)' = EdgeOf(x)
         /\ CheckFreeHole(Between(p, x, ask), ask)'
    <2>1. HoleStart(p)' = HoleStart(p)
      BY <1>11 DEF HoleStart
    <2>2. EdgeOf(x)' = EdgeOf(x)
      BY <1>11 DEF EdgeOf
    <2>3. Color(p)' = Color(p) /\ Color(x)' = Color(x)
      BY <1>11 DEF Color
    <2> QED BY <2>1, <2>2, <2>3, <1>3, <1>7 DEF Between, CheckFreeHole
  <1>13. \A m \in L : node[m].start \in Nat /\ node[m].size \in Nat /\ node[m].size > 0
                      /\ EndOf(node, m) = node[m].start + node[m].size
    BY <1>0, <1>1, SpanTypes DEF Solid
  <1>14. ASSUME \A m \in Owned' : ~Inside(m)' PROVE stack'[1] = p
    <2>1. \A m \in L \ {n} : ~Inside(m)
      BY <1>4, <1>10, <1>14
    <2>2. q = p
      <3> SUFFICES ASSUME q # p PROVE FALSE
        OBVIOUS
      <3>1. q \in (L \ {n}) \cup {HeadNode} /\ EndOf(node, q) <= node[n].start
        BY <1>6 DEF Follows
      <3>2. Inside(n) /\ hit.start <= node[n].start /\ EndOf(node, n) <= hit.end
        BY <1>0, <1>7 DEF Inside
      <3>3. hit.start = EndOf(node, p) /\ hit.start \in Nat /\ hit.end \in Nat
        BY <1>0, <1>7 DEF MmTypes, HoleStart, EndOf
      <3>4. EndOf(node, p) <= EndOf(node, q)
        <4>0. EndOf(node, q) \in Nat
          <5>1. q \in Nodes \cup {HeadNode}
            BY <1>1, <3>1
          <5> QED BY <5>1, <1>0, <1>1, EndIsNat
        <4>1. CASE p = HeadNode
          BY <4>0, <4>1, HeadEnds
        <4>2. CASE p # HeadNode
          <5>1. p \in L \ {n}
            BY <4>2, <1>8
          <5>2. EndOf(node, p) <= EndOf(node, q) \/ EndOf(node, n) <= node[p].start
            BY <5>1, <1>6 DEF Follows
          <5> QED BY <5>1, <5>2, <3>2, <3>3, <1>0, <1>13
        <4> QED BY <4>1, <4>2
      <3>5. q \in L \ {n}
        <4> SUFFICES ASSUME q = HeadNode PROVE FALSE
          BY <3>1
        <4>1. p \in L
          BY <1>8
        <4>2. EndOf(node, q) = 0
          BY HeadEnds
        <4> QED BY <4>1, <4>2, <3>4, <1>13
      <3>6. hit.start <= node[q].start
        <4>1. EndOf(node, q) > hit.start
          <5>1. CASE p = HeadNode
            BY <5>1, <3>3, <3>5, <1>13, HeadEnds
          <5>2. CASE p # HeadNode
            <6>1. p \in L
              BY <5>2, <1>8
            <6>2. EndOf(node, p) <= node[q].start \/ EndOf(node, q) <= node[p].start
              BY <6>1, <3>5, <1>1 DEF Apart
            <6> QED BY <6>1, <6>2, <3>3, <3>4, <3>5, <1>13
          <5> QED BY <5>1, <5>2
        <4>2. q # x
          <5> SUFFICES ASSUME q = x PROVE FALSE
            OBVIOUS
          <5>1. hit.end = node[q].start
            BY <3>5, <1>0, <1>1, <1>7 DEF EdgeOf
          <5> QED BY <5>1, <3>1, <3>2, <3>3, <3>5, <1>0, <1>13
        <4>3. p \in L \cup {HeadNode} /\ x \in L \cup {HeadNode} /\ q \in L
          BY <1>8, <3>5
        <4> QED BY <4>1, <4>2, <4>3, <1>1, <1>7, AroundIs
      <3>7. EndOf(node, q) <= hit.end
        BY <3>1, <3>2, <3>3, <3>5, <1>0, <1>13, SMTT(40)
      <3> QED BY <2>1, <3>5, <3>6, <3>7 DEF Inside
    <2>3. stack'[1] = q
      <3>1. stack \in Seq(Nodes \cup {HeadNode}) /\ Injective(stack)
        BY <1>0 DEF MmTypes, MmInv, HolesOK
      <3>2. Without(stack, n) \in Seq(Nodes \cup {HeadNode}) /\ Injective(Without(stack, n))
        BY <3>1, WithoutIs
      <3>3. Without(Without(stack, n), q) \in Seq(Nodes \cup {HeadNode})
        BY <3>2, WithoutIs
      <3> QED BY <3>3, <1>3
    <2> QED BY <2>2, <2>3
  <1>15. \A m \in marked' : m \in ToSet(list') /\ Inside(m)'
    BY <1>3, <1>5, <1>7, <1>10
  <1>16. \A m \in Owned' : Inside(m)' => m \in OffList' \cup marked'
    BY <1>3, <1>4, <1>7, <1>10
  <1>17. p \in (ToSet(list') \cup {HeadNode}) \ marked' /\ x \in (ToSet(list') \cup {HeadNode}) \ marked'
    BY <1>3, <1>5, <1>7, <1>8
  <1> QED BY <1>3, <1>7, <1>12, <1>14, <1>15, <1>16, <1>17 DEF Pays

\* Every call keeps what the scan has gained.
LEMMA StepPays ==
    ASSUME MmAssumption, MmInv, PaysInv, [MmNext]_mmVars
    PROVE  PaysInv'
  <1> SUFFICES ASSUME ask' # NoAsk, hit' # NoHit PROVE \E p, x : Pays(p, x)'
    BY DEF PaysInv
  <1>1. ASSUME NEW n \in Nodes, NEW r \in Requests, GetBlock(n, r) PROVE FALSE
    BY <1>1 DEF GetBlock
  <1>2. ASSUME NEW n \in Nodes, Refill(n) PROVE FALSE
    BY <1>2 DEF Refill
  <1>3. ASSUME NEW n \in Nodes, PutBlock(n) PROVE \E p, x : Pays(p, x)'
    <2>1. ask # NoAsk /\ hit # NoHit
      BY <1>3 DEF PutBlock
    <2>2. PICK p, x : Pays(p, x)
      BY <2>1 DEF PaysInv
    <2>3. Pays(p, x)'
      BY <1>3, <2>1, <2>2, FreePays
    <2> QED BY <2>3
  <1>4. ASSUME NEW n \in Nodes, ScanAddBlock(n) PROVE \E p, x : Pays(p, x)'
    BY <1>4, HitPays
  <1>5. ASSUME ScanRemoveBlock PROVE \E p, x : Pays(p, x)'
    <2>1. ask # NoAsk /\ hit # NoHit
      <3>1. hit # NoHit
        BY <1>5 DEF ScanRemoveBlock
      <3>2. ask' = ask
        BY <1>5, <3>1 DEF ScanRemoveBlock
      <3> QED BY <3>1, <3>2
    <2>2. PICK p, x : Pays(p, x)
      BY <2>1 DEF PaysInv
    <2>3. Pays(p, x)'
      BY <1>5, <2>1, <2>2, BackPays
    <2> QED BY <2>3
  <1>6. ASSUME \/ \E r \in Requests : InitScan(r)
               \/ PreGet \/ Takedown
        PROVE  FALSE
    BY <1>6 DEF InitScan, PreGet, Takedown
  <1>7. ASSUME UNCHANGED mmVars PROVE \E p, x : Pays(p, x)'
    <2>1. UNCHANGED <<colored, list, node, hole, stack, scanned, ask, hit, marked, unused>>
      BY <1>7 DEF mmVars
    <2>2. PICK p, x : Pays(p, x)
      BY <2>1 DEF PaysInv
    <2>3. Owned' = Owned /\ OffList' = OffList
      BY <2>1 DEF Owned, OffList
    <2>4. \A m : Inside(m)' <=> Inside(m)
      BY <2>1 DEF Inside, EndOf
    <2>5. HoleStart(p)' = HoleStart(p) /\ EdgeOf(x)' = EdgeOf(x)
          /\ (CheckFreeHole(Between(p, x, ask), ask) => CheckFreeHole(Between(p, x, ask), ask)')
      BY <2>1 DEF HoleStart, EdgeOf, Between, Color, CheckFreeHole
    <2>6. Pays(p, x)'
      BY <2>1, <2>2, <2>3, <2>4, <2>5 DEF Pays
    <2> QED BY <2>6
  <1> QED BY <1>1, <1>2, <1>3, <1>4, <1>5, <1>6, <1>7 DEF MmNext

\* When nothing is left between them, x is next to p, and the search begins with
\* the hole on top.
LEMMA ScansPay ==
    ASSUME MmAssumption, MmInv, PaysInv
    PROVE  ScanPays
  <1> SUFFICES ASSUME ask # NoAsk, hit # NoHit, scanned = <<>>, marked = {}
               PROVE  Search([ask EXCEPT !.best = FALSE]) = Head(stack)
    BY DEF ScanPays
  <1> DEFINE L == ToSet(list)
             r == [ask EXCEPT !.best = FALSE]
  <1>a. PICK p, x : Pays(p, x)
    BY DEF PaysInv
  <1>b. PICK y : y = NextIn(list, p)
    OBVIOUS
  <1>0. HeadNode \notin Nodes /\ End \in Nat /\ MmTypes /\ RangesOK /\ ask \in Wanted
    BY DEF MmAssumption, MmInv, MmTypes, Wanted
  <1>1. /\ node \in Spans /\ list \in Seq(Nodes) /\ Sorted(node, list) /\ Solid(node, L)
        /\ Apart(node, L) /\ L \in SUBSET Nodes
    BY <1>0, ListOK, OwnedTypes
  <1>2. Owned = L /\ OffList = {}
    BY NothingOff
  <1>3. /\ p \in L \cup {HeadNode} /\ x \in L \cup {HeadNode}
        /\ hit.start = HoleStart(p) /\ hit.end = EdgeOf(x) /\ hit.start < hit.end
        /\ CheckFreeHole(Between(p, x, ask), ask)
        /\ \A m \in L : ~Inside(m)
        /\ stack[1] = p
    BY <1>a, <1>2 DEF Pays
  <1> HIDE DEF L
  <1>4. hit.start \in Nat /\ hit.end \in Nat /\ HoleStart(p) = EndOf(node, p)
    BY <1>0 DEF MmTypes, HoleStart, EndOf
  <1>5. /\ y \in L \cup {HeadNode} /\ EndOf(node, p) <= HoleEnd(list, p) /\ HoleEnd(list, p) = EdgeOf(y)
        /\ \A m \in L : EndOf(node, m) <= EndOf(node, p) \/ EdgeOf(y) <= node[m].start
    <2>1. HoleEnd(list, p) = EdgeOf(y)
      BY <1>b, BetweenIs
    <2> QED BY <2>1, <1>1, <1>3, <1>b, HoleIs DEF L
  <1>6. \A m \in L : node[m].start \in Nat /\ node[m].size \in Nat /\ node[m].size > 0 /\ m # HeadNode
                     /\ EndOf(node, m) = node[m].start + node[m].size /\ EndOf(node, m) <= End
    BY <1>0, <1>1, SpanTypes DEF Solid
  <1>7. y = x
    <2> SUFFICES ASSUME y # x PROVE FALSE
      OBVIOUS
    <2>1. CASE y = HeadNode
      <3>1. x \in L /\ EdgeOf(x) = node[x].start /\ EdgeOf(y) = End
        BY <2>1, <1>3, <1>6 DEF EdgeOf
      <3>2. EndOf(node, x) <= EndOf(node, p) \/ End <= node[x].start
        BY <3>1, <1>5
      <3> QED BY <3>1, <3>2, <1>0, <1>3, <1>4, <1>6
    <2>2. CASE y # HeadNode
      <3>1. y \in L /\ EdgeOf(y) = node[y].start /\ EndOf(node, p) <= node[y].start
        BY <2>2, <1>5 DEF EdgeOf
      <3>2. EndOf(node, y) <= EdgeOf(x)
        <4>1. CASE x = HeadNode
          BY <4>1, <3>1, <1>6 DEF EdgeOf
        <4>2. CASE x # HeadNode
          <5>1. x \in L /\ EdgeOf(x) = node[x].start
            BY <4>2, <1>3 DEF EdgeOf
          <5>2. EndOf(node, x) <= EndOf(node, p) \/ node[y].start <= node[x].start
            BY <3>1, <5>1, <1>5
          <5>3. EndOf(node, x) <= node[y].start \/ EndOf(node, y) <= node[x].start
            BY <3>1, <5>1, <1>1 DEF Apart
          <5> QED BY <3>1, <5>1, <5>2, <5>3, <1>3, <1>4, <1>6
        <4> QED BY <4>1, <4>2
      <3> QED BY <3>1, <3>2, <1>3, <1>4 DEF Inside
    <2> QED BY <2>1, <2>2
  <1>8. r \in Wanted /\ r.best = FALSE /\ r.size = ask.size /\ r.align = ask.align
        /\ r.color = ask.color /\ r.lo = ask.lo /\ r.hi = ask.hi
    BY <1>0 DEF Wanted
  <1> HIDE DEF r
  <1>9. CheckFreeHole(Usable(list, p, r), r)
    <2>1. Usable(list, p, r) = Between(p, x, r)
      BY <1>7, <1>b, BetweenIs
    <2>2. Between(p, x, r) = Between(p, x, ask)
      BY <1>8 DEF Between
    <2> QED BY <2>1, <2>2, <1>3, <1>8 DEF CheckFreeHole
  <1>10. Fits(p, r)
    <2>1. p \in Nodes \cup {HeadNode}
      BY <1>1, <1>3
    <2>2. HoleEnd(list, p) \in Nat
      BY <1>3, <1>4, <1>5, <1>7
    <2>3. Usable(list, p, r)[1] \in Nat /\ Usable(list, p, r)[2] \in Int
      <3>1. colored \in BOOLEAN
        BY <1>0 DEF MmTypes
      <3> QED BY <3>1, <2>1, <2>2, <1>0, <1>1, <1>8, UsableIs
    <2>4. r.size \in Nat /\ r.size > 0
      BY <1>8 DEF Wanted
    <2> DEFINE u == Usable(list, p, r)
    <2>5. u[2] - u[1] >= r.size
      BY <1>9 DEF CheckFreeHole
    <2> HIDE DEF u
    <2>6. u[2] > u[1]
      BY <2>3, <2>4, <2>5 DEF u
    <2> QED BY <2>6, <1>9 DEF Fits, u
  <1>11. p \in ToSet(stack)
    <2>1. HoleStart(p) < HoleEnd(list, p)
      BY <1>3, <1>5, <1>7
    <2>2. p \in FreeOf(node, Owned)
      BY <2>1, <1>0, <1>3, FreeIsGap DEF L
    <2> QED BY <2>2 DEF MmInv, HolesOK
  <1>12. stack \in Seq(Nodes \cup {HeadNode}) /\ 1 \in DOMAIN stack /\ Head(stack) = p
    <2>1. stack \in Seq(Nodes \cup {HeadNode})
      BY <1>0 DEF MmTypes
    <2>2. DOMAIN stack # {}
      BY <1>11 DEF ToSet
    <2>3. stack # <<>>
      BY <2>2
    <2> QED BY <2>1, <2>3, <1>3, HeadTailProperties, EmptySeq, LenProperties
  <1>13. 1 \in Found(r)
    BY <1>3, <1>10, <1>12 DEF Found
  <1>14. PICK i \in Found(r) : Search(r) = stack[i] /\ \A j \in Found(r) : i <= j
    <2>1. r.best \in BOOLEAN /\ Found(r) # {}
      BY <1>8, <1>13
    <2> QED BY <2>1, <1>1, <1>8, <1>12, SearchIs
  <1>15. i = 1
    <2>1. i \in DOMAIN stack /\ i <= 1
      BY <1>13, <1>14 DEF Found
    <2> QED BY <2>1, <1>12, LenProperties
  <1> QED BY <1>3, <1>12, <1>14, <1>15 DEF r

-----------------------------------------------------------------------------
(* What the allocator promises                                             *)

\* In every state the holes are exactly the gaps and are on the stack once each,
\* colours keep their distance, a search fails only when there is no place, and
\* a scan that has found something gets it: drm_mm_remove_node, the searches and
\* drm_mm_scan_remove_block.
THEOREM MmIsSafe == ASSUME MmAssumption PROVE MmSpec => []MmSafe
  <1>1. MmInit => MmInv /\ PaysInv
    BY InitInv DEF MmInit, PaysInv
  <1>2. MmInv /\ PaysInv /\ [MmNext]_mmVars => MmInv' /\ PaysInv'
    BY StepKeeps, StepPays
  <1>3. MmInv /\ PaysInv => MmSafe
    BY HolesAreExact, ColorsAreApart, SearchesAreComplete, ScansPay DEF MmSafe
  <1> QED BY <1>1, <1>2, <1>3, PTL DEF MmSpec
=============================================================================
