-------------------------- MODULE IntelRingProofs --------------------------
(***************************************************************************)
(* The ring of a chip is safe (RingSafe of IntelRing): nothing is written  *)
(* over before the hardware has read it, the hardware reads what was       *)
(* emitted in the order in which it was emitted, no batch finds stale      *)
(* data and no breadcrumb overtakes the data it stands for, the driver     *)
(* never counts more space than there is, and a failed setup leaves        *)
(* nothing behind but the copy and the status page of the old chips.       *)
(***************************************************************************)
EXTENDS IntelRing, SequenceTheorems, FiniteSetTheorems, TLAPS

Cmds == {"invalidate", "batch", "flush", "seqno"}
Full == <<"invalidate", "batch", "flush", "seqno">>
Todos == {<<>>, Full, <<"batch", "flush", "seqno">>, <<"flush", "seqno">>, <<"seqno">>}
Reqs == [seqno : Nat, tail : Words \cup {-1}]
Allowed == {"unstarted", "uncontrolled", "copy"}

\* What a ring has before each step of its setup.
Copy == IF Old THEN {"copy"} ELSE {}
Before(s) == CASE s = "copy" -> {} [] s = "status" -> Copy [] s = "object" -> Copy \cup {"status"}
               [] s = "pin" -> Copy \cup {"status", "object"}
               [] s = "map" -> Copy \cup {"status", "object", "pin"}
               [] s = "start" -> Copy \cup {"status", "object", "pin", "map"}
               [] OTHER -> Copy \cup {"status", "object", "pin", "map", "start"}
SetupOK ==
    /\ stage.op = "setup" => \E k \in 1 .. Len(Steps) :
            /\ stage = [op |-> "setup", todo |-> SubSeq(Steps, k, Len(Steps))]
            /\ has \subseteq Before(Steps[k])
    /\ NothingLeft

\* How far x is behind h, around the ring.
Off(h, x) == IF x >= h THEN x - h ELSE x - h + Size

Types ==
    /\ mem \in [Words -> Cmds \cup {Nop}]
    /\ hw \in [head : Words, tail : Words]
    /\ sw \in [head : Words, tail : Words, space : Int, retired : Words \cup {-1}]
    /\ todo \in Todos /\ requests \in Seq(Reqs) /\ order \in Seq(Cmds)
    /\ olr \in 1 .. MaxSeqno + 1 /\ (todo # <<>> => olr <= MaxSeqno)
    /\ done \in Nat /\ dirty \in BOOLEAN /\ caches \in [written : BOOLEAN, stale : BOOLEAN]
    /\ amiss \subseteq Allowed

\* The pointers in their order around the ring, from the head the driver knows.
Pointers ==
    /\ Off(sw.head, hw.head) <= Off(sw.head, hw.tail)
    /\ Off(sw.head, hw.tail) <= Off(sw.head, sw.tail)
    /\ Off(sw.head, sw.tail) <= Size - Gap
    /\ sw.space = Size - Gap - Off(sw.head, sw.tail)
    /\ sw.retired # -1 => Off(sw.head, sw.retired) <= Off(sw.head, hw.head)

\* The words from head to last hold the commands of ord, at P, and nothing
\* else but fillers; from last to tail there are only fillers.
Within(h, a, x, b) == Off(h, a) <= Off(h, x) /\ Off(h, x) < Off(h, b)
Stream(m, h, head, last, tail, ord, P) ==
    /\ P \in [1 .. Len(ord) -> Words]
    /\ \A i \in 1 .. Len(ord) : m[P[i]] = ord[i] /\ Within(h, head, P[i], last)
    /\ \A i, j \in 1 .. Len(ord) : i < j => Off(h, P[i]) < Off(h, P[j])
    /\ \A w \in Words : Within(h, head, w, last) /\ m[w] # Nop => \E i \in 1 .. Len(ord) : w = P[i]
    /\ \A w \in Words : Within(h, last, w, tail) => m[w] = Nop

\* What is to come: after the i-th command of ord the last breadcrumb is N[i],
\* data is in the caches if i is in W, and stale if it is in S.
Future(ord, N, W, S, d, c, o) ==
    /\ N \in [0 .. Len(ord) -> Nat] /\ W \subseteq 0 .. Len(ord) /\ S \subseteq 0 .. Len(ord)
    /\ N[0] = d /\ (0 \in W <=> c.written) /\ (0 \in S <=> c.stale)
    /\ N[Len(ord)] = o - 1
    /\ \A i \in 1 .. Len(ord) :
        /\ N[i] = (IF ord[i] = "seqno" THEN N[i - 1] + 1 ELSE N[i - 1])
        /\ i \in W <=> ord[i] = "batch" \/ (i - 1 \in W /\ ord[i] \notin {"flush", "invalidate"})
        /\ i \in S <=> ord[i] = "batch" \/ (i - 1 \in S /\ ord[i] # "invalidate")
        /\ ord[i] = "batch" => i - 1 \notin S
        /\ ord[i] = "seqno" => i - 1 \notin W
    /\ \A i, j \in 0 .. Len(ord) : i <= j => N[i] <= N[j]

\* The last state of the caches is what the driver goes by.
Ends(n, W, S, t, b) ==
    /\ n \in W => b
    /\ t = <<"seqno">> => ~b
    /\ t = <<"batch", "flush", "seqno">> => n \notin S

\* The requests are numbered without a hole up to the next seqno; those that are
\* done end behind the head, the others at their breadcrumb.
Numbered(req, o) == Len(req) < o /\ \A j \in 1 .. Len(req) : req[j].seqno = o - 1 - Len(req) + j
Finished(req, d, h, head) == \A j \in 1 .. Len(req) :
    req[j].seqno <= d /\ req[j].tail # -1 => Off(h, req[j].tail) <= Off(h, head)
Awaited(req, ord, N, P, d) == \A j \in 1 .. Len(req) : req[j].seqno > d =>
    \E i \in 1 .. Len(ord) : ord[i] = "seqno" /\ N[i] = req[j].seqno /\ req[j].tail \in {-1, P[i]}

Ghost(P, N, W, S) ==
    /\ Stream(mem, sw.head, hw.head, hw.tail, sw.tail, order, P)
    /\ Future(order, N, W, S, done, caches, olr)
    /\ Ends(Len(order), W, S, todo, dirty)
    /\ Awaited(requests, order, N, P, done)

IInv ==
    /\ Types /\ SetupOK /\ Pointers
    /\ Numbered(requests, olr) /\ Finished(requests, done, sw.head, hw.head)
    /\ \E P, N, W, S : Ghost(P, N, W, S)
------------------------------------------------------------------------------
\* The arithmetic of the ring.
LEMMA ModLow == ASSUME NEW M \in Nat \ {0}, NEW k \in 0 .. M - 1 PROVE k % M = k
  BY SMT

\* A number that is one round too low.
LEMMA ModBelow == ASSUME NEW M \in Nat \ {0}, NEW k \in Int, -M <= k, k < 0 PROVE k % M = k + M
  BY SMT

\* A number that is two rounds too low.
LEMMA ModLower == ASSUME NEW M \in Nat \ {0}, NEW k \in Int, -2 * M <= k, k < -M PROVE k % M = k + 2 * M
  BY SMT

\* The size of the ring.
LEMMA SizeFacts == Size \in Nat \ {0} /\ Gap \in 1 .. Size /\ 0 \in Words
  BY RingAssumption DEF Words

\* The distance is what the code takes modulo the size.
LEMMA OffMod ==
    ASSUME NEW h \in Words, NEW x \in Words
    PROVE  (x - h) % Size = Off(h, x) /\ Off(h, x) \in Words
  <1>1. h \in Int /\ x \in Int /\ 0 <= h /\ h < Size /\ 0 <= x /\ x < Size BY RingAssumption DEF Words
  <1>2. CASE x >= h
    <2>1. x - h \in 0 .. Size - 1 BY <1>1, <1>2, SizeFacts
    <2>2. (x - h) % Size = x - h BY <2>1, SizeFacts, ModLow
    <2> QED BY <1>2, <2>1, <2>2 DEF Off, Words
  <1>3. CASE ~(x >= h)
    <2>1. x - h \in Int /\ -Size <= x - h /\ x - h < 0 BY <1>1, <1>3, SizeFacts
    <2>2. (x - h) % Size = x - h + Size BY <2>1, SizeFacts, ModBelow
    <2> QED BY <1>1, <1>3, <2>2, SizeFacts DEF Off, Words
  <1> QED BY <1>2, <1>3

\* The space of the ring is what the distance and the gap leave of it.
LEMMA SpaceIs ==
    ASSUME NEW h \in Words, NEW t \in Words, Off(h, t) <= Size - Gap
    PROVE  RingSpace(h, t) = Size - Gap - Off(h, t)
  <1>1. h \in Int /\ t \in Int /\ 0 <= h /\ h < Size /\ 0 <= t /\ t < Size BY RingAssumption DEF Words
  <1>2. Size \in Nat \ {0} /\ Gap \in Int /\ 1 <= Gap /\ Gap <= Size BY SizeFacts
  <1> DEFINE k == h - (t + Gap)
  <1>3. CASE t >= h
    <2>1. k \in Int /\ -Size <= k /\ k < 0 /\ k + Size = Size - Gap - Off(h, t) BY <1>1, <1>2, <1>3 DEF Off
    <2>2. k % Size = k + Size BY <2>1, <1>2, ModBelow
    <2> QED BY <2>1, <2>2 DEF RingSpace
  <1>4. CASE ~(t >= h)
    <2>1. k \in 0 .. Size - 1 /\ k = Size - Gap - Off(h, t) BY <1>1, <1>2, <1>4 DEF Off
    <2>2. k % Size = k BY <2>1, <1>2, ModLow
    <2> QED BY <2>1, <2>2 DEF RingSpace
  <1> QED BY <1>3, <1>4

\* Distances from a point further on.
LEMMA Rebase ==
    ASSUME NEW h \in Words, NEW g \in Words, NEW x \in Words
    PROVE  /\ Off(h, g) <= Off(h, x) => Off(g, x) = Off(h, x) - Off(h, g)
           /\ Off(h, x) < Off(h, g) => Off(g, x) = Off(h, x) - Off(h, g) + Size
  BY RingAssumption DEF Words, Off

\* Words at the same distance are the same.
LEMMA OffSame ==
    ASSUME NEW h \in Words, NEW x \in Words, NEW y \in Words, Off(h, x) = Off(h, y)
    PROVE  x = y
  BY RingAssumption DEF Words, Off

\* Going on by n words, up to the end of the ring at most.
LEMMA OffPlus ==
    ASSUME NEW h \in Words, NEW x \in Words, NEW n \in Nat, x + n <= Size, Off(h, x) + n < Size
    PROVE  (x + n) % Size \in Words /\ Off(h, (x + n) % Size) = Off(h, x) + n
  <1>1. h \in Int /\ x \in Int /\ 0 <= h /\ h < Size /\ 0 <= x /\ x < Size BY RingAssumption DEF Words
  <1>2. CASE x + n < Size
    <2>1. (x + n) % Size = x + n BY <1>1, <1>2, SizeFacts, ModLow
    <2> QED BY <1>1, <1>2, <2>1, SizeFacts DEF Off, Words
  <1>3. CASE x + n = Size
    <2>1. (x + n) % Size = 0
      <3>1. Size % Size = 0 BY SizeFacts
      <3> QED BY <3>1, <1>3
    <2> QED BY <1>1, <1>3, <2>1, SizeFacts DEF Off, Words
  <1> QED BY <1>1, <1>2, <1>3, SizeFacts

\* The words on the way.
LEMMA OffWithin ==
    ASSUME NEW h \in Words, NEW x \in Words, NEW w \in Words, NEW n \in Nat,
           x + n <= Size, Off(h, x) + n < Size
    PROVE  /\ w \in x .. x + n - 1 => Off(h, w) = Off(h, x) + (w - x)
           /\ Off(h, x) <= Off(h, w) /\ Off(h, w) < Off(h, x) + n => w \in x .. x + n - 1
  BY RingAssumption DEF Words, Off
------------------------------------------------------------------------------
\* What the ring holds.
Filled(m, from, n, c) ==
    [w \in Words |-> IF w = from THEN c ELSE IF w - from \in 1 .. n - 1 THEN Nop ELSE m[w]]
Memory == [Words -> Cmds \cup {Nop}]

\* Filling n words from the tail leaves what is before it, and puts only c and fillers.
LEMMA FilledWords ==
    ASSUME NEW m \in Memory, NEW h \in Words, NEW tail \in Words, NEW n \in Nat \ {0}, NEW c \in Cmds \cup {Nop},
           tail + n <= Size, Off(h, tail) + n < Size
    PROVE  /\ Filled(m, tail, n, c) \in Memory /\ Filled(m, tail, n, c)[tail] = c
           /\ \A w \in Words : Off(h, w) < Off(h, tail) => Filled(m, tail, n, c)[w] = m[w]
           /\ \A w \in Words : Off(h, tail) < Off(h, w) /\ Off(h, w) < Off(h, tail) + n
                                => Filled(m, tail, n, c)[w] = Nop
  <1>1. Filled(m, tail, n, c) \in Memory BY DEF Filled, Memory
  <1>2. Filled(m, tail, n, c)[tail] = c BY DEF Filled
  <1>3. ASSUME NEW w \in Words, Off(h, w) < Off(h, tail) PROVE Filled(m, tail, n, c)[w] = m[w]
    <2>1. w \in Int /\ tail \in Int /\ Off(h, w) \in Int /\ Off(h, tail) \in Int
      BY OffMod DEF Words
    <2>2. w \notin tail .. tail + n - 1 BY <1>3, <2>1, OffWithin
    <2>3. w # tail /\ w - tail \notin 1 .. n - 1 BY <2>1, <2>2
    <2> QED BY <2>3 DEF Filled
  <1>4. ASSUME NEW w \in Words, Off(h, tail) < Off(h, w), Off(h, w) < Off(h, tail) + n
        PROVE  Filled(m, tail, n, c)[w] = Nop
    <2>1. w \in Int /\ tail \in Int /\ Off(h, w) \in Int /\ Off(h, tail) \in Int
      BY OffMod DEF Words
    <2>2. w \in tail .. tail + n - 1 BY <1>4, <2>1, OffWithin
    <2>3. w # tail BY <1>4, <2>1
    <2>4. w - tail \in 1 .. n - 1 BY <2>1, <2>2, <2>3
    <2> QED BY <2>3, <2>4 DEF Filled
  <1> QED BY <1>1, <1>2, <1>3, <1>4

\* A command behind the others.
LEMMA StreamEmit ==
    ASSUME NEW m \in Memory, NEW h \in Words, NEW head \in Words, NEW last \in Words, NEW tail \in Words,
           NEW ord \in Seq(Cmds), NEW P, Stream(m, h, head, last, tail, ord, P),
           NEW n \in Nat \ {0}, NEW c \in Cmds, tail + n <= Size, Off(h, tail) + n < Size,
           Off(h, head) <= Off(h, last), Off(h, last) <= Off(h, tail),
           NEW next \in Words, Off(h, next) = Off(h, tail) + n,
           NEW Q, Q \in [1 .. Len(ord) + 1 -> Words],
           Q[Len(ord) + 1] = tail, \A i \in 1 .. Len(ord) : Q[i] = P[i]
    PROVE  Stream(Filled(m, tail, n, c), h, head, next, next, Append(ord, c), Q)
  <1> DEFINE k == Len(ord)
             ord2 == Append(ord, c)
             m2 == Filled(m, tail, n, c)
  <1>1. next \in Words /\ Off(h, next) = Off(h, tail) + n OBVIOUS
  <1>2. /\ k \in Nat /\ Len(ord2) = k + 1 /\ ord2[k + 1] = c /\ ord2 \in Seq(Cmds)
        /\ \A i \in 1 .. k : ord2[i] = ord[i] BY AppendProperties, LenProperties
  <1>3. \A w \in Words : Off(h, w) \in Int BY OffMod DEF Words
  <1>4. P \in [1 .. k -> Words] BY DEF Stream
  <1>5. Q \in [1 .. k + 1 -> Words] /\ Q[k + 1] = tail /\ \A i \in 1 .. k : Q[i] = P[i] OBVIOUS
  <1>6. /\ m2[tail] = c
        /\ \A w \in Words : Off(h, w) < Off(h, tail) => m2[w] = m[w]
        /\ \A w \in Words : Off(h, tail) < Off(h, w) /\ Off(h, w) < Off(h, tail) + n => m2[w] = Nop
    BY FilledWords
  <1> HIDE DEF k, ord2, m2
  <1>7. \A i \in 1 .. k : m[P[i]] = ord[i] /\ Within(h, head, P[i], last) BY DEF Stream, k
  <1>8. \A i \in 1 .. k : P[i] \in Words /\ Off(h, P[i]) < Off(h, tail) /\ Off(h, head) <= Off(h, P[i])
    BY <1>4, <1>7, <1>3 DEF Within
  <1>9. \A i \in 1 .. k + 1 : m2[Q[i]] = ord2[i] /\ Within(h, head, Q[i], next)
    <2> SUFFICES ASSUME NEW i \in 1 .. k + 1 PROVE m2[Q[i]] = ord2[i] /\ Within(h, head, Q[i], next)
      OBVIOUS
    <2>1. CASE i = k + 1
      BY <2>1, <1>1, <1>2, <1>3, <1>5, <1>6 DEF Within
    <2>2. CASE i # k + 1
      <3>1. i \in 1 .. k BY <2>2, <1>2
      <3>2. m2[P[i]] = m[P[i]] BY <3>1, <1>8, <1>6
      <3>3. Off(h, P[i]) < Off(h, next) BY <3>1, <1>8, <1>1, <1>3
      <3> QED BY <3>1, <3>2, <3>3, <1>2, <1>5, <1>7, <1>8 DEF Within
    <2> QED BY <2>1, <2>2
  <1>10. ASSUME NEW i \in 1 .. k + 1, NEW j \in 1 .. k + 1, i < j PROVE Off(h, Q[i]) < Off(h, Q[j])
    <2>1. i \in 1 .. k BY <1>10, <1>2
    <2>2. CASE j = k + 1 BY <2>1, <2>2, <1>5, <1>8
    <2>3. CASE j # k + 1
      <3>1. j \in 1 .. k BY <2>3, <1>2
      <3> QED BY <2>1, <3>1, <1>5, <1>10 DEF Stream, k
    <2> QED BY <2>2, <2>3
  <1>11. ASSUME NEW w \in Words, Within(h, head, w, next), m2[w] # Nop
         PROVE  \E i \in 1 .. k + 1 : w = Q[i]
    <2>1. CASE Off(h, w) < Off(h, last)
      <3>1. Within(h, head, w, last) BY <2>1, <1>11 DEF Within
      <3>2. m[w] # Nop BY <2>1, <1>3, <1>6, <1>11
      <3>3. PICK i \in 1 .. k : w = P[i] BY <3>1, <3>2 DEF Stream, k
      <3> QED BY <3>3, <1>2, <1>5
    <2>2. CASE Off(h, last) <= Off(h, w) /\ Off(h, w) < Off(h, tail)
      <3>1. m[w] = Nop BY <2>2 DEF Stream, Within
      <3> QED BY <2>2, <3>1, <1>6, <1>11
    <2>3. CASE Off(h, w) = Off(h, tail)
      <3>1. w = tail BY <2>3, OffSame
      <3> QED BY <3>1, <1>5, <1>2
    <2>4. CASE Off(h, tail) < Off(h, w)
      <3>1. Off(h, w) < Off(h, tail) + n BY <1>1, <1>11 DEF Within
      <3> QED BY <2>4, <3>1, <1>6, <1>11
    <2> QED BY <2>1, <2>2, <2>3, <2>4, <1>3
  <1>12. ASSUME NEW w \in Words, Within(h, next, w, next) PROVE m2[w] = Nop
    BY <1>12, <1>1, <1>3 DEF Within
  <1> QED
    <2>1. Stream(m2, h, head, next, next, ord2, Q)
      BY <1>2, <1>5, <1>9, <1>10, <1>11, <1>12 DEF Stream
    <2> QED BY <2>1 DEF k, ord2, m2

\* Fillers up to the end of the ring.
LEMMA StreamWrap ==
    ASSUME NEW m \in Memory, NEW h \in Words, NEW head \in Words, NEW last \in Words, NEW tail \in Words,
           NEW ord \in Seq(Cmds), NEW P, Stream(m, h, head, last, tail, ord, P),
           Off(h, tail) + (Size - tail) < Size,
           Off(h, head) <= Off(h, last), Off(h, last) <= Off(h, tail)
    PROVE  Stream(Filled(m, tail, Size - tail, Nop), h, head, last, 0, ord, P)
  <1> DEFINE n == Size - tail
             m2 == Filled(m, tail, n, Nop)
  <1>1. n \in Nat \ {0} /\ tail + n <= Size /\ tail + n = Size /\ Off(h, tail) + n < Size
    BY RingAssumption DEF Words
  <1>2. Off(h, 0) = Off(h, tail) + n
    <2>1. (tail + n) % Size = 0 BY <1>1, SizeFacts
    <2> QED BY <1>1, <2>1, OffPlus
  <1>3. /\ m2[tail] = Nop
        /\ \A w \in Words : Off(h, w) < Off(h, tail) => m2[w] = m[w]
        /\ \A w \in Words : Off(h, tail) < Off(h, w) /\ Off(h, w) < Off(h, tail) + n => m2[w] = Nop
    BY <1>1, FilledWords
  <1>4. \A w \in Words : Off(h, w) \in Int BY OffMod DEF Words
  <1>5. P \in [1 .. Len(ord) -> Words] BY DEF Stream
  <1> HIDE DEF n, m2
  <1>6. \A i \in 1 .. Len(ord) : m2[P[i]] = ord[i] /\ Within(h, head, P[i], last)
    BY <1>3, <1>4, <1>5 DEF Stream, Within
  <1>7. ASSUME NEW w \in Words, Within(h, head, w, last), m2[w] # Nop
        PROVE  \E i \in 1 .. Len(ord) : w = P[i]
    BY <1>3, <1>4, <1>7 DEF Stream, Within
  <1>8. ASSUME NEW w \in Words, Within(h, last, w, 0) PROVE m2[w] = Nop
    <2>1. CASE Off(h, w) < Off(h, tail) BY <2>1, <1>3, <1>8 DEF Stream, Within
    <2>2. CASE Off(h, w) = Off(h, tail) BY <2>2, <1>3, OffSame
    <2>3. CASE Off(h, tail) < Off(h, w) BY <2>3, <1>3, <1>2, <1>8 DEF Within
    <2> QED BY <2>1, <2>2, <2>3, <1>4
  <1> QED
    <2>1. Stream(m2, h, head, last, 0, ord, P) BY <1>5, <1>6, <1>7, <1>8 DEF Stream
    <2> QED BY <2>1 DEF n, m2

\* The hardware leaves a filler.
LEMMA StreamNop ==
    ASSUME NEW m \in Memory, NEW h \in Words, NEW head \in Words, NEW last \in Words, NEW tail \in Words,
           NEW ord \in Seq(Cmds), NEW P, Stream(m, h, head, last, tail, ord, P),
           Off(h, head) < Off(h, last), m[head] = Nop
    PROVE  Stream(m, h, (head + 1) % Size, last, tail, ord, P)
  <1> DEFINE next == (head + 1) % Size
  <1>1. \A w \in Words : Off(h, w) \in Words /\ Off(h, w) \in Int BY OffMod DEF Words
  <1>2. next \in Words /\ Off(h, next) = Off(h, head) + 1
    <2>1. head + 1 <= Size /\ Off(h, head) + 1 < Size BY <1>1, RingAssumption DEF Words
    <2> QED BY <2>1, OffPlus
  <1> HIDE DEF next
  <1>3. P \in [1 .. Len(ord) -> Words] BY DEF Stream
  <1>4. ASSUME NEW i \in 1 .. Len(ord) PROVE m[P[i]] = ord[i] /\ Within(h, next, P[i], last)
    <2>1. m[P[i]] = ord[i] /\ ord[i] \in Cmds /\ Within(h, head, P[i], last) BY ElementOfSeq DEF Stream
    <2>2. P[i] # head BY <2>1 DEF Cmds, Nop
    <2>3. Off(h, P[i]) # Off(h, head) BY <2>2, <1>3, OffSame
    <2> QED BY <2>1, <2>3, <1>1, <1>2, <1>3 DEF Within
  <1>5. ASSUME NEW w \in Words, Within(h, next, w, last), m[w] # Nop PROVE \E i \in 1 .. Len(ord) : w = P[i]
    <2>1. Within(h, head, w, last) BY <1>5, <1>1, <1>2 DEF Within
    <2> QED BY <2>1, <1>5 DEF Stream
  <1> QED
    <2>1. Stream(m, h, next, last, tail, ord, P) BY <1>3, <1>4, <1>5 DEF Stream
    <2> QED BY <2>1 DEF next

\* The same places without the first.
Follows(l, P, Q) == Q \in [1 .. l - 1 -> Words] /\ \A i \in 1 .. l - 1 : Q[i] = P[i + 1]

\* The hardware takes a command: it is the first of those that were emitted.
LEMMA StreamTake ==
    ASSUME NEW m \in Memory, NEW h \in Words, NEW head \in Words, NEW last \in Words, NEW tail \in Words,
           NEW ord \in Seq(Cmds), NEW P, Stream(m, h, head, last, tail, ord, P),
           Off(h, head) < Off(h, last), m[head] # Nop, NEW Q, Follows(Len(ord), P, Q)
    PROVE  /\ ord # <<>> /\ Head(ord) = m[head] /\ P[1] = head
           /\ Stream(m, h, (head + 1) % Size, last, tail, Tail(ord), Q)
  <1> DEFINE next == (head + 1) % Size
             k == Len(ord)
             rest == Tail(ord)
  <1>1. \A w \in Words : Off(h, w) \in Words /\ Off(h, w) \in Int BY OffMod DEF Words
  <1>2. next \in Words /\ Off(h, next) = Off(h, head) + 1
    <2>1. head + 1 <= Size /\ Off(h, head) + 1 < Size BY <1>1, RingAssumption DEF Words
    <2> QED BY <2>1, OffPlus
  <1>3. k \in Nat /\ P \in [1 .. k -> Words] BY LenProperties DEF Stream
  <1>4. PICK j \in 1 .. k : head = P[j]
    <2>1. Within(h, head, head, last) BY <1>1 DEF Within
    <2> QED BY <2>1 DEF Stream
  <1>5. 1 \in 1 .. k /\ ord # <<>> BY <1>3, <1>4, EmptySeq
  <1>6. j = 1
    <2>1. Off(h, head) <= Off(h, P[1]) BY <1>5 DEF Stream, Within
    <2>2. 1 < j => Off(h, P[1]) < Off(h, P[j]) BY <1>5 DEF Stream
    <2> QED BY <2>1, <2>2, <1>1, <1>3, <1>4, <1>5
  <1>7. Head(ord) = m[head]
    <2>1. Head(ord) = ord[1] BY <1>5, HeadTailProperties
    <2> QED BY <2>1, <1>4, <1>5, <1>6 DEF Stream
  <1>8. Len(rest) = k - 1 /\ \A i \in 1 .. k - 1 : rest[i] = ord[i + 1] BY <1>5, HeadTailProperties
  <1>9. Q \in [1 .. k - 1 -> Words] /\ \A i \in 1 .. k - 1 : Q[i] = P[i + 1] BY DEF Follows
  <1> HIDE DEF next, k, rest
  <1>10. ASSUME NEW i \in 1 .. k - 1 PROVE m[Q[i]] = rest[i] /\ Within(h, next, Q[i], last)
    <2>1. i + 1 \in 1 .. k /\ 1 < i + 1 BY <1>3
    <2>2. m[P[i + 1]] = ord[i + 1] /\ Within(h, head, P[i + 1], last) BY <2>1 DEF Stream, k
    <2>3. Off(h, P[1]) < Off(h, P[i + 1]) BY <2>1, <1>5 DEF Stream, k
    <2>4. Off(h, next) <= Off(h, P[i + 1]) BY <2>1, <2>3, <1>1, <1>2, <1>3, <1>4, <1>6
    <2> QED BY <2>2, <2>4, <1>8, <1>9 DEF Within
  <1>11. ASSUME NEW a \in 1 .. k - 1, NEW b \in 1 .. k - 1, a < b PROVE Off(h, Q[a]) < Off(h, Q[b])
    <2>1. a + 1 \in 1 .. k /\ b + 1 \in 1 .. k /\ a + 1 < b + 1 BY <1>3, <1>11
    <2> QED BY <2>1, <1>9 DEF Stream, k
  <1>12. ASSUME NEW w \in Words, Within(h, next, w, last), m[w] # Nop PROVE \E i \in 1 .. k - 1 : w = Q[i]
    <2>1. Within(h, head, w, last) /\ w # head BY <1>12, <1>1, <1>2 DEF Within
    <2>2. PICK b \in 1 .. k : w = P[b] BY <2>1, <1>12 DEF Stream, k
    <2>3. b - 1 \in 1 .. k - 1 BY <2>1, <2>2, <1>3, <1>4, <1>6
    <2>4. (b - 1) + 1 = b BY <1>3
    <2>5. Q[b - 1] = P[b] BY <2>3, <2>4, <1>9
    <2> QED BY <2>2, <2>3, <2>5
  <1> QED
    <2>1. Stream(m, h, next, last, tail, rest, Q)
      <3>1. \A w \in Words : Within(h, last, w, tail) => m[w] = Nop BY DEF Stream
      <3> QED BY <1>8, <1>9, <1>10, <1>11, <1>12, <3>1 DEF Stream
    <2> QED BY <2>1, <1>4, <1>5, <1>6, <1>7 DEF next, k, rest

\* A later origin makes no difference.
LEMMA StreamRebase ==
    ASSUME NEW m, NEW h \in Words, NEW g \in Words, NEW head \in Words, NEW last \in Words, NEW tail \in Words,
           NEW ord, NEW P, Stream(m, h, head, last, tail, ord, P),
           Off(h, g) <= Off(h, head), Off(h, head) <= Off(h, last), Off(h, last) <= Off(h, tail)
    PROVE  Stream(m, g, head, last, tail, ord, P)
  <1>1. \A w \in Words : Off(h, w) \in Int /\ 0 <= Off(h, w) /\ Off(h, w) < Size
                         /\ Off(g, w) \in Int /\ 0 <= Off(g, w) /\ Off(g, w) < Size
    <2>1. \A w \in Words : Off(h, w) \in Words /\ Off(g, w) \in Words BY OffMod
    <2>2. \A v \in Words : v \in Int /\ 0 <= v /\ v < Size BY RingAssumption DEF Words
    <2> QED BY <2>1, <2>2
  <1>2. \A w \in Words : /\ Off(h, g) <= Off(h, w) => Off(g, w) = Off(h, w) - Off(h, g)
                         /\ Off(h, w) < Off(h, g) => Off(g, w) = Off(h, w) - Off(h, g) + Size
    BY Rebase
  <1>3. ASSUME NEW w \in Words PROVE (Within(g, head, w, last) <=> Within(h, head, w, last))
                                     /\ (Within(g, last, w, tail) <=> Within(h, last, w, tail))
    <2>1. /\ Off(g, head) = Off(h, head) - Off(h, g) /\ Off(g, last) = Off(h, last) - Off(h, g)
          /\ Off(g, tail) = Off(h, tail) - Off(h, g)
      BY <1>1, <1>2
    <2>2. CASE Off(h, g) <= Off(h, w) BY <2>1, <2>2, <1>1, <1>2 DEF Within
    <2>3. CASE Off(h, w) < Off(h, g)
      <3>1. Off(g, w) = Off(h, w) - Off(h, g) + Size BY <2>3, <1>2
      <3>2. ~(Off(g, w) < Off(g, last)) /\ ~(Off(g, w) < Off(g, tail)) BY <3>1, <2>1, <1>1, SizeFacts
      <3>3. ~(Off(h, head) <= Off(h, w)) /\ ~(Off(h, last) <= Off(h, w)) BY <2>3, <1>1
      <3> QED BY <3>2, <3>3 DEF Within
    <2> QED BY <2>2, <2>3, <1>1
  <1>4. P \in [1 .. Len(ord) -> Words] BY DEF Stream
  <1>5. ASSUME NEW i \in 1 .. Len(ord), NEW j \in 1 .. Len(ord), i < j PROVE Off(g, P[i]) < Off(g, P[j])
    <2>1. P[i] \in Words /\ P[j] \in Words BY <1>4
    <2>2. Off(h, head) <= Off(h, P[i]) /\ Off(h, head) <= Off(h, P[j]) /\ Off(h, P[i]) < Off(h, P[j])
      BY <1>5 DEF Stream, Within
    <2>3. Off(h, g) <= Off(h, P[i]) /\ Off(h, g) <= Off(h, P[j]) BY <2>1, <2>2, <1>1
    <2> QED BY <2>1, <2>2, <2>3, <1>1, <1>2
  <1> QED BY <1>3, <1>4, <1>5 DEF Stream
------------------------------------------------------------------------------
\* What is to come.
\* A set that may get one number more.
LEMMA SetExtend ==
    ASSUME NEW l \in Nat, NEW V, V \subseteq 0 .. l, NEW B \in BOOLEAN
    PROVE  LET U == V \cup {i \in {l + 1} : B} IN
           U \subseteq 0 .. l + 1 /\ (\A i \in 0 .. l : i \in U <=> i \in V) /\ (l + 1 \in U <=> B)
  <1>1. l + 1 \notin V BY SMT
  <1>2. 0 .. l \subseteq 0 .. l + 1 /\ l + 1 \in 0 .. l + 1 /\ l + 1 \notin 0 .. l BY SMT
  <1> QED BY <1>1, <1>2

\* A further command comes last.
LEMMA FutureEmit ==
    ASSUME NEW ord \in Seq(Cmds), NEW N, NEW W, NEW S, NEW d \in Nat, NEW c, NEW o \in Nat \ {0},
           Future(ord, N, W, S, d, c, o), NEW x \in Cmds, NEW last, last = (IF x = "seqno" THEN o ELSE o - 1),
           x = "batch" => Len(ord) \notin S, x = "seqno" => Len(ord) \notin W
    PROVE  Future(Append(ord, x), [i \in 0 .. Len(ord) + 1 |-> IF i = Len(ord) + 1 THEN last ELSE N[i]],
                  W \cup {i \in {Len(ord) + 1} :
                                x = "batch" \/ (Len(ord) \in W /\ x \notin {"flush", "invalidate"})},
                  S \cup {i \in {Len(ord) + 1} : x = "batch" \/ (Len(ord) \in S /\ x # "invalidate")},
                  d, c, last + 1)
  <1> DEFINE l == Len(ord)
             k == l + 1
             ord2 == Append(ord, x)
             N2 == [i \in 0 .. k |-> IF i = k THEN last ELSE N[i]]
             W2 == W \cup {i \in {k} : x = "batch" \/ (l \in W /\ x \notin {"flush", "invalidate"})}
             S2 == S \cup {i \in {k} : x = "batch" \/ (l \in S /\ x # "invalidate")}
  <1>1. /\ l \in Nat /\ Len(ord2) = k /\ ord2[k] = x
        /\ \A i \in 1 .. l : ord2[i] = ord[i] BY AppendProperties, LenProperties
  <1>2. /\ N \in [0 .. l -> Nat] /\ W \subseteq 0 .. l /\ S \subseteq 0 .. l
        /\ N[0] = d /\ (0 \in W <=> c.written) /\ (0 \in S <=> c.stale) /\ N[l] = o - 1 BY DEF Future
  <1>3. last \in Nat /\ (x = "seqno" => last = o) /\ (x # "seqno" => last = o - 1) BY SMT
  <1>4. N2 \in [0 .. k -> Nat] /\ N2[k] = last /\ \A i \in 0 .. l : N2[i] = N[i]
    BY <1>1, <1>2, <1>3
  <1>5. /\ W2 \subseteq 0 .. k /\ S2 \subseteq 0 .. k
        /\ \A i \in 0 .. l : (i \in W2 <=> i \in W) /\ (i \in S2 <=> i \in S)
        /\ k \in W2 <=> x = "batch" \/ (l \in W /\ x \notin {"flush", "invalidate"})
        /\ k \in S2 <=> x = "batch" \/ (l \in S /\ x # "invalidate")
    <2>1. /\ W2 \subseteq 0 .. k /\ (\A i \in 0 .. l : i \in W2 <=> i \in W)
          /\ k \in W2 <=> x = "batch" \/ (l \in W /\ x \notin {"flush", "invalidate"})
      <3>1. (x = "batch" \/ (l \in W /\ x \notin {"flush", "invalidate"})) \in BOOLEAN OBVIOUS
      <3> QED BY <3>1, <1>1, <1>2, SetExtend
    <2>2. /\ S2 \subseteq 0 .. k /\ (\A i \in 0 .. l : i \in S2 <=> i \in S)
          /\ k \in S2 <=> x = "batch" \/ (l \in S /\ x # "invalidate")
      <3>1. (x = "batch" \/ (l \in S /\ x # "invalidate")) \in BOOLEAN OBVIOUS
      <3> QED BY <3>1, <1>1, <1>2, SetExtend
    <2> QED BY <2>1, <2>2
  <1> HIDE DEF l, ord2, N2, W2, S2
  <1>6. ASSUME NEW i \in 1 .. k
        PROVE  /\ N2[i] = (IF ord2[i] = "seqno" THEN N2[i - 1] + 1 ELSE N2[i - 1])
               /\ i \in W2 <=> ord2[i] = "batch" \/ (i - 1 \in W2 /\ ord2[i] \notin {"flush", "invalidate"})
               /\ i \in S2 <=> ord2[i] = "batch" \/ (i - 1 \in S2 /\ ord2[i] # "invalidate")
               /\ ord2[i] = "batch" => i - 1 \notin S2
               /\ ord2[i] = "seqno" => i - 1 \notin W2
    <2>1. CASE i = k
      <3>1. i - 1 = l /\ l \in 0 .. l BY <2>1, <1>1
      <3>2. N2[l] = o - 1 BY <3>1, <1>2, <1>4
      <3>3. N2[i] = (IF ord2[i] = "seqno" THEN N2[i - 1] + 1 ELSE N2[i - 1])
        BY <2>1, <3>1, <3>2, <1>1, <1>3, <1>4
      <3>4. (l \in W2 <=> l \in W) /\ (l \in S2 <=> l \in S) BY <3>1, <1>5
      <3> QED BY <2>1, <3>1, <3>3, <3>4, <1>1, <1>5 DEF l
    <2>2. CASE i # k
      <3>1. i \in 1 .. l /\ i \in 0 .. l /\ i - 1 \in 0 .. l BY <2>2, <1>1
      <3>2. /\ N[i] = (IF ord[i] = "seqno" THEN N[i - 1] + 1 ELSE N[i - 1])
            /\ i \in W <=> ord[i] = "batch" \/ (i - 1 \in W /\ ord[i] \notin {"flush", "invalidate"})
            /\ i \in S <=> ord[i] = "batch" \/ (i - 1 \in S /\ ord[i] # "invalidate")
            /\ ord[i] = "batch" => i - 1 \notin S
            /\ ord[i] = "seqno" => i - 1 \notin W
        BY <3>1 DEF Future, l
      <3>3. N2[i] = N[i] /\ N2[i - 1] = N[i - 1] /\ ord2[i] = ord[i] BY <3>1, <1>1, <1>4
      <3>4. (i \in W2 <=> i \in W) /\ (i - 1 \in W2 <=> i - 1 \in W)
            /\ (i \in S2 <=> i \in S) /\ (i - 1 \in S2 <=> i - 1 \in S) BY <3>1, <1>5
      <3> QED BY <3>2, <3>3, <3>4
    <2> QED BY <2>1, <2>2
  <1>7. ASSUME NEW i \in 0 .. k, NEW j \in 0 .. k, i <= j PROVE N2[i] <= N2[j]
    <2>1. CASE i = k
      <3>1. j = k BY <2>1, <1>7, <1>1
      <3> QED BY <2>1, <3>1, <1>4
    <2>2. CASE i # k /\ j = k
      <3>1. i \in 0 .. l /\ l \in 0 .. l /\ i <= l BY <2>2, <1>1
      <3>2. N[i] <= N[l] BY <3>1 DEF Future, l
      <3> QED BY <2>2, <3>1, <3>2, <1>2, <1>3, <1>4
    <2>3. CASE i # k /\ j # k
      <3>1. i \in 0 .. l /\ j \in 0 .. l BY <2>3, <1>1
      <3>2. N[i] <= N[j] BY <3>1, <1>7 DEF Future, l
      <3> QED BY <3>1, <3>2, <1>4
    <2> QED BY <2>1, <2>2, <2>3
  <1>8. N2[0] = d /\ (0 \in W2 <=> c.written) /\ (0 \in S2 <=> c.stale)
    <2>1. 0 \in 0 .. l BY <1>1
    <2> QED BY <2>1, <1>2, <1>4, <1>5
  <1>9. N2[k] = (last + 1) - 1 BY <1>3, <1>4
  <1> QED
    <2>1. Future(ord2, N2, W2, S2, d, c, last + 1)
      BY <1>1, <1>4, <1>5, <1>6, <1>7, <1>8, <1>9 DEF Future
    <2> QED BY <2>1 DEF l, ord2, N2, W2, S2

\* What is to come, a command later.
Shifted(l, N, W, S, N2, W2, S2) ==
    /\ N2 \in [0 .. l - 1 -> Nat] /\ W2 \subseteq 0 .. l - 1 /\ S2 \subseteq 0 .. l - 1
    /\ \A i \in 0 .. l - 1 : N2[i] = N[i + 1] /\ (i \in W2 <=> i + 1 \in W) /\ (i \in S2 <=> i + 1 \in S)
\* What the command x does to the last breadcrumb and to the caches.
Does(x, d, c, d2, c2) ==
    /\ d2 = (IF x = "seqno" THEN d + 1 ELSE d)
    /\ c2.written <=> x = "batch" \/ (c.written /\ x \notin {"flush", "invalidate"})
    /\ c2.stale <=> x = "batch" \/ (c.stale /\ x # "invalidate")

\* The first command is done.
LEMMA FutureTake ==
    ASSUME NEW ord \in Seq(Cmds), ord # <<>>, NEW N, NEW W, NEW S, NEW d \in Nat, NEW c, NEW o \in Nat \ {0},
           Future(ord, N, W, S, d, c, o), NEW d2, NEW c2, Does(ord[1], d, c, d2, c2),
           NEW N2, NEW W2, NEW S2, Shifted(Len(ord), N, W, S, N2, W2, S2)
    PROVE  Future(Tail(ord), N2, W2, S2, d2, c2, o)
  <1> DEFINE l == Len(ord)
             k == l - 1
             ord2 == Tail(ord)
  <1>1. /\ l \in Nat \ {0} /\ Len(ord2) = k /\ k \in Nat
        /\ \A i \in 1 .. k : ord2[i] = ord[i + 1] BY HeadTailProperties, EmptySeq
  <1>2. /\ N \in [0 .. l -> Nat] /\ N[0] = d /\ N[l] = o - 1
        /\ (0 \in W <=> c.written) /\ (0 \in S <=> c.stale) BY DEF Future
  <1>3. N2 \in [0 .. k -> Nat] /\ \A i \in 0 .. k : N2[i] = N[i + 1] BY DEF Shifted
  <1>4. \A i \in 0 .. k : (i \in W2 <=> i + 1 \in W) /\ (i \in S2 <=> i + 1 \in S) BY DEF Shifted
  <1>5. W2 \subseteq 0 .. k /\ S2 \subseteq 0 .. k BY DEF Shifted
  <1> HIDE DEF l, k, ord2
  <1>6. \A i \in 1 .. l :
            /\ N[i] = (IF ord[i] = "seqno" THEN N[i - 1] + 1 ELSE N[i - 1])
            /\ i \in W <=> ord[i] = "batch" \/ (i - 1 \in W /\ ord[i] \notin {"flush", "invalidate"})
            /\ i \in S <=> ord[i] = "batch" \/ (i - 1 \in S /\ ord[i] # "invalidate")
            /\ ord[i] = "batch" => i - 1 \notin S
            /\ ord[i] = "seqno" => i - 1 \notin W
    BY DEF Future, l
  <1>7. N2[0] = d2 /\ (0 \in W2 <=> c2.written) /\ (0 \in S2 <=> c2.stale)
    <2>1. 1 \in 1 .. l /\ 0 \in 0 .. k /\ 1 - 1 = 0 /\ 0 + 1 = 1 BY <1>1 DEF k
    <2>2. /\ N[1] = (IF ord[1] = "seqno" THEN N[0] + 1 ELSE N[0])
          /\ 1 \in W <=> ord[1] = "batch" \/ (0 \in W /\ ord[1] \notin {"flush", "invalidate"})
          /\ 1 \in S <=> ord[1] = "batch" \/ (0 \in S /\ ord[1] # "invalidate")
      BY <2>1, <1>6
    <2>3. N2[0] = N[1] /\ (0 \in W2 <=> 1 \in W) /\ (0 \in S2 <=> 1 \in S) BY <2>1, <1>3, <1>4
    <2> QED BY <2>2, <2>3, <1>2 DEF Does
  <1>8. N2[k] = o - 1
    <2>1. k \in 0 .. k /\ k + 1 = l BY <1>1 DEF k
    <2> QED BY <2>1, <1>2, <1>3
  <1>9. ASSUME NEW i \in 1 .. k
        PROVE  /\ N2[i] = (IF ord2[i] = "seqno" THEN N2[i - 1] + 1 ELSE N2[i - 1])
               /\ i \in W2 <=> ord2[i] = "batch" \/ (i - 1 \in W2 /\ ord2[i] \notin {"flush", "invalidate"})
               /\ i \in S2 <=> ord2[i] = "batch" \/ (i - 1 \in S2 /\ ord2[i] # "invalidate")
               /\ ord2[i] = "batch" => i - 1 \notin S2
               /\ ord2[i] = "seqno" => i - 1 \notin W2
    <2>1. i + 1 \in 1 .. l /\ (i + 1) - 1 = i /\ i \in 0 .. k /\ i - 1 \in 0 .. k /\ (i - 1) + 1 = i
      BY <1>1 DEF k
    <2>2. /\ N[i + 1] = (IF ord[i + 1] = "seqno" THEN N[i] + 1 ELSE N[i])
          /\ i + 1 \in W <=> ord[i + 1] = "batch" \/ (i \in W /\ ord[i + 1] \notin {"flush", "invalidate"})
          /\ i + 1 \in S <=> ord[i + 1] = "batch" \/ (i \in S /\ ord[i + 1] # "invalidate")
          /\ ord[i + 1] = "batch" => i \notin S
          /\ ord[i + 1] = "seqno" => i \notin W
      BY <2>1, <1>6
    <2>3. N2[i] = N[i + 1] /\ N2[i - 1] = N[i] /\ ord2[i] = ord[i + 1] BY <2>1, <1>1, <1>3
    <2>4. (i \in W2 <=> i + 1 \in W) /\ (i - 1 \in W2 <=> i \in W)
          /\ (i \in S2 <=> i + 1 \in S) /\ (i - 1 \in S2 <=> i \in S) BY <2>1, <1>4
    <2> QED BY <2>2, <2>3, <2>4
  <1>10. ASSUME NEW i \in 0 .. k, NEW j \in 0 .. k, i <= j PROVE N2[i] <= N2[j]
    <2>1. i + 1 \in 0 .. l /\ j + 1 \in 0 .. l /\ i + 1 <= j + 1 BY <1>1, <1>10 DEF k
    <2>2. N[i + 1] <= N[j + 1] BY <2>1 DEF Future, l
    <2> QED BY <2>2, <1>3
  <1> QED
    <2>1. Future(ord2, N2, W2, S2, d2, c2, o)
      BY <1>1, <1>3, <1>5, <1>7, <1>8, <1>9, <1>10 DEF Future
    <2> QED BY <2>1 DEF l, k, ord2
------------------------------------------------------------------------------
\* The requests and the commands to come.
\* A command at tail, behind those of ord; o is the seqno if it is a breadcrumb.
Behind(ord, N, P, x, tail, o, ord2, N2, Q) ==
    /\ Len(ord2) = Len(ord) + 1 /\ ord2[Len(ord) + 1] = x /\ Q[Len(ord) + 1] = tail
    /\ x = "seqno" => N2[Len(ord) + 1] = o
    /\ \A i \in 1 .. Len(ord) : ord2[i] = ord[i] /\ N2[i] = N[i] /\ Q[i] = P[i]

\* A breadcrumb brings its request.
LEMMA AwaitedEmit ==
    ASSUME NEW req \in Seq(Reqs), NEW ord \in Seq(Cmds), NEW N, NEW P, NEW d \in Nat, NEW o \in Nat,
           Awaited(req, ord, N, P, d), NEW x \in Cmds, NEW tail \in Words, NEW ord2, NEW N2, NEW Q,
           Behind(ord, N, P, x, tail, o, ord2, N2, Q),
           NEW req2, x # "seqno" => req2 = req, x = "seqno" => req2 = Append(req, [seqno |-> o, tail |-> tail])
    PROVE  Awaited(req2, ord2, N2, Q, d)
  <1> DEFINE l == Len(ord)
  <1>1. l \in Nat /\ Len(req) \in Nat BY LenProperties
  <1>5. /\ Len(ord2) = l + 1 /\ ord2[l + 1] = x /\ Q[l + 1] = tail
        /\ x = "seqno" => N2[l + 1] = o
        /\ \A i \in 1 .. l : ord2[i] = ord[i] /\ N2[i] = N[i] /\ Q[i] = P[i] BY DEF Behind
  <1> HIDE DEF l
  <1>2. ASSUME NEW j \in 1 .. Len(req), req[j].seqno > d
        PROVE  \E i \in 1 .. Len(ord2) : ord2[i] = "seqno" /\ N2[i] = req[j].seqno /\ req[j].tail \in {-1, Q[i]}
    <2>1. PICK i \in 1 .. l : ord[i] = "seqno" /\ N[i] = req[j].seqno /\ req[j].tail \in {-1, P[i]}
      BY <1>2 DEF Awaited, l
    <2>2. i \in 1 .. Len(ord2) BY <1>1, <1>5
    <2> QED BY <2>1, <2>2, <1>5
  <1>3. CASE x # "seqno" BY <1>2, <1>3 DEF Awaited
  <1>4. CASE x = "seqno"
    <2> DEFINE r == [seqno |-> o, tail |-> tail]
    <2>1. r \in Reqs /\ r.seqno = o /\ r.tail = tail BY DEF Reqs
    <2> HIDE DEF r
    <2>2. /\ Len(Append(req, r)) = Len(req) + 1
          /\ \A j \in 1 .. Len(req) : Append(req, r)[j] = req[j]
          /\ Append(req, r)[Len(req) + 1] = r BY <2>1, AppendProperties
    <2>3. ASSUME NEW j \in 1 .. Len(req) + 1, Append(req, r)[j].seqno > d
          PROVE  \E i \in 1 .. Len(ord2) : ord2[i] = "seqno" /\ N2[i] = Append(req, r)[j].seqno
                                           /\ Append(req, r)[j].tail \in {-1, Q[i]}
      <3>1. CASE j = Len(req) + 1
        <4>1. l + 1 \in 1 .. Len(ord2) BY <1>1, <1>5
        <4> QED BY <4>1, <3>1, <2>1, <2>2, <1>4, <1>5
      <3>2. CASE j # Len(req) + 1
        <4>1. j \in 1 .. Len(req) BY <3>2, <1>1
        <4> QED BY <4>1, <2>2, <2>3, <1>2
      <3> QED BY <3>1, <3>2
    <2>4. Awaited(Append(req, r), ord2, N2, Q, d) BY <2>2, <2>3 DEF Awaited
    <2> QED BY <2>4, <1>4 DEF r
  <1> QED BY <1>3, <1>4

\* A breadcrumb that the hardware takes is that of the next seqno.
LEMMA AwaitedTake ==
    ASSUME NEW req \in Seq(Reqs), NEW ord \in Seq(Cmds), ord # <<>>, NEW N, NEW P, NEW W, NEW S, NEW d \in Nat,
           NEW c, NEW o, Future(ord, N, W, S, d, c, o), Awaited(req, ord, N, P, d),
           NEW d2, d2 = (IF ord[1] = "seqno" THEN d + 1 ELSE d)
    PROVE  /\ Awaited(req, Tail(ord), [i \in 0 .. Len(ord) - 1 |-> N[i + 1]],
                      [i \in 1 .. Len(ord) - 1 |-> P[i + 1]], d2)
           /\ \A j \in 1 .. Len(req) : req[j].seqno > d /\ req[j].seqno <= d2 => req[j].tail \in {-1, P[1]}
  <1> DEFINE l == Len(ord)
             k == l - 1
             ord2 == Tail(ord)
             N2 == [i \in 0 .. k |-> N[i + 1]]
             Q == [i \in 1 .. k |-> P[i + 1]]
  <1>1. /\ l \in Nat \ {0} /\ Len(ord2) = k /\ k \in Nat
        /\ \A i \in 1 .. k : ord2[i] = ord[i + 1] BY HeadTailProperties, EmptySeq
  <1>2. /\ \A i \in 0 .. k : N2[i] = N[i + 1]
        /\ \A i \in 1 .. k : Q[i] = P[i + 1] OBVIOUS
  <1>3. N \in [0 .. l -> Nat] /\ N[0] = d BY DEF Future
  <1> HIDE DEF l, k, ord2, N2, Q
  <1>4. N[1] = d2
    <2>1. 1 \in 1 .. l /\ 1 - 1 = 0 BY <1>1
    <2>2. N[1] = (IF ord[1] = "seqno" THEN N[0] + 1 ELSE N[0]) BY <2>1 DEF Future, l
    <2> QED BY <2>2, <1>3
  <1>5. \A j \in 1 .. Len(req) : req[j].seqno \in Nat
    <2>1. \A j \in 1 .. Len(req) : req[j] \in Reqs BY ElementOfSeq
    <2> QED BY <2>1 DEF Reqs
  \* Only the first command brings d + 1.
  <1>6. ASSUME NEW i \in 1 .. l, ord[i] = "seqno", i # 1 PROVE N[i] > d2
    <2>1. i - 1 \in 0 .. l /\ 1 \in 0 .. l /\ 1 <= i - 1 BY <1>1, <1>6
    <2>2. N[1] <= N[i - 1] BY <2>1 DEF Future, l
    <2>3. N[i] = N[i - 1] + 1 BY <1>6 DEF Future, l
    <2>4. N[i - 1] \in Nat /\ N[1] \in Nat BY <2>1, <1>3
    <2> QED BY <2>2, <2>3, <2>4, <1>4
  <1>7. ASSUME NEW j \in 1 .. Len(req), req[j].seqno > d, req[j].seqno <= d2 PROVE req[j].tail \in {-1, P[1]}
    <2>1. PICK i \in 1 .. l : ord[i] = "seqno" /\ N[i] = req[j].seqno /\ req[j].tail \in {-1, P[i]}
      BY <1>7 DEF Awaited, l
    <2>2. i = 1 BY <2>1, <1>5, <1>6, <1>7
    <2> QED BY <2>1, <2>2
  <1>8. ASSUME NEW j \in 1 .. Len(req), req[j].seqno > d2
        PROVE  \E i \in 1 .. k : ord2[i] = "seqno" /\ N2[i] = req[j].seqno /\ req[j].tail \in {-1, Q[i]}
    <2>1. req[j].seqno > d BY <1>5, <1>8
    <2>2. PICK i \in 1 .. l : ord[i] = "seqno" /\ N[i] = req[j].seqno /\ req[j].tail \in {-1, P[i]}
      BY <2>1 DEF Awaited, l
    <2>3. i # 1 BY <2>2, <1>4, <1>5, <1>8
    <2>4. i - 1 \in 1 .. k /\ i - 1 \in 0 .. k /\ (i - 1) + 1 = i BY <2>3, <1>1 DEF k
    <2>5. ord2[i - 1] = "seqno" /\ N2[i - 1] = req[j].seqno /\ req[j].tail \in {-1, Q[i - 1]}
      BY <2>2, <2>4, <1>1, <1>2
    <2> QED BY <2>4, <2>5
  <1>9. Awaited(req, ord2, N2, Q, d2) BY <1>1, <1>8 DEF Awaited
  <1> QED BY <1>7, <1>9 DEF l, k, ord2, N2, Q

\* The requests that are done come first.
LEMMA RetiredFirst ==
    ASSUME NEW req \in Seq(Reqs), NEW o \in Nat, Numbered(req, o), NEW d \in Nat, d < o,
           NEW R, \A i : i \in R <=> i \in 1 .. Len(req) /\ req[i].seqno <= d
    PROVE  /\ Cardinality(R) \in 0 .. Len(req) /\ R = 1 .. Cardinality(R)
           /\ Cardinality(R) = 0 \/ Cardinality(R) = d - (o - 1 - Len(req))
  <1> DEFINE b == o - 1 - Len(req)
  <1>1. Len(req) \in Nat /\ b \in Nat /\ \A j \in 1 .. Len(req) : req[j].seqno = b + j
    BY LenProperties DEF Numbered
  <1>0. b + Len(req) = o - 1 BY <1>1
  <1> HIDE DEF b
  <1>4. R \subseteq 1 .. Len(req) /\ \A i \in 1 .. Len(req) : i \in R <=> b + i <= d BY <1>1
  <1>2. CASE d <= b
    <2>1. \A i \in 1 .. Len(req) : i \notin R BY <1>1, <1>2, <1>4
    <2>4. R = {} BY <2>1, <1>4
    <2>2. Cardinality(R) = 0 BY <2>4, FS_EmptySet
    <2>3. R = 1 .. 0 BY <2>4, SMT
    <2> QED BY <2>2, <2>3, <1>1
  <1>3. CASE b < d
    <2>1. d - b \in 1 .. Len(req) BY <1>0, <1>1, <1>3
    <2>2. R = 1 .. (d - b)
      <3>1. ASSUME NEW i \in R PROVE i \in 1 .. (d - b) BY <1>1, <1>4
      <3>2. ASSUME NEW i \in 1 .. (d - b) PROVE i \in R
        <4>1. i \in 1 .. Len(req) /\ b + i <= d BY <2>1, <1>1
        <4> QED BY <4>1, <1>4
      <3> QED BY <3>1, <3>2
    <2>3. Cardinality(1 .. (d - b)) = d - b BY <2>1, FS_Interval
    <2>4. Cardinality(R) = d - b BY <2>2, <2>3
    <2>5. R = 1 .. Cardinality(R) BY <2>2, <2>4
    <2>6. Cardinality(R) \in 0 .. Len(req) BY <2>1, <2>4, <1>1
    <2>7. Cardinality(R) = d - (o - 1 - Len(req)) BY <2>4 DEF b
    <2> QED BY <2>5, <2>6, <2>7
  <1> QED BY <1>1, <1>2, <1>3
------------------------------------------------------------------------------
\* What the invariant says of each variable.
LEMMA Facts ==
    ASSUME IInv
    PROVE  /\ mem \in Memory /\ order \in Seq(Cmds) /\ requests \in Seq(Reqs)
           /\ hw.head \in Words /\ hw.tail \in Words /\ sw.head \in Words /\ sw.tail \in Words
           /\ done \in Nat /\ olr \in Nat \ {0} /\ done < olr
           /\ \A w \in Words : w \in Int /\ 0 <= w /\ w < Size
           /\ \A w \in Words : Off(sw.head, w) \in Int /\ 0 <= Off(sw.head, w) /\ Off(sw.head, w) < Size
  <1>1. /\ mem \in Memory /\ order \in Seq(Cmds) /\ requests \in Seq(Reqs)
        /\ hw.head \in Words /\ hw.tail \in Words /\ sw.head \in Words /\ sw.tail \in Words
        /\ done \in Nat /\ olr \in Nat \ {0}
    BY RingAssumption DEF IInv, Types, Memory
  <1>2. \A w \in Words : w \in Int /\ 0 <= w /\ w < Size BY RingAssumption DEF Words
  <1>3. \A w \in Words : Off(sw.head, w) \in Words BY <1>1, OffMod
  <1>4. done < olr
    <2>1. PICK P, N, W, S : Ghost(P, N, W, S) BY DEF IInv
    <2>2. Len(order) \in Nat BY <1>1, LenProperties
    <2>3. /\ N[0] = done /\ N[Len(order)] = olr - 1
          /\ \A i, j \in 0 .. Len(order) : i <= j => N[i] <= N[j]
      BY <2>1 DEF Ghost, Future
    <2>4. 0 \in 0 .. Len(order) /\ Len(order) \in 0 .. Len(order) BY <2>2
    <2>5. N[0] <= N[Len(order)] BY <2>2, <2>3, <2>4
    <2> QED BY <2>3, <2>5, <1>1
  <1> QED BY <1>1, <1>2, <1>3, <1>4

\* What comes of a list of commands.
LEMMA TodoFacts ==
    ASSUME NEW t \in Todos, t # <<>>
    PROVE  /\ Head(t) \in Cmds /\ Tail(t) \in Todos
           /\ Head(t) = "seqno" <=> t = <<"seqno">>
           /\ Head(t) = "batch" <=> t = <<"batch", "flush", "seqno">>
           /\ Tail(t) = <<"seqno">> => Head(t) = "flush"
           /\ Tail(t) = <<"batch", "flush", "seqno">> => Head(t) = "invalidate"
           /\ Head(t) = "flush" => Tail(t) = <<"seqno">>
           /\ Head(t) = "seqno" => Tail(t) = <<>>
  <1>1. CASE t = Full BY <1>1 DEF Full, Todos, Cmds
  <1>2. CASE t = <<"batch", "flush", "seqno">> BY <1>2 DEF Todos, Cmds
  <1>3. CASE t = <<"flush", "seqno">> BY <1>3 DEF Todos, Cmds
  <1>4. CASE t = <<"seqno">> BY <1>4 DEF Todos, Cmds
  <1> QED BY <1>1, <1>2, <1>3, <1>4 DEF Todos

\* Two steps of the setup, one after the other.
Names == {"copy", "status", "object", "pin", "map", "start", "control"}
LEMMA StepsFacts ==
    /\ Steps \in Seq(Names) /\ Len(Steps) \in Nat \ {0}
    /\ \A i \in 1 .. Len(Steps) - 1 : Before(Steps[i]) \cup {Steps[i]} \subseteq Before(Steps[i + 1])
  <1>1. CASE Old
    <2>1. Steps = <<"copy", "status", "object", "pin", "map", "start">> BY <1>1 DEF Steps
    <2> QED BY <1>1, <2>1 DEF Before, Copy, Names
  <1>2. CASE gen >= 5 /\ ~Old
    <2>1. Steps = <<"status", "object", "pin", "map", "start", "control">> BY <1>2 DEF Steps
    <2> QED BY <1>2, <2>1 DEF Before, Copy, Names
  <1>3. CASE ~(gen >= 5) /\ ~Old
    <2>1. Steps = <<"status", "object", "pin", "map", "start">> BY <1>3 DEF Steps
    <2> QED BY <1>3, <2>1 DEF Before, Copy, Names
  <1> QED BY <1>1, <1>2, <1>3

\* The invariant holds at the start.
LEMMA InitOK == RingInit => IInv
  <1> SUFFICES ASSUME RingInit PROVE IInv OBVIOUS
  <1>1. order = <<>> /\ requests = <<>> /\ Len(order) = 0 /\ Len(requests) = 0 BY EmptySeq DEF RingInit
  <1>2. /\ sw.head = 0 /\ sw.tail = 0 /\ hw.head = 0 /\ hw.tail = 0 /\ sw.space = Size - Gap
        /\ sw.retired = -1 BY DEF RingInit
  <1>3. Types
    <2>1. mem \in [Words -> Cmds \cup {Nop}] BY DEF RingInit
    <2>2. hw \in [head : Words, tail : Words] BY SizeFacts DEF RingInit
    <2>3. sw \in [head : Words, tail : Words, space : Int, retired : Words \cup {-1}]
      <3>1. Size - Gap \in Int BY SizeFacts
      <3> QED BY <3>1, SizeFacts DEF RingInit
    <2>4. todo \in Todos /\ requests \in Seq(Reqs) /\ order \in Seq(Cmds) BY EmptySeq DEF RingInit, Todos
    <2>5. olr \in 1 .. MaxSeqno + 1 /\ (todo # <<>> => olr <= MaxSeqno) /\ done \in Nat
      BY RingAssumption DEF RingInit
    <2>6. dirty \in BOOLEAN /\ caches \in [written : BOOLEAN, stale : BOOLEAN] /\ amiss \subseteq Allowed
      BY DEF RingInit
    <2> QED BY <2>1, <2>2, <2>3, <2>4, <2>5, <2>6 DEF Types
  <1>4. SetupOK
    <2>1. Len(Steps) \in Nat \ {0} /\ SubSeq(Steps, 1, Len(Steps)) = Steps BY StepsFacts, SubSeqFull
    <2>2. /\ 1 \in 1 .. Len(Steps) /\ stage = [op |-> "setup", todo |-> SubSeq(Steps, 1, Len(Steps))]
          /\ has \subseteq Before(Steps[1])
      BY <2>1 DEF RingInit
    <2>3. stage.op # "failed" BY DEF RingInit
    <2> QED BY <2>2, <2>3 DEF SetupOK, NothingLeft
  <1>5. Pointers BY <1>2, SizeFacts DEF Pointers, Off
  <1>6. Numbered(requests, olr) /\ Finished(requests, done, sw.head, hw.head)
    BY <1>1 DEF RingInit, Numbered, Finished
  <1>7. \E P, N, W, S : Ghost(P, N, W, S)
    <2>1. PICK P : P = [i \in 1 .. 0 |-> 0] OBVIOUS
    <2>2. PICK N : N = [i \in 0 .. 0 |-> 0] OBVIOUS
    <2>3. 0 .. 0 = {0} /\ 1 .. 0 = {} OBVIOUS
    <2>4. Stream(mem, sw.head, hw.head, hw.tail, sw.tail, order, P)
      <3>1. P \in [1 .. 0 -> Words] BY <2>1
      <3>2. Off(0, 0) = 0 BY DEF Off
      <3>3. \A w \in Words : ~Within(0, 0, w, 0)
        <4>1. \A w \in Words : Off(0, w) \in Int BY SizeFacts, OffMod DEF Words
        <4> QED BY <4>1, <3>2 DEF Within
      <3> QED BY <1>1, <1>2, <3>1, <3>3, <2>3 DEF Stream
    <2>5. N \in [0 .. 0 -> Nat] /\ N[0] = 0 BY <2>2, <2>3
    <2>6. Future(order, N, {}, {}, done, caches, olr)
      BY <1>1, <2>3, <2>5 DEF Future, RingInit
    <2>7. Ends(Len(order), {}, {}, todo, dirty)
      <3>1. todo = <<>> /\ <<>> # <<"seqno">> /\ <<>> # <<"batch", "flush", "seqno">> BY DEF RingInit
      <3> QED BY <3>1 DEF Ends
    <2>8. Awaited(requests, order, N, P, done) BY <1>1 DEF Awaited
    <2>9. Ghost(P, N, {}, {}) BY <2>4, <2>6, <2>7, <2>8 DEF Ghost
    <2> QED BY <2>9
  <1> QED BY <1>3, <1>4, <1>5, <1>6, <1>7 DEF IInv

\* What the stream depends on.
LEMMA StreamKept ==
    ASSUME IInv, UNCHANGED <<mem, hw, sw, requests, olr, done, dirty, caches, order>>,
           todo' \in Todos, todo' # <<>> => olr <= MaxSeqno, amiss' \subseteq Allowed, SetupOK',
           todo' \in {todo, <<>>, Full, <<"flush", "seqno">>}
    PROVE  IInv'
  <1>1. Types' BY DEF IInv, Types
  <1>2. Pointers' BY DEF IInv, Pointers
  <1>3. Numbered(requests, olr)' /\ Finished(requests, done, sw.head, hw.head)' BY DEF IInv
  <1>4. PICK P, N, W, S : Ghost(P, N, W, S) BY DEF IInv
  <1>5. Ends(Len(order'), W, S, todo', dirty')
    <2>1. <<>> # <<"seqno">> /\ <<>> # <<"batch", "flush", "seqno">>
          /\ Full # <<"seqno">> /\ Full # <<"batch", "flush", "seqno">>
          /\ <<"flush", "seqno">> # <<"seqno">> /\ <<"flush", "seqno">> # <<"batch", "flush", "seqno">> BY DEF Full
    <2> QED BY <1>4, <2>1 DEF Ghost, Ends
  <1>6. Ghost(P, N, W, S)' BY <1>4, <1>5 DEF Ghost
  <1> QED BY <1>1, <1>2, <1>3, <1>6 DEF IInv

\* A step of the setup, or its failure.
LEMMA SetupStep == ASSUME IInv, Setup PROVE IInv'
  <1>1. UNCHANGED <<mem, hw, sw, requests, olr, done, dirty, caches, order, todo>> BY DEF Setup, streamVars
  <1>2. todo' \in Todos /\ (todo' # <<>> => olr <= MaxSeqno) BY <1>1 DEF IInv, Types
  <1>3. amiss' \subseteq Allowed BY DEF Setup, IInv, Types, Allowed
  <1>4. SetupOK'
    <2>1. PICK k \in 1 .. Len(Steps) : /\ stage = [op |-> "setup", todo |-> SubSeq(Steps, k, Len(Steps))]
                                       /\ has \subseteq Before(Steps[k])
      BY DEF IInv, SetupOK, Setup
    <2> DEFINE s == Head(stage.todo)
               rest == Tail(stage.todo)
    <2>2. /\ Steps \in Seq(Names) /\ Len(Steps) \in Nat /\ Steps' = Steps
          /\ \A i \in 1 .. Len(Steps) - 1 : Before(Steps[i]) \cup {Steps[i]} \subseteq Before(Steps[i + 1])
      <3>1. gen' = gen BY DEF Setup
      <3> QED BY <3>1, StepsFacts DEF Steps, Old
    <2>3. s = Steps[k] /\ rest = SubSeq(Steps, k + 1, Len(Steps))
      <3>1. stage.todo = SubSeq(Steps, k, Len(Steps)) BY <2>1
      <3> QED BY <3>1, <2>2, HeadTailOfSubSeq
    <2>4. s \in Names BY <2>2, <2>3, ElementOfSeq
    <2> HIDE DEF s, rest
    <2>5. CASE /\ has' = has \cup {s}
               /\ stage' = IF rest = <<>> THEN [op |-> "run", todo |-> <<>>] ELSE [stage EXCEPT !.todo = rest]
      <3>1. CASE rest = <<>>
        <4>1. stage'.op = "run" BY <3>1, <2>5
        <4> QED BY <4>1 DEF SetupOK, NothingLeft
      <3>2. CASE rest # <<>>
        <4>1. k + 1 \in 1 .. Len(Steps)
          <5>1. k # Len(Steps) BY <3>2, <2>2, <2>3, SubSeqEmpty
          <5> QED BY <5>1, <2>2
        <4>2. stage' = [op |-> "setup", todo |-> SubSeq(Steps, k + 1, Len(Steps))]
          <5>1. stage' = [stage EXCEPT !.todo = rest] BY <3>2, <2>5
          <5>2. stage' = [op |-> "setup", todo |-> rest] BY <5>1, <2>1
          <5> QED BY <5>2, <2>3
        <4>3. has' \subseteq Before(Steps[k + 1])
          <5>1. k \in 1 .. Len(Steps) - 1 /\ Steps[k] = s BY <4>1, <2>2, <2>3
          <5> QED BY <5>1, <2>1, <2>2, <2>5
        <4>4. stage'.op = "setup" /\ NothingLeft' BY <4>2 DEF NothingLeft
        <4>5. Steps' = Steps /\ (k + 1) \in 1 .. Len(Steps') BY <4>1, <2>2
        <4>6. has' \subseteq Before(Steps[k + 1])'
          <5>1. Before(Steps[k + 1])' = Before(Steps[k + 1])
            <6>1. Copy' = Copy BY DEF Setup, Copy, Old
            <6> QED BY <6>1, <2>2 DEF Before
          <5> QED BY <5>1, <4>3
        <4> QED BY <4>2, <4>4, <4>5, <4>6 DEF SetupOK
      <3> QED BY <3>1, <3>2
    <2>6. CASE UNCHANGED <<has, stage>>
      <3>1. /\ Copy' = Copy /\ Old' = Old /\ stage' = stage /\ has' = has
            /\ \A t \in Names : Before(t)' = Before(t) BY <2>6 DEF Setup, Before, Copy, Old
      <3>2. Before(Steps[k])' = Before(Steps[k]) BY <2>2, <2>1, <2>4, <3>1, ElementOfSeq
      <3>3. has' \subseteq Before(Steps[k])' BY <2>1, <3>1, <3>2
      <3>4. NothingLeft' BY <3>1 DEF IInv, SetupOK, NothingLeft
      <3> QED BY <2>1, <2>2, <3>1, <3>3, <3>4 DEF SetupOK
    <2>7. CASE has' = has \ Undone(s) /\ stage' = [op |-> "failed", todo |-> <<>>]
      <3>1. has \subseteq Before(s) BY <2>1, <2>3
      <3>2. Before(s) \ Undone(s) \subseteq IF Old THEN {"copy", "status"} ELSE {}
        <4>1. CASE Old BY <4>1, <2>4 DEF Before, Copy, Undone, Page, Names
        <4>2. CASE ~Old BY <4>2, <2>4 DEF Before, Copy, Undone, Page, Names
        <4> QED BY <4>1, <4>2
      <3>3. stage'.op = "failed" BY <2>7
      <3>4. Old' = Old BY DEF Setup, Old
      <3> QED BY <2>7, <3>1, <3>2, <3>3, <3>4 DEF SetupOK, NothingLeft
    <2> QED BY <2>5, <2>6, <2>7 DEF Setup, s, rest
  <1> QED BY <1>1, <1>2, <1>3, <1>4, StreamKept

\* Taking a ring down.
LEMMA CleanupStep == ASSUME IInv, Cleanup PROVE IInv'
  <1>1. UNCHANGED <<mem, hw, sw, requests, olr, done, dirty, caches, order, todo>> BY DEF Cleanup, streamVars
  <1>2. todo' \in Todos /\ (todo' # <<>> => olr <= MaxSeqno) BY <1>1 DEF IInv, Types
  <1>3. amiss' \subseteq Allowed BY DEF Cleanup, IInv, Types, Allowed
  <1>4. stage'.op = "gone" BY DEF Cleanup
  <1>5. SetupOK' BY <1>4 DEF SetupOK, NothingLeft
  <1> QED BY <1>1, <1>2, <1>3, <1>5, StreamKept

\* A new execbuffer.
LEMMA ExecStep == ASSUME IInv, Exec PROVE IInv'
  <1>1. UNCHANGED <<mem, hw, sw, requests, olr, done, dirty, caches, order, amiss, stage, has, gen>> BY DEF Exec
  <1>2. todo' = Full /\ todo' \in Todos /\ olr <= MaxSeqno BY DEF Exec, Full, Todos
  <1>3. amiss' \subseteq Allowed BY <1>1 DEF IInv, Types
  <1>4. SetupOK' BY <1>1 DEF IInv, SetupOK, NothingLeft, Steps, Old, Before, Copy
  <1> QED BY <1>1, <1>2, <1>3, <1>4, StreamKept

\* A breadcrumb for what was given up.
LEMMA AddRequestStep == ASSUME IInv, AddRequest PROVE IInv'
  <1>1. UNCHANGED <<mem, hw, sw, requests, olr, done, dirty, caches, order, amiss, stage, has, gen>> BY DEF AddRequest
  <1>2. todo' = <<"flush", "seqno">> /\ todo' \in Todos /\ olr <= MaxSeqno BY DEF AddRequest, Todos
  <1>3. amiss' \subseteq Allowed BY <1>1 DEF IInv, Types
  <1>4. SetupOK' BY <1>1 DEF IInv, SetupOK, NothingLeft, Steps, Old, Before, Copy
  <1> QED BY <1>1, <1>2, <1>3, <1>4, StreamKept

\* An execbuffer that is given up.
LEMMA GiveUpStep == ASSUME IInv, GiveUp PROVE IInv'
  <1>1. UNCHANGED <<mem, hw, sw, requests, olr, done, dirty, caches, order, amiss, stage, has, gen>> BY DEF GiveUp
  <1>2. todo' = <<>> /\ todo' \in Todos BY DEF GiveUp, Todos
  <1>3. amiss' \subseteq Allowed BY <1>1 DEF IInv, Types
  <1>4. SetupOK' BY <1>1 DEF IInv, SetupOK, NothingLeft, Steps, Old, Before, Copy
  <1> QED BY <1>1, <1>2, <1>3, <1>4, StreamKept

\* What is emitted within the space does not reach what the hardware has not read.
LEMMA NoOverwrite ==
    ASSUME IInv, NEW n \in Nat, sw.tail + n <= Size, Off(sw.head, sw.tail) + n < Size
    PROVE  ~Overwrites(sw.tail, n)
  <1> DEFINE h == sw.head
  <1>1. /\ h \in Words /\ sw.tail \in Words /\ hw.head \in Words /\ hw.tail \in Words
        /\ \A w \in Words : w \in Int /\ 0 <= w /\ w < Size
        /\ \A w \in Words : Off(h, w) \in Int /\ 0 <= Off(h, w) /\ Off(h, w) < Size BY Facts
  <1>2. Off(h, hw.head) <= Off(h, hw.tail) /\ Off(h, hw.tail) <= Off(h, sw.tail) BY DEF IInv, Pointers
  <1> HIDE DEF h
  <1>3. ASSUME NEW i \in 0 .. n - 1, sw.tail + i < Size
        PROVE  ~(((sw.tail + i) - hw.head) % Size < (hw.tail - hw.head) % Size)
    <2>1. sw.tail + i \in Words BY <1>1, <1>3, SizeFacts DEF Words
    <2>2. PICK w \in Words : w = sw.tail + i BY <2>1
    <2>8. sw.tail \in Int /\ w \in Int /\ w - sw.tail = i /\ Off(h, w) \in Int /\ Off(h, sw.tail) \in Int
          /\ Off(h, hw.head) \in Int /\ Off(h, hw.tail) \in Int
      <3>1. sw.tail \in Int /\ Off(h, sw.tail) \in Int /\ Off(h, hw.head) \in Int /\ Off(h, hw.tail) \in Int
        BY <1>1
      <3>2. i \in Int /\ w \in Int /\ Off(h, w) \in Int BY <1>1
      <3> QED BY <3>1, <3>2, <2>2
    <2>3. Off(h, w) = Off(h, sw.tail) + i
      <3>1. w \in sw.tail .. sw.tail + n - 1 BY <2>2, <2>8
      <3>2. Off(h, w) = Off(h, sw.tail) + (w - sw.tail) BY <3>1, <1>1, OffWithin DEF h
      <3> QED BY <3>2, <2>8
    <2>4. Off(h, hw.head) <= Off(h, w) BY <2>3, <2>8, <1>2
    <2>5. Off(hw.head, w) = Off(h, w) - Off(h, hw.head) BY <2>4, <1>1, Rebase
    <2>6. Off(hw.head, hw.tail) = Off(h, hw.tail) - Off(h, hw.head) BY <1>1, <1>2, Rebase
    <2>7. (w - hw.head) % Size = Off(hw.head, w) /\ (hw.tail - hw.head) % Size = Off(hw.head, hw.tail)
      BY <1>1, OffMod
    <2>9. ~(Off(hw.head, w) < Off(hw.head, hw.tail)) BY <2>3, <2>5, <2>6, <2>8, <1>2
    <2> QED BY <2>2, <2>7, <2>9
  <1> QED BY <1>3 DEF Overwrites

\* The tail goes back to the start, over fillers.
LEMMA WrapStep == ASSUME IInv, Wrap PROVE IInv'
  <1> DEFINE h == sw.head
             n == Size - sw.tail
  <1>1. /\ mem \in Memory /\ order \in Seq(Cmds) /\ h \in Words /\ sw.tail \in Words
        /\ hw.head \in Words /\ hw.tail \in Words
        /\ \A w \in Words : w \in Int /\ 0 <= w /\ w < Size
        /\ \A w \in Words : Off(h, w) \in Int /\ 0 <= Off(h, w) /\ Off(h, w) < Size BY Facts
  <1>2. /\ Off(h, hw.head) <= Off(h, hw.tail) /\ Off(h, hw.tail) <= Off(h, sw.tail)
        /\ sw.space = Size - Gap - Off(h, sw.tail) BY DEF IInv, Pointers
  <1>3. n \in Nat \ {0} /\ sw.tail + n = Size /\ Gap \in Int /\ Gap >= 1 BY <1>1, SizeFacts
  <1>4. Off(h, sw.tail) + n <= Size - Gap
    <2>1. sw.space >= n BY DEF Wrap
    <2> QED BY <2>1, <1>1, <1>2, <1>3, SizeFacts
  <1>5. Off(h, sw.tail) + n < Size BY <1>1, <1>3, <1>4, SizeFacts
  <1>6. 0 \in Words /\ Off(h, 0) = Off(h, sw.tail) + n
    <2>1. (sw.tail + n) % Size = 0 BY <1>3, SizeFacts
    <2>2. sw.tail + n <= Size BY <1>3, SizeFacts
    <2> QED BY <2>1, <2>2, <1>1, <1>3, <1>5, SizeFacts, OffPlus
  <1>7. RingSpace(h, 0) = Size - Gap - Off(h, 0) BY <1>1, <1>4, <1>6, SpaceIs
  <1>8. /\ sw'.head = h /\ sw'.tail = 0 /\ sw'.space = Size - Gap - Off(h, 0) /\ sw'.retired = sw.retired
        /\ sw' \in [head : Words, tail : Words, space : Int, retired : Words \cup {-1}]
    <2>1. sw' = [sw EXCEPT !.tail = 0, !.space = RingSpace(h, 0)] BY DEF Wrap
    <2>2. RingSpace(h, 0) \in Int BY <1>1, <1>6, <1>7, SizeFacts
    <2>3. sw \in [head : Words, tail : Words, space : Int, retired : Words \cup {-1}] BY DEF IInv, Types
    <2> QED BY <2>1, <2>2, <2>3, <1>6, <1>7
  <1>9. mem' = Filled(mem, sw.tail, n, Nop) /\ mem' \in Memory
    <2>1. mem' = Filled(mem, sw.tail, n, Nop) BY DEF Wrap, Fill, Filled
    <2>2. sw.tail + n <= Size BY <1>3, SizeFacts
    <2> QED BY <2>1, <2>2, <1>1, <1>3, <1>5, FilledWords
  <1>10. UNCHANGED <<gen, has, stage, hw, todo, requests, olr, done, dirty, caches, order>> BY DEF Wrap
  <1>11. amiss' = {}
    <2>1. ~Overwrites(sw.tail, n)
      <3>1. n \in Nat /\ sw.tail + n <= Size BY <1>3, SizeFacts
      <3> QED BY <3>1, <1>5, NoOverwrite
    <2> QED BY <2>1 DEF Wrap
  <1>12. Types' BY <1>8, <1>9, <1>10, <1>11 DEF IInv, Types, Memory
  <1>13. Pointers'
    <2>1. Off(h, hw.tail) <= Off(h, 0) BY <1>1, <1>2, <1>3, <1>6
    <2>2. sw.retired # -1 => Off(h, sw.retired) <= Off(h, hw.head) BY DEF IInv, Pointers
    <2> QED BY <2>1, <2>2, <1>2, <1>4, <1>6, <1>8, <1>10 DEF Pointers
  <1>14. SetupOK' BY <1>10 DEF IInv, SetupOK, NothingLeft, Steps, Old, Before, Copy
  <1>15. Numbered(requests, olr)' /\ Finished(requests, done, sw.head, hw.head)'
    BY <1>8, <1>10 DEF IInv
  <1>16. PICK P, N, W, S : Ghost(P, N, W, S) BY DEF IInv
  <1>17. Stream(mem', h, hw.head, hw.tail, 0, order, P)
    <2>1. Stream(mem, h, hw.head, hw.tail, sw.tail, order, P) BY <1>16 DEF Ghost
    <2> QED BY <2>1, <1>1, <1>2, <1>5, <1>9, StreamWrap
  <1>18. Ghost(P, N, W, S)' BY <1>8, <1>10, <1>16, <1>17 DEF Ghost
  <1> QED BY <1>12, <1>13, <1>14, <1>15, <1>18 DEF IInv

\* Requests that are done make their room known.
LEMMA RetireStep == ASSUME IInv, Retire PROVE IInv'
  <1> DEFINE k == Cardinality(Retired)
             req == requests
  <1>1. requests \in Seq(Reqs) /\ done \in Nat /\ olr \in Nat \ {0} /\ done < olr /\ Len(requests) \in Nat
    BY Facts, LenProperties
  <1>2. Numbered(requests, olr) /\ Finished(requests, done, sw.head, hw.head) BY DEF IInv
  <1>3. k \in 1 .. Len(requests) /\ Retired = 1 .. k
    <2>1. \A i : i \in Retired <=> i \in 1 .. Len(requests) /\ requests[i].seqno <= done
      <3>1. DOMAIN requests = 1 .. Len(requests) BY <1>1, LenProperties
      <3> QED BY <3>1 DEF Retired
    <2>2. Cardinality(Retired) \in 0 .. Len(requests) /\ Retired = 1 .. Cardinality(Retired)
      BY <2>1, <1>1, <1>2, RetiredFirst
    <2>3. Retired # {} BY DEF Retire
    <2> QED BY <2>2, <2>3
  <1>4. requests[k] \in Reqs /\ requests[k].seqno <= done
    <2>1. k \in Retired BY <1>3
    <2> QED BY <2>1, <1>1, <1>3, ElementOfSeq DEF Retired
  <1>5. /\ sw' = [sw EXCEPT !.retired = requests[k].tail]
        /\ requests' = SubSeq(requests, k + 1, Len(requests))
        /\ UNCHANGED <<gen, has, stage, mem, hw, todo, olr, done, dirty, caches, order, amiss>>
    BY DEF Retire
  <1> HIDE DEF k
  <1>6. /\ requests' \in Seq(Reqs) /\ Len(requests') = Len(requests) - k
        /\ \A j \in 1 .. Len(requests') : j + k \in 1 .. Len(requests) /\ requests'[j] = requests[j + k]
    <2>1. k + 1 \in Int /\ Len(requests) \in Int BY <1>1, <1>3
    <2>2. \A i \in k + 1 .. Len(requests) : requests[i] \in Reqs
      <3>1. \A i \in k + 1 .. Len(requests) : i \in 1 .. Len(requests) BY <1>1, <1>3
      <3> QED BY <3>1, <1>1, ElementOfSeq
    <2>3. /\ SubSeq(requests, k + 1, Len(requests)) \in Seq(Reqs)
          /\ Len(SubSeq(requests, k + 1, Len(requests)))
               = IF k + 1 <= Len(requests) THEN Len(requests) - (k + 1) + 1 ELSE 0
          /\ \A i \in 1 .. Len(requests) - (k + 1) + 1 :
                SubSeq(requests, k + 1, Len(requests))[i] = requests[(k + 1) + i - 1]
      BY <2>1, <2>2, SubSeqProperties
    <2>4. Len(requests') = Len(requests) - k BY <2>3, <1>1, <1>3, <1>5
    <2>5. ASSUME NEW j \in 1 .. Len(requests')
          PROVE  j + k \in 1 .. Len(requests) /\ requests'[j] = requests[j + k]
      <3>1. j \in 1 .. Len(requests) - (k + 1) + 1 /\ (k + 1) + j - 1 = j + k /\ j + k \in 1 .. Len(requests)
        BY <2>4, <1>1, <1>3
      <3> QED BY <3>1, <2>3, <1>5
    <2> QED BY <2>3, <2>4, <2>5, <1>5
  <1>7. /\ sw'.head = sw.head /\ sw'.tail = sw.tail /\ sw'.space = sw.space /\ sw'.retired = requests[k].tail
        /\ sw' \in [head : Words, tail : Words, space : Int, retired : Words \cup {-1}]
    <2>1. sw \in [head : Words, tail : Words, space : Int, retired : Words \cup {-1}] BY DEF IInv, Types
    <2>2. requests[k].tail \in Words \cup {-1} BY <1>4 DEF Reqs
    <2> QED BY <2>1, <2>2, <1>5
  <1>8. Types' BY <1>5, <1>6, <1>7 DEF IInv, Types
  <1>9. SetupOK' BY <1>5 DEF IInv, SetupOK, NothingLeft, Steps, Old, Before, Copy
  <1>10. Pointers'
    <2>1. sw'.retired # -1 => Off(sw.head, sw'.retired) <= Off(sw.head, hw.head)
      BY <1>2, <1>3, <1>4, <1>7 DEF Finished
    <2> QED BY <2>1, <1>5, <1>7 DEF IInv, Pointers
  <1>11. Numbered(requests', olr')
    <2>1. /\ Len(requests) < olr /\ \A j \in 1 .. Len(requests) : requests[j].seqno = olr - 1 - Len(requests) + j
      BY <1>2 DEF Numbered
    <2>2. Len(requests') < olr BY <2>1, <1>1, <1>3, <1>6
    <2>3. ASSUME NEW j \in 1 .. Len(requests') PROVE requests'[j].seqno = olr - 1 - Len(requests') + j
      <3>1. requests'[j].seqno = olr - 1 - Len(requests) + (j + k) BY <2>1, <1>6
      <3> QED BY <3>1, <1>1, <1>3, <1>6
    <2> QED BY <2>2, <2>3, <1>5 DEF Numbered
  <1>12. Finished(requests', done', sw'.head, hw'.head)
    BY <1>2, <1>5, <1>6, <1>7 DEF Finished
  <1>13. PICK P, N, W, S : Ghost(P, N, W, S) BY DEF IInv
  <1>14. Awaited(requests', order, N, P, done)
    <2>1. Awaited(requests, order, N, P, done) BY <1>13 DEF Ghost
    <2> QED BY <2>1, <1>6 DEF Awaited
  <1>15. Ghost(P, N, W, S)' BY <1>5, <1>7, <1>13, <1>14 DEF Ghost
  <1> QED BY <1>8, <1>9, <1>10, <1>11, <1>12, <1>15 DEF IInv

\* The driver learns of a head between its own and that of the hardware.
LEMMA HeadStep ==
    ASSUME IInv, Retired = {}, NEW g \in Words, Off(sw.head, g) <= Off(sw.head, hw.head),
           sw' = [sw EXCEPT !.head = g, !.space = RingSpace(g, sw.tail), !.retired = -1],
           UNCHANGED <<gen, has, stage, mem, hw, todo, requests, olr, done, dirty, caches, order, amiss>>
    PROVE  IInv'
  <1> DEFINE h == sw.head
  <1>1. /\ h \in Words /\ sw.tail \in Words /\ hw.head \in Words /\ hw.tail \in Words
        /\ \A w \in Words : Off(h, w) \in Int /\ 0 <= Off(h, w) /\ Off(h, w) < Size
        /\ requests \in Seq(Reqs) BY Facts
  <1>2. /\ Off(h, hw.head) <= Off(h, hw.tail) /\ Off(h, hw.tail) <= Off(h, sw.tail)
        /\ Off(h, sw.tail) <= Size - Gap BY DEF IInv, Pointers
  <1>3. /\ Off(h, g) \in Int /\ 0 <= Off(h, g) /\ Off(h, hw.head) \in Int /\ Off(h, hw.tail) \in Int
        /\ Off(h, sw.tail) \in Int /\ Gap \in Int /\ Size \in Int BY <1>1, SizeFacts
  <1>4. /\ Off(g, hw.head) = Off(h, hw.head) - Off(h, g) /\ Off(g, hw.tail) = Off(h, hw.tail) - Off(h, g)
        /\ Off(g, sw.tail) = Off(h, sw.tail) - Off(h, g)
    <2>1. Off(h, g) <= Off(h, hw.tail) /\ Off(h, g) <= Off(h, sw.tail) BY <1>2, <1>3
    <2> QED BY <2>1, <1>1, Rebase
  <1>5. RingSpace(g, sw.tail) = Size - Gap - Off(g, sw.tail)
    <2>1. Off(g, sw.tail) <= Size - Gap BY <1>2, <1>3, <1>4
    <2> QED BY <2>1, <1>1, SpaceIs
  <1>6. /\ sw'.head = g /\ sw'.tail = sw.tail /\ sw'.space = Size - Gap - Off(g, sw.tail) /\ sw'.retired = -1
        /\ sw' \in [head : Words, tail : Words, space : Int, retired : Words \cup {-1}]
    <2>1. sw \in [head : Words, tail : Words, space : Int, retired : Words \cup {-1}] BY DEF IInv, Types
    <2>2. RingSpace(g, sw.tail) \in Int BY <1>3, <1>4, <1>5
    <2> QED BY <2>1, <2>2, <1>5
  <1>7. Types' BY <1>6 DEF IInv, Types
  <1>8. SetupOK' BY DEF IInv, SetupOK, NothingLeft, Steps, Old, Before, Copy
  <1>9. Pointers'
    <2>1. Off(g, hw.head) <= Off(g, hw.tail) /\ Off(g, hw.tail) <= Off(g, sw.tail) /\ Off(g, sw.tail) <= Size - Gap
      BY <1>2, <1>3, <1>4
    <2> QED BY <2>1, <1>6 DEF Pointers
  <1>10. Finished(requests', done', sw'.head, hw'.head)
    <2>1. \A j \in 1 .. Len(requests) : ~(requests[j].seqno <= done)
      <3>1. DOMAIN requests = 1 .. Len(requests) BY <1>1, LenProperties
      <3> QED BY <3>1 DEF Retired
    <2> QED BY <2>1 DEF Finished
  <1>11. Numbered(requests, olr)' BY DEF IInv
  <1>12. PICK P, N, W, S : Ghost(P, N, W, S) BY DEF IInv
  <1>13. Stream(mem, g, hw.head, hw.tail, sw.tail, order, P)
    <2>1. Stream(mem, h, hw.head, hw.tail, sw.tail, order, P) BY <1>12 DEF Ghost
    <2> QED BY <2>1, <1>1, <1>2, StreamRebase
  <1>14. Ghost(P, N, W, S)' BY <1>6, <1>12, <1>13 DEF Ghost
  <1> QED BY <1>7, <1>8, <1>9, <1>10, <1>11, <1>14 DEF IInv

\* Room that was given back.
LEMMA TakeRetiredStep == ASSUME IInv, TakeRetired PROVE IInv'
  <1>1. sw.retired \in Words /\ Off(sw.head, sw.retired) <= Off(sw.head, hw.head)
    BY DEF IInv, Types, Pointers, TakeRetired
  <1>2. Retired = {} /\ sw' = [sw EXCEPT !.head = sw.retired, !.space = RingSpace(sw.retired, sw.tail), !.retired = -1]
        /\ UNCHANGED <<gen, has, stage, mem, hw, todo, requests, olr, done, dirty, caches, order, amiss>>
    BY DEF TakeRetired
  <1> QED BY <1>1, <1>2, HeadStep

\* The head of the hardware.
LEMMA PollStep == ASSUME IInv, Poll PROVE IInv'
  <1>4. hw.head \in Words /\ sw.head \in Words /\ Off(sw.head, hw.head) \in Int BY Facts
  <1>1. hw.head \in Words /\ Off(sw.head, hw.head) <= Off(sw.head, hw.head) BY <1>4
  <1>2. Retired = {} /\ UNCHANGED <<gen, has, stage, mem, hw, todo, requests, olr, done, dirty, caches, order, amiss>>
    BY DEF Poll
  <1>3. sw' = [sw EXCEPT !.head = hw.head, !.space = RingSpace(hw.head, sw.tail), !.retired = -1]
    <2>1. sw \in [head : Words, tail : Words, space : Int, retired : Words \cup {-1}] BY DEF IInv, Types
    <2>2. sw.retired = -1 /\ sw' = [sw EXCEPT !.head = hw.head, !.space = RingSpace(hw.head, sw.tail)] BY DEF Poll
    <2> QED BY <2>1, <2>2
  <1> QED BY <1>1, <1>2, <1>3, HeadStep

\* Requests that lose their place.
LEMMA SearchStep == ASSUME IInv, Search PROVE IInv'
  <1>1. requests \in Seq(Reqs) /\ DOMAIN requests = 1 .. Len(requests) /\ Len(requests) \in Nat
    BY Facts, LenProperties
  <1>2. UNCHANGED <<gen, has, stage, mem, hw, sw, todo, olr, done, dirty, caches, order, amiss>> /\ requests' = Skipped
    BY DEF Search
  <1>3. PICK k : requests' = [i \in 1 .. Len(requests) |->
                                IF k = 0 \/ i < k THEN [requests[i] EXCEPT !.tail = -1] ELSE requests[i]]
    BY <1>1, <1>2 DEF Skipped
  <1>4. ASSUME NEW i \in 1 .. Len(requests)
        PROVE  requests'[i] \in Reqs /\ requests'[i].seqno = requests[i].seqno
               /\ requests'[i].tail \in {-1, requests[i].tail}
    <2>1. requests[i] \in Reqs BY <1>1, ElementOfSeq
    <2>2. CASE k = 0 \/ i < k
      <3>1. requests'[i] = [requests[i] EXCEPT !.tail = -1] BY <2>2, <1>3
      <3> QED BY <3>1, <2>1 DEF Reqs
    <2>3. CASE ~(k = 0 \/ i < k)
      <3>1. requests'[i] = requests[i] BY <2>3, <1>3
      <3> QED BY <3>1, <2>1
    <2> QED BY <2>2, <2>3
  <1>5. requests' \in Seq(Reqs) /\ Len(requests') = Len(requests)
    <2>1. requests' \in [1 .. Len(requests) -> Reqs] BY <1>3, <1>4
    <2>2. requests' \in Seq(Reqs) BY <2>1, <1>1, IsASeq
    <2>3. DOMAIN requests' = 1 .. Len(requests) /\ DOMAIN requests' = 1 .. Len(requests') /\ Len(requests') \in Nat
      BY <2>1, <2>2, LenProperties
    <2> QED BY <2>2, <2>3, <1>1
  <1>6. Types' BY <1>2, <1>5 DEF IInv, Types
  <1>7. SetupOK' BY <1>2 DEF IInv, SetupOK, NothingLeft, Steps, Old, Before, Copy
  <1>8. Pointers' BY <1>2 DEF IInv, Pointers
  <1>9. Numbered(requests', olr') BY <1>2, <1>4, <1>5 DEF IInv, Numbered
  <1>10. Finished(requests', done', sw'.head, hw'.head)
    <2>1. Finished(requests, done, sw.head, hw.head) BY DEF IInv
    <2>2. ASSUME NEW j \in 1 .. Len(requests), requests'[j].seqno <= done, requests'[j].tail # -1
          PROVE  Off(sw.head, requests'[j].tail) <= Off(sw.head, hw.head)
      BY <2>1, <2>2, <1>4 DEF Finished
    <2> QED BY <2>2, <1>2, <1>5 DEF Finished
  <1>11. PICK P, N, W, S : Ghost(P, N, W, S) BY DEF IInv
  <1>12. Awaited(requests', order, N, P, done)
    <2>1. ASSUME NEW j \in 1 .. Len(requests), requests'[j].seqno > done
          PROVE  \E i \in 1 .. Len(order) : order[i] = "seqno" /\ N[i] = requests'[j].seqno
                                            /\ requests'[j].tail \in {-1, P[i]}
      BY <2>1, <1>4, <1>11 DEF Ghost, Awaited
    <2> QED BY <2>1, <1>5 DEF Awaited
  <1>13. Ghost(P, N, W, S)' BY <1>2, <1>11, <1>12 DEF Ghost
  <1> QED BY <1>6, <1>7, <1>8, <1>9, <1>10, <1>13 DEF IInv

\* A command that is left out: there is nothing to flush.
LEMMA SkipStep ==
    ASSUME IInv, Running, Head(todo) = "flush", ~dirty, todo' = Tail(todo),
           UNCHANGED <<gen, has, stage, mem, hw, sw, requests, olr, done, dirty, caches, order, amiss>>
    PROVE  IInv'
  <1>1. todo \in Todos /\ todo # <<>> /\ olr <= MaxSeqno BY DEF IInv, Types, Running
  <1>2. todo' \in Todos /\ todo' = <<"seqno">> BY <1>1, TodoFacts
  <1>3. Types' BY <1>1, <1>2 DEF IInv, Types
  <1>4. SetupOK' BY DEF IInv, SetupOK, NothingLeft, Steps, Old, Before, Copy
  <1>5. Pointers' BY DEF IInv, Pointers
  <1>6. Numbered(requests, olr)' /\ Finished(requests, done, sw.head, hw.head)' BY DEF IInv
  <1>7. PICK P, N, W, S : Ghost(P, N, W, S) BY DEF IInv
  <1>8. Ends(Len(order'), W, S, todo', dirty')
    <2>1. <<"seqno">> # <<"batch", "flush", "seqno">> OBVIOUS
    <2> QED BY <2>1, <1>2, <1>7 DEF Ghost, Ends
  <1>9. Ghost(P, N, W, S)' BY <1>7, <1>8 DEF Ghost
  <1> QED BY <1>3, <1>4, <1>5, <1>6, <1>9 DEF IInv

\* A command goes into the ring.
LEMMA EmitStep == ASSUME IInv, Emit PROVE IInv'
  <1> DEFINE h == sw.head
             c == Head(todo)
             n == Length(c)
             tail == (sw.tail + n) % Size
             l == Len(order)
             req2 == IF c = "seqno" THEN Append(requests, [seqno |-> olr, tail |-> sw.tail]) ELSE requests
             dirty2 == CASE c = "batch" -> TRUE [] c \in {"flush", "invalidate"} -> FALSE [] OTHER -> dirty
  <1>1. CASE c = "flush" /\ ~dirty
    <2>1. Running /\ todo' = Tail(todo)
          /\ UNCHANGED <<gen, has, stage, mem, hw, sw, requests, olr, done, dirty, caches, order, amiss>>
      BY <1>1 DEF Emit
    <2> QED BY <2>1, <1>1, SkipStep
  <1>2. CASE ~(c = "flush" /\ ~dirty)
    <2>1. /\ Running /\ ~Wrapping(n) /\ sw.space >= n
          /\ mem' = Fill(sw.tail, n, c) /\ amiss' = {a \in {"overwritten"} : Overwrites(sw.tail, n)}
          /\ sw' = [sw EXCEPT !.tail = tail, !.space = @ - n] /\ hw' = [hw EXCEPT !.tail = tail]
          /\ order' = Append(order, c) /\ todo' = Tail(todo) /\ dirty' = dirty2
          /\ requests' = req2 /\ olr' = (IF c = "seqno" THEN olr + 1 ELSE olr)
          /\ UNCHANGED <<gen, has, stage, done, caches>>
      BY <1>2 DEF Emit, RequestTail
    <2>2. todo \in Todos /\ todo # <<>> /\ olr <= MaxSeqno /\ dirty \in BOOLEAN BY <2>1 DEF IInv, Types, Running
    <2>3. /\ c \in Cmds /\ todo' \in Todos /\ (c = "seqno" <=> todo = <<"seqno">>)
          /\ (c = "batch" <=> todo = <<"batch", "flush", "seqno">>)
          /\ (todo' = <<"seqno">> => c = "flush") /\ (todo' = <<"batch", "flush", "seqno">> => c = "invalidate")
          /\ (c = "seqno" => todo' = <<>>)
      BY <2>1, <2>2, TodoFacts
    <2>4. /\ mem \in Memory /\ order \in Seq(Cmds) /\ requests \in Seq(Reqs) /\ h \in Words /\ sw.tail \in Words
          /\ hw.head \in Words /\ hw.tail \in Words /\ done \in Nat /\ olr \in Nat \ {0} /\ done < olr
          /\ \A w \in Words : w \in Int /\ 0 <= w /\ w < Size
          /\ \A w \in Words : Off(h, w) \in Int /\ 0 <= Off(h, w) /\ Off(h, w) < Size BY Facts
    <2>5. l \in Nat /\ Len(requests) \in Nat BY <2>4, LenProperties
    <2>6. n \in Nat \ {0} BY DEF Length
    <2> HIDE DEF h, c, n, tail, l, req2, dirty2
    <2>7. /\ Off(h, hw.head) <= Off(h, hw.tail) /\ Off(h, hw.tail) <= Off(h, sw.tail)
          /\ Off(h, sw.tail) <= Size - Gap /\ sw.space = Size - Gap - Off(h, sw.tail) BY DEF IInv, Pointers, h
    <2>8. /\ Off(h, hw.head) \in Int /\ Off(h, hw.tail) \in Int /\ Off(h, sw.tail) \in Int /\ sw.tail \in Int
          /\ Gap \in Int /\ Gap >= 1 /\ Size \in Nat /\ Size >= 1 BY <2>4, SizeFacts
    <2>9. sw.tail + n <= Size
      <3>1. Effective <= Size /\ Effective \in Int BY RingAssumption DEF Effective
      <3>2. ~(sw.tail + n > Effective) BY <2>1 DEF Wrapping
      <3> QED BY <3>1, <3>2, <2>6, <2>8
    <2>10. Off(h, sw.tail) + n <= Size - Gap /\ Off(h, sw.tail) + n < Size BY <2>1, <2>6, <2>7, <2>8
    <2>11. tail \in Words /\ Off(h, tail) = Off(h, sw.tail) + n
      BY <2>4, <2>6, <2>9, <2>10, OffPlus DEF tail
    <2>12. /\ sw'.head = h /\ sw'.tail = tail /\ sw'.space = Size - Gap - Off(h, tail) /\ sw'.retired = sw.retired
           /\ sw' \in [head : Words, tail : Words, space : Int, retired : Words \cup {-1}]
      <3>1. sw \in [head : Words, tail : Words, space : Int, retired : Words \cup {-1}] BY DEF IInv, Types
      <3>2. sw.space - n \in Int /\ sw.space - n = Size - Gap - Off(h, tail) BY <2>6, <2>7, <2>8, <2>11
      <3> QED BY <3>1, <3>2, <2>1, <2>11 DEF h
    <2>13. hw'.head = hw.head /\ hw'.tail = tail /\ hw' \in [head : Words, tail : Words]
      <3>1. hw \in [head : Words, tail : Words] BY DEF IInv, Types
      <3> QED BY <3>1, <2>1, <2>11
    <2>14. mem' = Filled(mem, sw.tail, n, c) /\ mem' \in Memory
      <3>1. mem' = Filled(mem, sw.tail, n, c) BY <2>1 DEF Fill, Filled
      <3> QED BY <3>1, <2>3, <2>4, <2>6, <2>9, <2>10, FilledWords
    <2>15. amiss' = {}
      <3>1. ~Overwrites(sw.tail, n) BY <2>6, <2>9, <2>10, NoOverwrite DEF h
      <3> QED BY <3>1, <2>1
    <2>16. order' \in Seq(Cmds) /\ Len(order') = l + 1 /\ order'[l + 1] = c /\ \A i \in 1 .. l : order'[i] = order[i]
      BY <2>1, <2>3, <2>4, AppendProperties DEF l
    <2>17. /\ requests' \in Seq(Reqs)
           /\ c # "seqno" => requests' = requests
           /\ c = "seqno" => /\ Len(requests') = Len(requests) + 1
                             /\ requests'[Len(requests) + 1].seqno = olr
                             /\ \A j \in 1 .. Len(requests) : requests'[j] = requests[j]
      <3>1. CASE c # "seqno" BY <3>1, <2>1, <2>4 DEF req2
      <3>2. CASE c = "seqno"
        <4>1. [seqno |-> olr, tail |-> sw.tail] \in Reqs BY <2>4 DEF Reqs
        <4>2. requests' = Append(requests, [seqno |-> olr, tail |-> sw.tail]) BY <3>2, <2>1 DEF req2
        <4> QED BY <4>1, <4>2, <3>2, <2>4, AppendProperties
      <3> QED BY <3>1, <3>2
    <2>18. Types'
      <3>1. dirty' \in BOOLEAN BY <2>1, <2>2 DEF dirty2
      <3>2. olr' \in 1 .. MaxSeqno + 1 /\ (todo' # <<>> => olr' <= MaxSeqno)
        <4>1. olr \in 1 .. MaxSeqno /\ MaxSeqno \in Nat BY <2>2, <2>4, RingAssumption
        <4> QED BY <4>1, <2>1, <2>3
      <3>3. done' \in Nat /\ caches' \in [written : BOOLEAN, stale : BOOLEAN] BY <2>1 DEF IInv, Types
      <3> QED BY <3>1, <3>2, <3>3, <2>3, <2>12, <2>13, <2>14, <2>15, <2>16, <2>17 DEF Types, Memory
    <2>19. SetupOK' BY <2>1 DEF IInv, SetupOK, NothingLeft, Steps, Old, Before, Copy
    <2>20. Pointers'
      <3>1. Off(h, hw.head) <= Off(h, tail) /\ Off(h, tail) <= Off(h, tail) BY <2>6, <2>7, <2>8, <2>11
      <3>2. sw.retired # -1 => Off(h, sw.retired) <= Off(h, hw.head) BY DEF IInv, Pointers, h
      <3> QED BY <3>1, <3>2, <2>10, <2>11, <2>12, <2>13 DEF Pointers
    <2>21. Numbered(requests', olr')
      <3>1. Len(requests) < olr /\ \A j \in 1 .. Len(requests) : requests[j].seqno = olr - 1 - Len(requests) + j
        BY DEF IInv, Numbered
      <3>2. CASE c # "seqno" BY <3>1, <3>2, <2>1, <2>17 DEF Numbered
      <3>3. CASE c = "seqno"
        <4>1. olr' = olr + 1 /\ Len(requests') < olr' BY <3>1, <3>3, <2>1, <2>4, <2>5, <2>17
        <4>2. ASSUME NEW j \in 1 .. Len(requests') PROVE requests'[j].seqno = olr' - 1 - Len(requests') + j
          <5>3. Len(requests') = Len(requests) + 1 /\ j \in Int BY <3>3, <2>17
          <5>4. olr' - 1 - Len(requests') + j = olr - 1 - Len(requests) + j BY <5>3, <4>1, <2>4, <2>5
          <5>1. CASE j = Len(requests) + 1
            <6>1. requests'[j].seqno = olr BY <5>1, <3>3, <2>17
            <6>2. olr - 1 - Len(requests) + j = olr BY <5>1, <2>4, <2>5
            <6> QED BY <6>1, <6>2, <5>4
          <5>2. CASE j # Len(requests) + 1
            <6>1. j \in 1 .. Len(requests) BY <5>2, <5>3, <2>5
            <6>2. requests'[j] = requests[j] BY <6>1, <3>3, <2>17
            <6> QED BY <6>1, <6>2, <5>4, <3>1
          <5> QED BY <5>1, <5>2
        <4> QED BY <4>1, <4>2 DEF Numbered
      <3> QED BY <3>2, <3>3
    <2>22. Finished(requests', done', sw'.head, hw'.head)
      <3>1. Finished(requests, done, h, hw.head) BY DEF IInv, h
      <3>2. CASE c # "seqno" BY <3>1, <3>2, <2>1, <2>12, <2>13, <2>17
      <3>3. CASE c = "seqno"
        <4>1. ASSUME NEW j \in 1 .. Len(requests'), requests'[j].seqno <= done, requests'[j].tail # -1
              PROVE  Off(h, requests'[j].tail) <= Off(h, hw.head)
          <5>1. j # Len(requests) + 1 BY <4>1, <3>3, <2>4, <2>17
          <5>2. j \in 1 .. Len(requests) BY <5>1, <3>3, <2>5, <2>17
          <5> QED BY <5>2, <4>1, <3>1, <3>3, <2>17 DEF Finished
        <4> QED BY <4>1, <2>1, <2>12, <2>13 DEF Finished
      <3> QED BY <3>2, <3>3
    <2>23. PICK P, N, W, S : Ghost(P, N, W, S) BY DEF IInv
    <2>24. PICK Q : Q = [i \in 1 .. l + 1 |-> IF i = l + 1 THEN sw.tail ELSE P[i]] OBVIOUS
    <2>25. PICK last : last = IF c = "seqno" THEN olr ELSE olr - 1 OBVIOUS
    <2>26. PICK N2 : N2 = [i \in 0 .. l + 1 |-> IF i = l + 1 THEN last ELSE N[i]] OBVIOUS
    <2>27. PICK W2 : W2 = W \cup {i \in {l + 1} : c = "batch" \/ (l \in W /\ c \notin {"flush", "invalidate"})} OBVIOUS
    <2>28. PICK S2 : S2 = S \cup {i \in {l + 1} : c = "batch" \/ (l \in S /\ c # "invalidate")} OBVIOUS
    <2>29. Stream(mem', h, hw.head, tail, tail, order', Q)
      <3>1. Stream(mem, h, hw.head, hw.tail, sw.tail, order, P) BY <2>23 DEF Ghost, h
      <3>2. P \in [1 .. Len(order) -> Words] BY <3>1 DEF Stream
      <3>3. Q \in [1 .. Len(order) + 1 -> Words] /\ Q[Len(order) + 1] = sw.tail
            /\ \A i \in 1 .. Len(order) : Q[i] = P[i] BY <3>2, <2>4, <2>5, <2>24 DEF l
      <3>5. Stream(Filled(mem, sw.tail, n, c), h, hw.head, tail, tail, Append(order, c), Q)
        BY <3>1, <3>3, <2>3, <2>4, <2>6, <2>7, <2>9, <2>10, <2>11, StreamEmit
      <3> QED BY <3>5, <2>1, <2>14
    <2>30. Ends(l, W, S, todo, dirty) BY <2>23 DEF Ghost, l
    <2>31. /\ c = "batch" => l \notin S
           /\ c = "seqno" => l \notin W
      BY <2>3, <2>30 DEF Ends
    <2>32. Future(order', N2, W2, S2, done, caches, last + 1)
      <3>1. Future(order, N, W, S, done, caches, olr) BY <2>23 DEF Ghost
      <3>2. Future(Append(order, c), [i \in 0 .. Len(order) + 1 |-> IF i = Len(order) + 1 THEN last ELSE N[i]],
                   W \cup {i \in {Len(order) + 1} :
                                c = "batch" \/ (Len(order) \in W /\ c \notin {"flush", "invalidate"})},
                   S \cup {i \in {Len(order) + 1} : c = "batch" \/ (Len(order) \in S /\ c # "invalidate")},
                   done, caches, last + 1)
        BY <3>1, <2>3, <2>4, <2>25, <2>31, FutureEmit DEF l
      <3> QED BY <3>2, <2>1, <2>26, <2>27, <2>28 DEF l
    <2>33. last + 1 = olr' BY <2>1, <2>4, <2>25
    <2>34. Ends(l + 1, W2, S2, todo', dirty')
      <3>1. W \subseteq 0 .. l /\ S \subseteq 0 .. l BY <2>23 DEF Ghost, Future, l
      <3>2. l + 1 \notin W /\ l + 1 \notin S BY <3>1, <2>5
      <3>3. /\ l + 1 \in W2 <=> c = "batch" \/ (l \in W /\ c \notin {"flush", "invalidate"})
            /\ l + 1 \in S2 <=> c = "batch" \/ (l \in S /\ c # "invalidate") BY <3>2, <2>27, <2>28
      <3>4. l + 1 \in W2 => dirty'
        <4>1. CASE c = "batch" BY <4>1, <2>1 DEF dirty2
        <4>2. CASE c # "batch" /\ l \in W /\ c \notin {"flush", "invalidate"}
          <5>1. dirty' = dirty BY <4>2, <2>1 DEF dirty2
          <5> QED BY <5>1, <4>2, <2>30 DEF Ends
        <4> QED BY <4>1, <4>2, <3>3
      <3>5. todo' = <<"seqno">> => ~dirty' BY <2>1, <2>3 DEF dirty2
      <3>6. todo' = <<"batch", "flush", "seqno">> => l + 1 \notin S2 BY <3>3, <2>3
      <3> QED BY <3>4, <3>5, <3>6 DEF Ends
    <2>35. Awaited(requests', order', N2, Q, done)
      <3>1. Awaited(requests, order, N, P, done) BY <2>23 DEF Ghost
      <3>2. Q[l + 1] = sw.tail /\ (c = "seqno" => N2[l + 1] = olr)
            /\ \A i \in 1 .. l : N2[i] = N[i] /\ Q[i] = P[i] BY <2>5, <2>24, <2>25, <2>26
      <3>3. Behind(order, N, P, c, sw.tail, olr, order', N2, Q) BY <3>2, <2>16 DEF l, Behind
      <3>4. /\ c # "seqno" => requests' = requests
            /\ c = "seqno" => requests' = Append(requests, [seqno |-> olr, tail |-> sw.tail])
        BY <2>1 DEF req2
      <3> QED BY <3>1, <3>3, <3>4, <2>3, <2>4, AwaitedEmit
    <2>36. Ghost(Q, N2, W2, S2)'
      BY <2>1, <2>12, <2>13, <2>16, <2>29, <2>32, <2>33, <2>34, <2>35 DEF Ghost
    <2> QED BY <2>18, <2>19, <2>20, <2>21, <2>22, <2>36 DEF IInv
  <1> QED BY <1>1, <1>2

\* The head of the hardware goes on by a word.
LEMMA HeadGoesOn ==
    ASSUME IInv, hw.head # hw.tail
    PROVE  /\ (hw.head + 1) % Size \in Words
           /\ Off(sw.head, (hw.head + 1) % Size) = Off(sw.head, hw.head) + 1
           /\ Off(sw.head, hw.head) < Off(sw.head, hw.tail)
  <1>1. /\ sw.head \in Words /\ sw.tail \in Words /\ hw.head \in Words /\ hw.tail \in Words
        /\ \A w \in Words : w \in Int /\ 0 <= w /\ w < Size
        /\ \A w \in Words : Off(sw.head, w) \in Int /\ 0 <= Off(sw.head, w) /\ Off(sw.head, w) < Size BY Facts
  <1>2. /\ Off(sw.head, hw.head) \in Int /\ Off(sw.head, hw.tail) \in Int /\ Off(sw.head, hw.tail) < Size
        /\ hw.head \in Int /\ hw.head < Size BY <1>1
  <1>3. Off(sw.head, hw.head) <= Off(sw.head, hw.tail) BY DEF IInv, Pointers
  <1>4. Off(sw.head, hw.head) # Off(sw.head, hw.tail) BY <1>1, OffSame
  <1>5. Off(sw.head, hw.head) < Off(sw.head, hw.tail) BY <1>2, <1>3, <1>4
  <1>6. hw.head + 1 <= Size /\ Off(sw.head, hw.head) + 1 < Size BY <1>2, <1>5, SizeFacts
  <1> QED BY <1>1, <1>5, <1>6, OffPlus

\* What a step of the hardware leaves alone.
LEMMA ExecuteKeeps ==
    ASSUME IInv, hw.head # hw.tail, hw' = [hw EXCEPT !.head = (@ + 1) % Size],
           UNCHANGED <<gen, has, stage, mem, sw, todo, requests, olr, dirty>>,
           order' \in Seq(Cmds), done' \in Nat, caches' \in [written : BOOLEAN, stale : BOOLEAN], amiss' = {}
    PROVE  /\ Types' /\ SetupOK' /\ Pointers' /\ Numbered(requests', olr')
           /\ hw'.head = (hw.head + 1) % Size /\ hw'.tail = hw.tail
  <1>1. /\ hw'.head = (hw.head + 1) % Size /\ hw'.tail = hw.tail /\ hw' \in [head : Words, tail : Words]
    <2>1. hw \in [head : Words, tail : Words] BY DEF IInv, Types
    <2> QED BY <2>1, HeadGoesOn
  <1>2. Types' BY <1>1 DEF IInv, Types
  <1>3. SetupOK' BY DEF IInv, SetupOK, NothingLeft, Steps, Old, Before, Copy
  <1>4. Pointers'
    <2>1. /\ Off(sw.head, hw.head) \in Int /\ Off(sw.head, hw.tail) \in Int
          /\ sw.retired # -1 => Off(sw.head, sw.retired) \in Int
      <3>1. sw.retired \in Words \cup {-1} BY DEF IInv, Types
      <3> QED BY <3>1, Facts
    <2>2. Off(sw.head, hw'.head) <= Off(sw.head, hw.tail) BY <1>1, <2>1, HeadGoesOn
    <2>3. sw.retired # -1 => Off(sw.head, sw.retired) <= Off(sw.head, hw'.head)
      BY <1>1, <2>1, HeadGoesOn DEF IInv, Pointers
    <2> QED BY <1>1, <2>2, <2>3 DEF IInv, Pointers
  <1>5. Numbered(requests', olr') BY DEF IInv
  <1> QED BY <1>1, <1>2, <1>3, <1>4, <1>5

\* The hardware passes a filler.
LEMMA PassStep ==
    ASSUME IInv, hw.head # hw.tail, hw' = [hw EXCEPT !.head = (@ + 1) % Size], mem[hw.head] = Nop,
           UNCHANGED <<gen, has, stage, mem, sw, todo, requests, olr, dirty, done, caches, order>>, amiss' = {}
    PROVE  IInv'
  <1>1. /\ order' \in Seq(Cmds) /\ done' \in Nat /\ caches' \in [written : BOOLEAN, stale : BOOLEAN]
    BY DEF IInv, Types
  <1>2. /\ Types' /\ SetupOK' /\ Pointers' /\ Numbered(requests', olr')
        /\ hw'.head = (hw.head + 1) % Size /\ hw'.tail = hw.tail BY <1>1, ExecuteKeeps
  <1>3. /\ mem \in Memory /\ order \in Seq(Cmds) /\ sw.head \in Words /\ sw.tail \in Words
        /\ hw.head \in Words /\ hw.tail \in Words /\ requests \in Seq(Reqs) BY Facts
  <1>4. PICK P, N, W, S : Ghost(P, N, W, S) BY DEF IInv
  <1>5. Stream(mem, sw.head, (hw.head + 1) % Size, hw.tail, sw.tail, order, P)
    <2>1. Stream(mem, sw.head, hw.head, hw.tail, sw.tail, order, P) BY <1>4 DEF Ghost
    <2> QED BY <2>1, <1>3, HeadGoesOn, StreamNop
  <1>6. Ghost(P, N, W, S)' BY <1>2, <1>4, <1>5 DEF Ghost
  <1>7. Finished(requests', done', sw'.head, hw'.head)
    <2>1. ASSUME NEW j \in 1 .. Len(requests), requests[j].seqno <= done, requests[j].tail # -1
          PROVE  Off(sw.head, requests[j].tail) <= Off(sw.head, hw'.head)
      <3>1. requests[j].tail \in Words
        <4>1. requests[j] \in Reqs BY <1>3, ElementOfSeq
        <4> QED BY <4>1, <2>1 DEF Reqs
      <3>2. Off(sw.head, requests[j].tail) \in Int /\ Off(sw.head, hw.head) \in Int BY <3>1, Facts
      <3>3. Off(sw.head, requests[j].tail) <= Off(sw.head, hw.head) BY <2>1 DEF IInv, Finished
      <3> QED BY <3>2, <3>3, <1>2, HeadGoesOn
    <2> QED BY <2>1 DEF Finished
  <1> QED BY <1>2, <1>6, <1>7 DEF IInv

\* The hardware takes the command that was emitted first, and finds what it needs.
LEMMA TakeStep == ASSUME IInv, Execute, mem[hw.head] # Nop PROVE IInv'
  <1> DEFINE c == mem[hw.head]
  <1>1. /\ mem \in Memory /\ order \in Seq(Cmds) /\ sw.head \in Words /\ sw.tail \in Words
        /\ hw.head \in Words /\ hw.tail \in Words /\ requests \in Seq(Reqs)
        /\ done \in Nat /\ olr \in Nat \ {0} BY Facts
  <1>2. /\ hw.head # hw.tail /\ hw' = [hw EXCEPT !.head = (@ + 1) % Size]
        /\ order' = Tail(order) /\ done' = (IF c = "seqno" THEN done + 1 ELSE done)
        /\ caches' = CASE c = "batch" -> [written |-> TRUE, stale |-> TRUE]
                       [] c = "flush" -> [caches EXCEPT !.written = FALSE]
                       [] c = "invalidate" -> [written |-> FALSE, stale |-> FALSE]
                       [] OTHER -> caches
        /\ amiss' = {a \in {"order"} : order = <<>> \/ Head(order) # c}
                    \cup {a \in {"stale"} : c = "batch" /\ caches.stale}
                    \cup {a \in {"unflushed"} : c = "seqno" /\ caches.written}
        /\ UNCHANGED <<gen, has, stage, mem, sw, todo, requests, olr, dirty>>
    BY DEF Execute
  <1>3. c \in Cmds BY <1>1 DEF Memory
  <1>4. caches \in [written : BOOLEAN, stale : BOOLEAN] BY DEF IInv, Types
  <1>5. /\ caches' \in [written : BOOLEAN, stale : BOOLEAN]
        /\ caches'.written <=> c = "batch" \/ (caches.written /\ c \notin {"flush", "invalidate"})
        /\ caches'.stale <=> c = "batch" \/ (caches.stale /\ c # "invalidate")
    <2>1. CASE c = "batch"
      <3>1. caches' = [written |-> TRUE, stale |-> TRUE] BY <2>1, <1>2
      <3> QED BY <3>1, <2>1
    <2>2. CASE c = "flush"
      <3>1. caches' = [caches EXCEPT !.written = FALSE] BY <2>2, <1>2
      <3> QED BY <3>1, <2>2, <1>4
    <2>3. CASE c = "invalidate"
      <3>1. caches' = [written |-> FALSE, stale |-> FALSE] BY <2>3, <1>2
      <3> QED BY <3>1, <2>3
    <2>4. CASE c = "seqno"
      <3>1. caches' = caches BY <2>4, <1>2
      <3> QED BY <3>1, <2>4, <1>4
    <2> QED BY <2>1, <2>2, <2>3, <2>4, <1>3 DEF Cmds
  <1> HIDE DEF c
  <1>6. PICK P, N, W, S : Ghost(P, N, W, S) BY DEF IInv
  <1>7. /\ Stream(mem, sw.head, hw.head, hw.tail, sw.tail, order, P)
        /\ Future(order, N, W, S, done, caches, olr)
        /\ Ends(Len(order), W, S, todo, dirty) /\ Awaited(requests, order, N, P, done)
    BY <1>6 DEF Ghost
  <1> DEFINE k == Len(order) - 1
  <1>8. PICK Q : Q = [i \in 1 .. k |-> P[i + 1]] OBVIOUS
  <1>9. PICK N2 : N2 = [i \in 0 .. k |-> N[i + 1]] OBVIOUS
  <1>10. PICK W2 : W2 = {i \in 0 .. k : i + 1 \in W} OBVIOUS
  <1>11. PICK S2 : S2 = {i \in 0 .. k : i + 1 \in S} OBVIOUS
  <1>12. /\ order # <<>> /\ Head(order) = c /\ P[1] = hw.head
         /\ Stream(mem, sw.head, (hw.head + 1) % Size, hw.tail, sw.tail, Tail(order), Q)
    <2>1. Off(sw.head, hw.head) < Off(sw.head, hw.tail) BY <1>2, HeadGoesOn
    <2>3. Follows(Len(order), P, Q)
      <3>1. P \in [1 .. Len(order) -> Words] /\ Len(order) \in Nat BY <1>1, <1>7, LenProperties DEF Stream
      <3>2. \A i \in 1 .. Len(order) - 1 : i + 1 \in 1 .. Len(order) BY <3>1
      <3> QED BY <3>1, <3>2, <1>8 DEF Follows
    <2>2. /\ order # <<>> /\ Head(order) = mem[hw.head] /\ P[1] = hw.head
          /\ Stream(mem, sw.head, (hw.head + 1) % Size, hw.tail, sw.tail, Tail(order), Q)
      BY <2>1, <2>3, <1>1, <1>7, StreamTake
    <2> QED BY <2>2 DEF c
  <1>13. /\ order[1] = c /\ Len(order) \in Nat \ {0} /\ order' \in Seq(Cmds) /\ Len(order') = k
    BY <1>1, <1>2, <1>12, HeadTailProperties, EmptySeq
  <1>14. amiss' = {}
    <2>1. 1 \in 1 .. Len(order) /\ 1 - 1 = 0 BY <1>13
    <2>2. (c = "batch" => 0 \notin S) /\ (c = "seqno" => 0 \notin W) BY <2>1, <1>7, <1>13 DEF Future
    <2>3. (0 \in W <=> caches.written) /\ (0 \in S <=> caches.stale) BY <1>7 DEF Future
    <2> QED BY <2>2, <2>3, <1>2, <1>12
  <1>15. done' \in Nat /\ done' = (IF order[1] = "seqno" THEN done + 1 ELSE done) BY <1>1, <1>2, <1>13
  <1>16. Future(Tail(order), N2, W2, S2, done', caches', olr)
    <2>1. Does(order[1], done, caches, done', caches') BY <1>5, <1>13, <1>15 DEF Does
    <2>2. Shifted(Len(order), N, W, S, N2, W2, S2)
      <3>1. N \in [0 .. Len(order) -> Nat] BY <1>7 DEF Future
      <3>2. \A i \in 0 .. Len(order) - 1 : i + 1 \in 0 .. Len(order) BY <1>13
      <3> QED BY <3>1, <3>2, <1>9, <1>10, <1>11 DEF Shifted
    <2> QED BY <2>1, <2>2, <1>1, <1>7, <1>12, FutureTake
  <1>17. /\ Awaited(requests, Tail(order), N2, Q, done')
         /\ \A j \in 1 .. Len(requests) : requests[j].seqno > done /\ requests[j].seqno <= done'
                => requests[j].tail \in {-1, P[1]}
    <2>1. /\ Awaited(requests, Tail(order), [i \in 0 .. Len(order) - 1 |-> N[i + 1]],
                     [i \in 1 .. Len(order) - 1 |-> P[i + 1]], done')
          /\ \A j \in 1 .. Len(requests) : requests[j].seqno > done /\ requests[j].seqno <= done'
                => requests[j].tail \in {-1, P[1]}
      BY <1>1, <1>7, <1>12, <1>15, AwaitedTake
    <2> QED BY <2>1, <1>8, <1>9
  <1>18. Ends(Len(order'), W2, S2, todo, dirty)
    <2>1. k \in 0 .. k /\ k + 1 = Len(order) BY <1>13
    <2>2. (k \in W2 <=> Len(order) \in W) /\ (k \in S2 <=> Len(order) \in S) BY <2>1, <1>10, <1>11
    <2> QED BY <2>2, <1>7, <1>13 DEF Ends
  <1>19. /\ Types' /\ SetupOK' /\ Pointers' /\ Numbered(requests', olr')
         /\ hw'.head = (hw.head + 1) % Size /\ hw'.tail = hw.tail
    BY <1>2, <1>5, <1>13, <1>14, <1>15, ExecuteKeeps
  <1>20. Ghost(Q, N2, W2, S2)' BY <1>2, <1>12, <1>16, <1>17, <1>18, <1>19 DEF Ghost
  <1>21. Finished(requests', done', sw'.head, hw'.head)
    <2>1. ASSUME NEW j \in 1 .. Len(requests), requests[j].seqno <= done', requests[j].tail # -1
          PROVE  Off(sw.head, requests[j].tail) <= Off(sw.head, hw'.head)
      <3>1. requests[j].tail \in Words /\ requests[j].seqno \in Nat
        <4>1. requests[j] \in Reqs BY <1>1, ElementOfSeq
        <4> QED BY <4>1, <2>1 DEF Reqs
      <3>2. Off(sw.head, requests[j].tail) \in Int /\ Off(sw.head, hw.head) \in Int BY <3>1, Facts
      <3>3. Off(sw.head, requests[j].tail) <= Off(sw.head, hw.head)
        <4>1. CASE requests[j].seqno <= done BY <4>1, <2>1 DEF IInv, Finished
        <4>2. CASE requests[j].seqno > done
          <5>1. requests[j].tail = hw.head BY <4>2, <2>1, <1>12, <1>17
          <5> QED BY <5>1, <3>2
        <4> QED BY <4>1, <4>2, <3>1, <1>1
      <3> QED BY <3>2, <3>3, <1>2, <1>19, HeadGoesOn
    <2> QED BY <2>1, <1>2 DEF Finished
  <1> QED BY <1>19, <1>20, <1>21 DEF IInv

\* A step of the hardware.
LEMMA ExecuteStep == ASSUME IInv, amiss = {}, Execute PROVE IInv'
  <1>1. CASE mem[hw.head] = Nop
    <2>1. /\ hw.head # hw.tail /\ hw' = [hw EXCEPT !.head = (@ + 1) % Size]
          /\ UNCHANGED <<gen, has, stage, mem, sw, todo, requests, olr, dirty, done, caches, order, amiss>>
      BY <1>1 DEF Execute
    <2> QED BY <2>1, <1>1, PassStep
  <1>2. CASE mem[hw.head] # Nop BY <1>2, TakeStep
  <1> QED BY <1>1, <1>2
------------------------------------------------------------------------------
\* Every step keeps the invariant.
LEMMA NextOK == IInv /\ [RingNext]_ringVars => IInv'
  <1> SUFFICES ASSUME IInv, [RingNext]_ringVars PROVE IInv' OBVIOUS
  <1>1. CASE UNCHANGED ringVars
    <2>1. UNCHANGED <<gen, has, stage, mem, hw, sw, todo, requests, olr, done, dirty, caches, order, amiss>>
      BY <1>1 DEF ringVars
    <2>2. todo' \in Todos /\ (todo' # <<>> => olr <= MaxSeqno) /\ amiss' \subseteq Allowed BY <2>1 DEF IInv, Types
    <2>3. SetupOK' BY <2>1 DEF IInv, SetupOK, NothingLeft, Steps, Old, Before, Copy
    <2> QED BY <2>1, <2>2, <2>3, StreamKept
  <1>2. CASE RingNext
    <2>1. amiss = {} BY <1>2 DEF RingNext
    <2> QED BY <1>2, <2>1, SetupStep, CleanupStep, ExecStep, AddRequestStep, WrapStep, EmitStep, RetireStep, TakeRetiredStep,
               SearchStep, PollStep, GiveUpStep, ExecuteStep DEF RingNext
  <1> QED BY <1>1, <1>2

\* The ring of intel_ringbuffer.c keeps its pointers in order, its space no larger
\* than what is free, and its stream of commands as it was emitted.
THEOREM RingInvariant == RingSpec => []IInv
  <1> QED BY InitOK, NextOK, PTL DEF RingSpec

\* intel_ring_begin, intel_ring_advance and ring_wait_for_space (intel_ringbuffer.c)
\* never let a command be written over before the hardware has read it, whatever the
\* size of the ring and whenever requests are retired; the hardware reads what was
\* emitted, in that order; a batch finds no stale data and a breadcrumb no data that
\* is still in the caches; and a setup that fails leaves nothing, but on old chips the
\* copy of their batches and the physical status page.
THEOREM RingIsSafe == RingSpec => []RingSafe
  <1>1. IInv => RingSafe
    <2> SUFFICES ASSUME IInv PROVE RingSafe OBVIOUS
    <2>1. StreamRight BY DEF IInv, Types, Allowed, StreamRight
    <2>2. SpaceCounted
      <3>1. /\ sw.head \in Words /\ sw.tail \in Words /\ hw.head \in Words /\ hw.tail \in Words
            /\ \A w \in Words : Off(sw.head, w) \in Int /\ 0 <= Off(sw.head, w) BY Facts
      <3>2. /\ Off(sw.head, hw.head) <= Off(sw.head, hw.tail) /\ Off(sw.head, hw.tail) <= Off(sw.head, sw.tail)
            /\ Off(sw.head, sw.tail) <= Size - Gap /\ sw.space = Size - Gap - Off(sw.head, sw.tail)
        BY DEF IInv, Pointers
      <3>3. /\ Off(sw.head, hw.head) \in Int /\ 0 <= Off(sw.head, hw.head) /\ Off(sw.head, hw.tail) \in Int
            /\ Off(sw.head, sw.tail) \in Int /\ Size \in Int /\ Gap \in Int BY <3>1, SizeFacts
      <3>4. Off(hw.head, sw.tail) = Off(sw.head, sw.tail) - Off(sw.head, hw.head)
        <4>1. Off(sw.head, hw.head) <= Off(sw.head, sw.tail) BY <3>2, <3>3
        <4> QED BY <4>1, <3>1, Rebase
      <3>5. RingSpace(hw.head, sw.tail) = Size - Gap - Off(hw.head, sw.tail)
        <4>1. Off(hw.head, sw.tail) <= Size - Gap BY <3>2, <3>3, <3>4
        <4> QED BY <4>1, <3>1, SpaceIs
      <3>6. sw.space <= RingSpace(hw.head, sw.tail) BY <3>2, <3>3, <3>4, <3>5
      <3> QED BY <3>6 DEF SpaceCounted
    <2>3. NothingLeft BY DEF IInv, SetupOK
    <2> QED BY <2>1, <2>2, <2>3 DEF RingSafe
  <1> QED BY <1>1, RingInvariant, PTL
=============================================================================
