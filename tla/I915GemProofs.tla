--------------------------- MODULE I915GemProofs ---------------------------
(***************************************************************************)
(* Three facts of I915Gem, as long as fewer execbuffers have been          *)
(* submitted than half the seqnos there are.  A reset leaves no request    *)
(* that nobody completes and no wedged GPU that nobody will reset          *)
(* (ResetSafe): every request in a list has its breadcrumb ahead in the    *)
(* command stream or a seqno that the status page has reached; the         *)
(* comparison of i915_seqno_passed is right because all seqnos in use are  *)
(* close to one another, around the wrap too (GemInv).  Every active       *)
(* object has a request that will retire it: each active list is sorted by *)
(* the seqnos of its objects (ListInv).  And where the rings do not signal *)
(* each other they keep apart (RingsApart), and on one ring the CPU gets   *)
(* an object only when the GPU has done with it (ActivitySafe): each batch *)
(* to execute is followed by the breadcrumb of the seqno that its object   *)
(* has, and a thread that has waited knows that it is over (UseInv).       *)
(***************************************************************************)
EXTENDS I915Gem, FiniteSetTheorems, SequenceTheorems, WellFoundedInduction, TLAPS

-----------------------------------------------------------------------------
(* The inductive invariant: threads                                        *)

ThreadRec == [pc : PCs, op : OpNames \cup {"none"}, obj : Objects \cup {NoObject},
              to : Rings \cup {NoRing}, write : BOOLEAN,
              on : Rings \cup {NoRing}, s : Seqnos, then : PCs,
              from : Rings \cup {NoRing}, sem : Seqnos]

Asking == {"check"} \cup Waiting
HoldPCs == {"sync", "begin", "wrap", "wrapped", "dispatch", "request", "render",
            "rendered", "nonblock", "access", "flush", "flushed"}

\* Thread x has struct_mutex, also while it sleeps.
Holds(x) == x.pc \in HoldPCs \/ (x.pc \in Asking /\ x.then \notin {"idle", "relock"})
\* It makes the rings idle for the seqnos to restart.
Wraps(x) == x.pc \in {"wrap", "wrapped"} \/ (x.pc \in Asking /\ x.then = "wrapped")
\* It has its seqno: the lazy request of its ring.
Dispatches(x) == x.pc \in {"dispatch", "request"} \/ (x.pc \in Asking /\ x.then = "dispatch")
\* It is in an execbuffer that may still take a seqno.
Allots(x) == x.op = "exec" /\ ~Dispatches(x)

\* What the ioctl of x has to do with where x is in it.
RecOK(x) ==
    /\ x \in ThreadRec
    /\ x.then \in {"idle", "rendered", "relock", "wrapped", "dispatch"}
    /\ x.op \notin {"none", "throttle"} => x.obj \in Objects
    /\ Holds(x) \/ x.pc \in {"lock", "relock"} \/ (x.pc \in Asking /\ x.then = "relock") =>
           x.op \notin {"none", "throttle"}
    /\ x.op = "exec" => x.to \in Rings
    /\ x.pc \in {"sync", "begin"} \/ Wraps(x) \/ Dispatches(x) => x.op = "exec"
    /\ x.pc \in {"lock", "flush", "flushed"} => x.then = "idle"
    /\ Wraps(x) => x.on \in Rings

Threading ==
    /\ th \in [Threads -> ThreadRec]
    /\ \A t \in Threads : /\ RecOK(th[t])
                          /\ Holds(th[t]) => mutex = t
                          /\ Wraps(th[t]) => next = 0
                          /\ Dispatches(th[t]) => olr[th[t].to] # 0

Pending == {t \in Threads : Allots(th[t])}

\* Seqnos that may have been taken
Budget == batches - Cardinality(Pending)

Budgeting ==
    /\ batches \in 0 .. MaxBatches
    /\ IsFiniteSet(Pending) /\ Cardinality(Pending) <= batches

-----------------------------------------------------------------------------
(* The inductive invariant: requests and seqnos                            *)

Lazy ==
    /\ olr \in [Rings -> Seqnos] /\ dirty \in [Rings -> BOOLEAN]
    /\ ring \in [Objects -> Rings \cup {NoRing}]
    /\ lastRead \in [Objects -> Seqnos] /\ lastWrite \in [Objects -> Seqnos]
    /\ \A r \in Rings : dirty[r] => olr[r] # 0
    /\ \A o \in Objects : /\ ring[o] # NoRing => lastRead[o] # 0
                          /\ lastRead[o] # 0 \/ lastWrite[o] # 0 => ring[o] # NoRing

Reqs == [s : Seqnos \ {0}, file : Threads \cup {Nobody}]

\* How many seqnos have been taken since x was, x included, when n is next;
\* 0 is skipped.
Age(n, x) == IF x < n THEN n - x ELSE IF n = 0 THEN Mod - x ELSE Mod - x + n - 1

Crumb(c) == c.cmd = "seqno"

\* One ring: lazy seqno o, requests q, commands h, status page w; n is next
\* and no more than b + 1 seqnos have been taken.
RingOK(n, b, o, q, h, w) ==
    /\ o \in Seqnos /\ q \in Seq(Reqs) /\ h \in Seq(Commands) /\ w \in Seqnos
    /\ Age(n, w) \in 1 .. b + 1
    /\ \A i \in DOMAIN q : Age(n, q[i].s) \in 1 .. b + 1
    /\ \A i \in DOMAIN h : Crumb(h[i]) => Age(n, h[i].s) \in 1 .. Age(n, w) - 1
    /\ \A i, j \in DOMAIN h : i < j /\ Crumb(h[i]) /\ Crumb(h[j]) => Age(n, h[j].s) < Age(n, h[i].s)
    /\ o # 0 => /\ Age(n, o) \in 1 .. Age(n, w) - 1
                /\ \A i \in DOMAIN q : Age(n, o) < Age(n, q[i].s)
                /\ \A i \in DOMAIN h : Crumb(h[i]) => Age(n, o) < Age(n, h[i].s)
    /\ \A i \in DOMAIN q : \/ Age(n, w) <= Age(n, q[i].s)
                           \/ \E j \in DOMAIN h : Crumb(h[j]) /\ h[j].s = q[i].s

Sequencing ==
    /\ next \in Seqnos
    /\ requests \in [Rings -> Seq(Reqs)] /\ hw \in [Rings -> Seq(Commands)] /\ hws \in [Rings -> Seqnos]
    /\ \A r \in Rings : RingOK(next, Budget, olr[r], requests[r], hw[r], hws[r])

Works == [queued : BOOLEAN, pc : {"idle", "unwedge", "complete"}]

GemInv == Threading /\ Budgeting /\ Lazy /\ Sequencing /\ WedgeHandled /\ work \in Works

-----------------------------------------------------------------------------
(* The inductive invariant: the objects in the lists                       *)

\* What TypeOK says of what the rest of the invariant does not speak of
Typing ==
    /\ mutex \in Threads \cup {Nobody} /\ semaphores \in SemaphoreModes
    /\ sync \in [Rings -> [Rings -> Seqnos]] /\ mbox \in [Rings -> Seqnos]
    /\ hung \in [Rings -> BOOLEAN] /\ moved \in BOOLEAN /\ irq \in [Rings -> BOOLEAN]
    /\ wedged \in BOOLEAN /\ recovered \in BOOLEAN
    /\ hangcheck \in [armed : BOOLEAN, count : 0 .. 2]
    /\ retire \in BOOLEAN /\ hangs \in 0 .. MaxHangs

\* The active list of one ring: each object once, the oldest first, and each has the
\* lazy request o or one in the list q that will retire it; lr is lastRead.
ListOK(n, o, q, a, lr) ==
    /\ \A i, j \in DOMAIN a : a[i] = a[j] => i = j
    /\ \A i, j \in DOMAIN a : i < j => Age(n, lr[a[j]]) <= Age(n, lr[a[i]])
    /\ \A i \in DOMAIN a : lr[a[i]] = o \/ \E j \in DOMAIN q : q[j].s = lr[a[i]]

Listing ==
    /\ active \in [Rings -> Seq(Objects)]
    /\ \A r \in Rings : \A o \in Objects : ring[o] = r <=> o \in Elements(active[r])
    /\ \A r \in Rings : ListOK(next, olr[r], requests[r], active[r], lastRead)

ListInv == Typing /\ Listing

-----------------------------------------------------------------------------
(* The inductive invariant: who uses the objects                           *)

IsBatch(c) == c.cmd = "batch"

\* Seqno s comes after command i of stream h, or is the lazy request o.
Guarded(h, i, o, s) == s # 0 /\ (s = o \/ \E j \in DOMAIN h : i < j /\ Crumb(h[j]) /\ h[j].s = s)

\* One ring: its batches are guarded by the seqnos of their objects.
UseOK(r, o, h, rg, lr) ==
    \A i \in DOMAIN h : IsBatch(h[i]) => rg[h[i].obj] = r /\ Guarded(h, i, o, lr[h[i].obj])
WriteOK(o, h, lw) ==
    \A i \in DOMAIN h : IsBatch(h[i]) /\ h[i].write => Guarded(h, i, o, lw[h[i].obj])

Apart ==
    \A p, q \in Rings : \A i \in DOMAIN hw[p], j \in DOMAIN hw[q] :
        IsBatch(hw[p][i]) /\ IsBatch(hw[q][j]) /\ hw[p][i].obj = hw[q][j].obj => p = q

\* The lists are as the batches need them: no reset has emptied them.
Certain == ~wedged \/ ~TryReset

Using ==
    /\ Certain => \A r \in Rings : UseOK(r, olr[r], hw[r], ring, lastRead)
    /\ Certain /\ NumRings = 1 => \A r \in Rings : WriteOK(olr[r], hw[r], lastWrite)
    /\ work.pc = "unwedge" => wedged /\ (TryReset => \A r \in Rings : hw[r] = <<>>)
    /\ \A r \in Rings : \A i \in DOMAIN hw[r] : IsBatch(hw[r][i]) => hw[r][i].obj \in Objects
    /\ Apart

\* Thread x waits for the rendering of its object with struct_mutex held, or has waited.
Renders(x) == x.pc = "rendered" \/ (x.pc \in Asking /\ x.then = "rendered")
\* Its batch will be the next user of its object.
Claims(x) == x.op = "exec" /\ x.pc # "request" /\ (x.pc = "begin" \/ Wraps(x) \/ Dispatches(x))
\* What it waited for has come.
Waited(x) == x.pc = "rendered" \/ (x.pc = "relock" /\ x.s # 0)

\* What x knows of the seqnos and its object
Knows(x) ==
    /\ x.sem = 0
    /\ x.s # 0 => Age(next, x.s) \in 1 .. Budget + 1
    /\ x.pc \in Asking => x.on \in Rings /\ x.s # 0
    /\ Waited(x) => x.on \in Rings /\ Age(next, hws[x.on]) <= Age(next, x.s)
    /\ Renders(x) => /\ x.s # 0 /\ x.on = ring[x.obj]
                     /\ x.op = "read" => x.s = lastWrite[x.obj]
                     /\ x.op # "read" => /\ x.s = lastRead[x.obj]
                                         /\ \E j \in DOMAIN requests[x.on] : requests[x.on][j].s = x.s
    /\ Claims(x) => ring[x.obj] \in {NoRing, x.to}
    /\ x.pc = "access" => IF x.op = "read" THEN lastWrite[x.obj] = 0 ELSE ring[x.obj] = NoRing

WritesKnown == \A o \in Objects : lastWrite[o] # 0 => Age(next, lastWrite[o]) \in 1 .. Budget + 1

UseInv == Using /\ WritesKnown /\ \A t \in Threads : Knows(th[t])

-----------------------------------------------------------------------------
(* Numbers: modulo, ages and the signed comparison                         *)

\* A number within the modulus.
LEMMA ModLow == ASSUME NEW M \in Nat \ {0}, NEW k \in 0 .. M - 1 PROVE k % M = k
  BY SMT

\* A number that is one round too low.
LEMMA ModBelow == ASSUME NEW M \in Nat \ {0}, NEW k \in Int, -M <= k, k < 0 PROVE k % M = k + M
  BY SMT

\* Half the modulus.
LEMMA HalfMod ==
    ASSUME GemAssumption PROVE Mod \div 2 \in Nat /\ Mod = 2 * (Mod \div 2)
  <1>1. Mod \in Nat \ {0, 1} /\ Mod % 2 = 0
    BY DEF GemAssumption
  <1> QED BY <1>1, SMT

\* The room FewBatches leaves.
LEMMA Room ==
    ASSUME GemAssumption, FewBatches
    PROVE  /\ MaxBatches \in Nat /\ Mod \in Nat \ {0} /\ Mod >= 6 /\ 2 * MaxBatches + 6 <= Mod
           /\ Mod \div 2 \in Nat /\ MaxBatches + 3 <= Mod \div 2
           /\ 0 \in Seqnos /\ NoRing \notin Rings /\ 1 \in Rings
  <1>1. MaxBatches \in Nat /\ Mod \in Nat /\ NumRings \in Nat \ {0}
    BY DEF GemAssumption
  <1>2. MaxBatches + 3 <= Mod \div 2
    BY DEF FewBatches
  <1> DEFINE H == Mod \div 2
  <1>3. H \in Nat /\ Mod = 2 * H /\ MaxBatches + 3 <= H
    BY <1>2, HalfMod
  <1>4. Mod \div 2 \in Nat /\ MaxBatches + 3 <= Mod \div 2
    BY <1>3
  <1> HIDE DEF H
  <1>5. Mod >= 6 /\ 2 * MaxBatches + 6 <= Mod
    BY <1>1, <1>3
  <1>6. 0 \in Seqnos /\ NoRing \notin Rings /\ 1 \in Rings
    BY <1>1, <1>5 DEF Seqnos, NoRing, Rings
  <1> QED BY <1>1, <1>4, <1>5, <1>6

\* An age is a number.
LEMMA AgeType ==
    ASSUME GemAssumption, NEW n \in Seqnos, NEW x \in Seqnos PROVE Age(n, x) \in Nat
  BY DEF GemAssumption, Seqnos, Age

\* The seqno after n, as intel_ring_alloc_seqno takes it: 0 is skipped.
Taken(n) == IF n = 0 THEN 1 ELSE n

\* A seqno is taken: it has age 1, all others are a seqno older.
LEMMA AgeTake ==
    ASSUME GemAssumption, Mod >= 6, NEW n \in Seqnos
    PROVE  /\ Taken(n) \in Seqnos \ {0} /\ (Taken(n) + 1) % Mod \in Seqnos
           /\ Age((Taken(n) + 1) % Mod, Taken(n)) = 1
           /\ \A x \in Seqnos : Age(n, x) < Mod - 1 => Age((Taken(n) + 1) % Mod, x) = Age(n, x) + 1
  <1>1. Mod \in Nat \ {0} /\ n \in 0 .. Mod - 1
    BY DEF GemAssumption, Seqnos
  <1> DEFINE m == (Taken(n) + 1) % Mod
  <1>2. CASE n = Mod - 1
    <2>1. Taken(n) = Mod - 1 /\ Taken(n) + 1 = Mod
      BY <1>1, <1>2 DEF Taken
    <2>2. m = 0
      BY <1>1, <2>1, SMT
    <2> QED BY <1>1, <1>2, <2>1, <2>2 DEF Age, Seqnos
  <1>3. CASE n # Mod - 1
    <2>1. Taken(n) + 1 \in 0 .. Mod - 1
      BY <1>1, <1>3 DEF Taken
    <2>2. m = Taken(n) + 1
      BY <1>1, <2>1, ModLow
    <2> HIDE DEF m
    <2>3. Age(m, Taken(n)) = 1 /\ m \in Seqnos /\ Taken(n) \in Seqnos \ {0}
      BY <1>1, <1>3, <2>2 DEF Age, Seqnos, Taken
    <2>4. \A x \in Seqnos : Age(n, x) < Mod - 1 => Age(m, x) = Age(n, x) + 1
      BY <1>1, <1>3, <2>2 DEF Age, Seqnos, Taken
    <2> QED BY <2>3, <2>4 DEF m
  <1> QED BY <1>2, <1>3

\* The seqnos restart: no age changes.
LEMMA AgeRestart ==
    ASSUME GemAssumption, Mod >= 6, NEW x \in Seqnos, Age(0, x) < Mod
    PROVE  Age(1, x) = Age(0, x)
  BY DEF GemAssumption, Seqnos, Age

\* The signed comparison is right for seqnos that are not too old.
LEMMA PassedByAge ==
    ASSUME GemAssumption, NEW n \in Seqnos, NEW a \in Seqnos, NEW b \in Seqnos \ {0},
           Age(n, a) <= Age(n, b), Age(n, b) + 1 < Mod \div 2
    PROVE  Passed(a, b)
  <1>1. Mod \in Nat \ {0} /\ n \in 0 .. Mod - 1 /\ a \in 0 .. Mod - 1 /\ b \in 1 .. Mod - 1
    BY DEF GemAssumption, Seqnos
  <1> DEFINE H == Mod \div 2
  <1>2. H \in Nat
    BY HalfMod
  <1>3. Age(n, b) + 1 < H
    OBVIOUS
  <1>4. Passed(a, b) <=> (a - b) % Mod < H
    BY DEF Passed
  <1> HIDE DEF H
  <1>5. CASE a >= b
    <2>1. a - b \in 0 .. Mod - 1 /\ a - b < H
      BY <1>1, <1>2, <1>3, <1>5 DEF Age
    <2> QED BY <1>1, <1>4, <2>1, ModLow
  <1>6. CASE a < b
    <2>1. -Mod <= a - b /\ a - b < 0 /\ a - b \in Int /\ a - b + Mod < H
      BY <1>1, <1>2, <1>3, <1>6 DEF Age
    <2> QED BY <1>1, <1>4, <2>1, ModBelow
  <1> QED BY <1>1, <1>5, <1>6

-----------------------------------------------------------------------------
(* One ring, step by step                                                  *)

\* Requests are retired, and an execbuffer may have given up its seqno.
LEMMA RingRetire ==
    ASSUME NEW n \in Seqnos, NEW b \in Int, NEW b2 \in Int, b <= b2,
           NEW o, NEW q, NEW h, NEW w, RingOK(n, b, o, q, h, w),
           NEW q2 \in Seq(Reqs), \A i \in DOMAIN q2 : \E j \in DOMAIN q : q2[i] = q[j]
    PROVE  RingOK(n, b2, o, q2, h, w)
  <1>1. Age(n, w) \in 1 .. b2 + 1
    BY DEF RingOK
  <1>2. \A i \in DOMAIN q2 : Age(n, q2[i].s) \in 1 .. b2 + 1
    BY DEF RingOK
  <1>3. o # 0 => \A i \in DOMAIN q2 : Age(n, o) < Age(n, q2[i].s)
    BY DEF RingOK
  <1>4. \A i \in DOMAIN q2 : \/ Age(n, w) <= Age(n, q2[i].s)
                             \/ \E j \in DOMAIN h : Crumb(h[j]) /\ h[j].s = q2[i].s
    BY DEF RingOK
  <1> QED BY <1>1, <1>2, <1>3, <1>4 DEF RingOK

\* The lazy request gets its entry in the list and its breadcrumb.
LEMMA RingAdd ==
    ASSUME GemAssumption, NEW n \in Seqnos, NEW b \in Int, NEW o, NEW q, NEW h, NEW w,
           RingOK(n, b, o, q, h, w), o # 0, NEW f \in Threads \cup {Nobody}
    PROVE  RingOK(n, b, 0, Append(q, [s |-> o, file |-> f]), Append(h, Breadcrumb(o)), w)
  <1> DEFINE e == [s |-> o, file |-> f]
             c == Breadcrumb(o)
             q2 == Append(q, e)
             h2 == Append(h, c)
  <1>1. o \in Seqnos \ {0} /\ q \in Seq(Reqs) /\ h \in Seq(Commands) /\ w \in Seqnos /\ 0 \in Seqnos
    BY DEF RingOK, GemAssumption, Seqnos
  <1>2. e \in Reqs /\ c \in Commands /\ Crumb(c) /\ c.s = o /\ e.s = o
    BY <1>1 DEF Reqs, Commands, Breadcrumb, Crumb, NoRing
  <1> HIDE DEF e, c
  <1>3. /\ q2 \in Seq(Reqs) /\ Len(q2) = Len(q) + 1 /\ DOMAIN q2 = 1 .. Len(q) + 1
        /\ \A i \in DOMAIN q : q2[i] = q[i]
        /\ q2[Len(q) + 1] = e /\ Len(q) \in Nat /\ DOMAIN q = 1 .. Len(q)
    BY <1>1, <1>2
  <1>4. /\ h2 \in Seq(Commands) /\ Len(h2) = Len(h) + 1 /\ DOMAIN h2 = 1 .. Len(h) + 1
        /\ \A i \in DOMAIN h : h2[i] = h[i]
        /\ h2[Len(h) + 1] = c /\ Len(h) \in Nat /\ DOMAIN h = 1 .. Len(h)
    BY <1>1, <1>2
  <1> HIDE DEF q2, h2
  <1>5. /\ Age(n, w) \in 1 .. b + 1 /\ Age(n, o) \in 1 .. Age(n, w) - 1
        /\ \A i \in DOMAIN q : Age(n, q[i].s) \in 1 .. b + 1
        /\ \A i \in DOMAIN h : Crumb(h[i]) => Age(n, h[i].s) \in 1 .. Age(n, w) - 1
        /\ \A i, j \in DOMAIN h : i < j /\ Crumb(h[i]) /\ Crumb(h[j]) => Age(n, h[j].s) < Age(n, h[i].s)
        /\ \A i \in DOMAIN h : Crumb(h[i]) => Age(n, o) < Age(n, h[i].s)
        /\ \A i \in DOMAIN q : \/ Age(n, w) <= Age(n, q[i].s)
                               \/ \E j \in DOMAIN h : Crumb(h[j]) /\ h[j].s = q[i].s
    BY <1>1 DEF RingOK
  <1>6. \A i \in DOMAIN q2 : Age(n, q2[i].s) \in 1 .. b + 1
    BY <1>2, <1>3, <1>5
  <1>7. \A i \in DOMAIN h2 : Crumb(h2[i]) => Age(n, h2[i].s) \in 1 .. Age(n, w) - 1
    BY <1>2, <1>4, <1>5
  <1>8. ASSUME NEW i \in DOMAIN h2, NEW j \in DOMAIN h2, i < j, Crumb(h2[i]), Crumb(h2[j])
        PROVE  Age(n, h2[j].s) < Age(n, h2[i].s)
    <2>1. i \in DOMAIN h /\ h2[i] = h[i]
      BY <1>4, <1>8
    <2>2. CASE j \in DOMAIN h
      BY <1>4, <1>5, <1>8, <2>1, <2>2
    <2>3. CASE j = Len(h) + 1
      BY <1>2, <1>4, <1>5, <1>8, <2>1, <2>3
    <2> QED BY <1>4, <2>2, <2>3
  <1>9. \A i \in DOMAIN q2 : \/ Age(n, w) <= Age(n, q2[i].s)
                             \/ \E j \in DOMAIN h2 : Crumb(h2[j]) /\ h2[j].s = q2[i].s
    <2>1. ASSUME NEW i \in DOMAIN q
          PROVE  \/ Age(n, w) <= Age(n, q2[i].s)
                 \/ \E j \in DOMAIN h2 : Crumb(h2[j]) /\ h2[j].s = q2[i].s
      <3>1. q2[i] = q[i]
        BY <1>3
      <3>2. ASSUME NEW j \in DOMAIN h, Crumb(h[j]), h[j].s = q[i].s
            PROVE  \E k \in DOMAIN h2 : Crumb(h2[k]) /\ h2[k].s = q2[i].s
        <4>1. j \in DOMAIN h2 /\ h2[j] = h[j]
          BY <1>4
        <4> QED BY <3>1, <3>2, <4>1
      <3> QED BY <1>5, <3>1, <3>2
    <2>2. Len(h) + 1 \in DOMAIN h2 /\ Crumb(h2[Len(h) + 1]) /\ h2[Len(h) + 1].s = q2[Len(q) + 1].s
      BY <1>2, <1>3, <1>4
    <2> QED BY <1>3, <2>1, <2>2
  <1>10. RingOK(n, b, 0, q2, h2, w)
    BY <1>1, <1>3, <1>4, <1>5, <1>6, <1>7, <1>8, <1>9 DEF RingOK
  <1> QED BY <1>10 DEF q2, h2, e, c

\* Another ring takes a seqno: everything here is a seqno older.
LEMMA RingAges ==
    ASSUME GemAssumption, Mod >= 6, NEW n \in Seqnos, NEW b \in Int, b + 1 < Mod - 1,
           NEW o, NEW q, NEW h, NEW w, RingOK(n, b, o, q, h, w)
    PROVE  RingOK((Taken(n) + 1) % Mod, b + 1, o, q, h, w)
  <1> DEFINE m == (Taken(n) + 1) % Mod
  <1>1. /\ Mod \in Nat
        /\ m \in Seqnos
        /\ \A x \in Seqnos : Age(n, x) < Mod - 1 => Age(m, x) = Age(n, x) + 1
    BY AgeTake DEF GemAssumption
  <1> HIDE DEF m
  <1>2. /\ o \in Seqnos /\ q \in Seq(Reqs) /\ h \in Seq(Commands) /\ w \in Seqnos
        /\ \A i \in DOMAIN q : q[i].s \in Seqnos
        /\ \A i \in DOMAIN h : h[i].s \in Seqnos
    <2>1. o \in Seqnos /\ q \in Seq(Reqs) /\ h \in Seq(Commands) /\ w \in Seqnos
      BY DEF RingOK
    <2>2. \A i \in DOMAIN q : q[i] \in Reqs
      BY <2>1
    <2>3. \A i \in DOMAIN h : h[i] \in Commands
      BY <2>1
    <2> QED BY <2>1, <2>2, <2>3 DEF Reqs, Commands
  <1>3. Age(n, w) \in 1 .. b + 1 /\ Age(m, w) = Age(n, w) + 1
    BY <1>1, <1>2 DEF RingOK
  <1>4. \A i \in DOMAIN q : Age(n, q[i].s) \in 1 .. b + 1 /\ Age(m, q[i].s) = Age(n, q[i].s) + 1
    <2>1. \A i \in DOMAIN q : Age(n, q[i].s) \in 1 .. b + 1
      BY DEF RingOK
    <2> QED BY <1>1, <1>2, <2>1
  <1>5. \A i \in DOMAIN h : Crumb(h[i]) => /\ Age(n, h[i].s) \in 1 .. Age(n, w) - 1
                                           /\ Age(m, h[i].s) = Age(n, h[i].s) + 1
    <2>1. \A i \in DOMAIN h : Crumb(h[i]) => Age(n, h[i].s) \in 1 .. Age(n, w) - 1
      BY DEF RingOK
    <2> QED BY <1>1, <1>2, <1>3, <2>1
  <1>6. o # 0 => Age(n, o) \in 1 .. Age(n, w) - 1 /\ Age(m, o) = Age(n, o) + 1
    <2>1. o # 0 => Age(n, o) \in 1 .. Age(n, w) - 1
      BY DEF RingOK
    <2> QED BY <1>1, <1>2, <1>3, <2>1
  <1>7. Age(m, w) \in 1 .. (b + 1) + 1 /\ \A i \in DOMAIN q : Age(m, q[i].s) \in 1 .. (b + 1) + 1
    BY <1>3, <1>4
  <1>8. \A i \in DOMAIN h : Crumb(h[i]) => Age(m, h[i].s) \in 1 .. Age(m, w) - 1
    BY <1>3, <1>5
  <1>9. \A i, j \in DOMAIN h : i < j /\ Crumb(h[i]) /\ Crumb(h[j]) => Age(m, h[j].s) < Age(m, h[i].s)
    <2>1. \A i, j \in DOMAIN h : i < j /\ Crumb(h[i]) /\ Crumb(h[j]) => Age(n, h[j].s) < Age(n, h[i].s)
      BY DEF RingOK
    <2> QED BY <1>3, <1>5, <2>1
  <1>10. o # 0 => /\ Age(m, o) \in 1 .. Age(m, w) - 1
                  /\ \A i \in DOMAIN q : Age(m, o) < Age(m, q[i].s)
                  /\ \A i \in DOMAIN h : Crumb(h[i]) => Age(m, o) < Age(m, h[i].s)
    <2>1. o # 0 => /\ \A i \in DOMAIN q : Age(n, o) < Age(n, q[i].s)
                   /\ \A i \in DOMAIN h : Crumb(h[i]) => Age(n, o) < Age(n, h[i].s)
      BY DEF RingOK
    <2> QED BY <1>3, <1>4, <1>5, <1>6, <2>1
  <1>11. \A i \in DOMAIN q : \/ Age(m, w) <= Age(m, q[i].s)
                             \/ \E j \in DOMAIN h : Crumb(h[j]) /\ h[j].s = q[i].s
    <2>1. \A i \in DOMAIN q : \/ Age(n, w) <= Age(n, q[i].s)
                              \/ \E j \in DOMAIN h : Crumb(h[j]) /\ h[j].s = q[i].s
      BY DEF RingOK
    <2> QED BY <1>3, <1>4, <2>1
  <1>12. RingOK(m, b + 1, o, q, h, w)
    BY <1>2, <1>7, <1>8, <1>9, <1>10, <1>11 DEF RingOK
  <1> QED BY <1>12 DEF m

\* The ring itself takes the seqno.
LEMMA RingTakes ==
    ASSUME GemAssumption, Mod >= 6, NEW n \in Seqnos, NEW b \in Int, b + 1 < Mod - 1,
           NEW q, NEW h, NEW w, RingOK(n, b, 0, q, h, w)
    PROVE  RingOK((Taken(n) + 1) % Mod, b + 1, Taken(n), q, h, w)
  <1> DEFINE m == (Taken(n) + 1) % Mod
  <1>1. RingOK(m, b + 1, 0, q, h, w)
    BY RingAges
  <1>2. Taken(n) \in Seqnos \ {0} /\ Age(m, Taken(n)) = 1 /\ Mod \in Nat
    BY AgeTake DEF GemAssumption
  <1>3. /\ \A x \in Seqnos : Age(n, x) < Mod - 1 => Age(m, x) = Age(n, x) + 1
    BY AgeTake
  <1> HIDE DEF m
  <1>4. \A i \in DOMAIN q : q[i].s \in Seqnos
    <2>1. q \in Seq(Reqs)
      BY DEF RingOK
    <2>2. \A i \in DOMAIN q : q[i] \in Reqs
      BY <2>1
    <2> QED BY <2>2 DEF Reqs
  <1>5. \A i \in DOMAIN q : Age(n, q[i].s) \in 1 .. b + 1
    BY DEF RingOK
  <1>6. \A i \in DOMAIN q : 1 < Age(m, q[i].s)
    BY <1>2, <1>3, <1>4, <1>5
  <1>7. Age(m, w) \in 1 .. (b + 1) + 1 /\ \A i \in DOMAIN h : Crumb(h[i]) => Age(m, h[i].s) \in 1 .. Age(m, w) - 1
    BY <1>1 DEF RingOK
  <1>8. 1 < Age(m, w) /\ \A i \in DOMAIN h : Crumb(h[i]) => 1 < Age(m, h[i].s)
    <2>1. /\ h \in Seq(Commands) /\ w \in Seqnos /\ Age(n, w) \in 1 .. b + 1
          /\ \A i \in DOMAIN h : Crumb(h[i]) => Age(n, h[i].s) \in 1 .. Age(n, w) - 1
      BY DEF RingOK
    <2>2. \A i \in DOMAIN h : h[i].s \in Seqnos
      <3>1. \A i \in DOMAIN h : h[i] \in Commands
        BY <2>1
      <3> QED BY <3>1 DEF Commands
    <2>3. 1 < Age(m, w)
      BY <1>2, <1>3, <2>1
    <2>4. ASSUME NEW i \in DOMAIN h, Crumb(h[i]) PROVE 1 < Age(m, h[i].s)
      BY <1>2, <1>3, <2>1, <2>2, <2>4
    <2> QED BY <2>3, <2>4
  <1>9. RingOK(m, b + 1, Taken(n), q, h, w)
    BY <1>1, <1>2, <1>6, <1>7, <1>8 DEF RingOK
  <1> QED BY <1>9 DEF m

\* The seqnos restart at 1.
LEMMA RingRestarts ==
    ASSUME GemAssumption, Mod >= 6, NEW b \in Int, b + 1 < Mod - 1,
           NEW o, NEW q, NEW h, NEW w, RingOK(0, b, o, q, h, w)
    PROVE  RingOK(1, b, o, q, h, w)
  <1>1. Mod \in Nat
    BY DEF GemAssumption
  <1>2. /\ o \in Seqnos /\ q \in Seq(Reqs) /\ h \in Seq(Commands) /\ w \in Seqnos
        /\ \A i \in DOMAIN q : q[i].s \in Seqnos
        /\ \A i \in DOMAIN h : h[i].s \in Seqnos
    <2>1. o \in Seqnos /\ q \in Seq(Reqs) /\ h \in Seq(Commands) /\ w \in Seqnos
      BY DEF RingOK
    <2>2. \A i \in DOMAIN q : q[i] \in Reqs
      BY <2>1
    <2>3. \A i \in DOMAIN h : h[i] \in Commands
      BY <2>1
    <2> QED BY <2>1, <2>2, <2>3 DEF Reqs, Commands
  <1>3. Age(0, w) \in 1 .. b + 1 /\ Age(1, w) = Age(0, w)
    <2>1. Age(0, w) \in 1 .. b + 1
      BY DEF RingOK
    <2> QED BY <1>1, <1>2, <2>1, AgeRestart
  <1>4. \A i \in DOMAIN q : Age(0, q[i].s) \in 1 .. b + 1 /\ Age(1, q[i].s) = Age(0, q[i].s)
    <2>1. \A i \in DOMAIN q : Age(0, q[i].s) \in 1 .. b + 1
      BY DEF RingOK
    <2> QED BY <1>1, <1>2, <2>1, AgeRestart
  <1>5. \A i \in DOMAIN h : Crumb(h[i]) => /\ Age(0, h[i].s) \in 1 .. Age(0, w) - 1
                                           /\ Age(1, h[i].s) = Age(0, h[i].s)
    <2>1. \A i \in DOMAIN h : Crumb(h[i]) => Age(0, h[i].s) \in 1 .. Age(0, w) - 1
      BY DEF RingOK
    <2> QED BY <1>1, <1>2, <1>3, <2>1, AgeRestart
  <1>6. o # 0 => Age(0, o) \in 1 .. Age(0, w) - 1 /\ Age(1, o) = Age(0, o)
    <2>1. o # 0 => Age(0, o) \in 1 .. Age(0, w) - 1
      BY DEF RingOK
    <2> QED BY <1>1, <1>2, <1>3, <2>1, AgeRestart
  <1>7. \A i, j \in DOMAIN h : i < j /\ Crumb(h[i]) /\ Crumb(h[j]) => Age(1, h[j].s) < Age(1, h[i].s)
    <2>1. \A i, j \in DOMAIN h : i < j /\ Crumb(h[i]) /\ Crumb(h[j]) => Age(0, h[j].s) < Age(0, h[i].s)
      BY DEF RingOK
    <2> QED BY <1>5, <2>1
  <1>8. o # 0 => /\ Age(1, o) \in 1 .. Age(1, w) - 1
                 /\ \A i \in DOMAIN q : Age(1, o) < Age(1, q[i].s)
                 /\ \A i \in DOMAIN h : Crumb(h[i]) => Age(1, o) < Age(1, h[i].s)
    <2>1. o # 0 => /\ \A i \in DOMAIN q : Age(0, o) < Age(0, q[i].s)
                   /\ \A i \in DOMAIN h : Crumb(h[i]) => Age(0, o) < Age(0, h[i].s)
      BY DEF RingOK
    <2> QED BY <1>3, <1>4, <1>5, <1>6, <2>1
  <1>9. \A i \in DOMAIN q : \/ Age(1, w) <= Age(1, q[i].s)
                            \/ \E j \in DOMAIN h : Crumb(h[j]) /\ h[j].s = q[i].s
    <2>1. \A i \in DOMAIN q : \/ Age(0, w) <= Age(0, q[i].s)
                              \/ \E j \in DOMAIN h : Crumb(h[j]) /\ h[j].s = q[i].s
      BY DEF RingOK
    <2> QED BY <1>3, <1>4, <2>1
  <1> QED BY <1>2, <1>3, <1>4, <1>5, <1>7, <1>8, <1>9 DEF RingOK

\* The ring executes its next command; w2 is what the status page then has.
LEMMA RingExecutes ==
    ASSUME NEW n \in Seqnos, NEW b \in Int, NEW o, NEW q, NEW h, NEW w, RingOK(n, b, o, q, h, w),
           h # <<>>, NEW w2, w2 = IF Crumb(h[1]) THEN h[1].s ELSE w
    PROVE  RingOK(n, b, o, q, Tail(h), w2)
  <1> DEFINE h2 == Tail(h)
  <1>1. /\ o \in Seqnos /\ q \in Seq(Reqs) /\ h \in Seq(Commands) /\ w \in Seqnos
        /\ Age(n, w) \in 1 .. b + 1
        /\ \A i \in DOMAIN q : Age(n, q[i].s) \in 1 .. b + 1
        /\ \A i \in DOMAIN h : Crumb(h[i]) => Age(n, h[i].s) \in 1 .. Age(n, w) - 1
        /\ \A i, j \in DOMAIN h : i < j /\ Crumb(h[i]) /\ Crumb(h[j]) => Age(n, h[j].s) < Age(n, h[i].s)
        /\ o # 0 => /\ Age(n, o) \in 1 .. Age(n, w) - 1
                    /\ \A i \in DOMAIN q : Age(n, o) < Age(n, q[i].s)
                    /\ \A i \in DOMAIN h : Crumb(h[i]) => Age(n, o) < Age(n, h[i].s)
        /\ \A i \in DOMAIN q : \/ Age(n, w) <= Age(n, q[i].s)
                               \/ \E j \in DOMAIN h : Crumb(h[j]) /\ h[j].s = q[i].s
    BY DEF RingOK
  <1>2. /\ h2 \in Seq(Commands) /\ 1 \in DOMAIN h /\ Len(h) \in Nat \ {0} /\ DOMAIN h = 1 .. Len(h)
        /\ DOMAIN h2 = 1 .. Len(h) - 1
        /\ \A i \in DOMAIN h2 : i + 1 \in DOMAIN h /\ h2[i] = h[i + 1]
    BY <1>1
  <1> HIDE DEF h2
  <1>3. w2 \in Seqnos /\ Age(n, w2) \in 1 .. Age(n, w)
    <2>1. h[1] \in Commands
      BY <1>1, <1>2
    <2> QED BY <1>1, <1>2, <2>1 DEF Commands
  <1>4. \A i \in DOMAIN h2 : Crumb(h2[i]) => Age(n, h2[i].s) \in 1 .. Age(n, w2) - 1
    <2>1. ASSUME NEW i \in DOMAIN h2, Crumb(h2[i]) PROVE Age(n, h2[i].s) \in 1 .. Age(n, w2) - 1
      <3>1. i + 1 \in DOMAIN h /\ h2[i] = h[i + 1] /\ 1 < i + 1
        BY <1>2
      <3>2. Age(n, h2[i].s) \in 1 .. Age(n, w) - 1
        BY <1>1, <2>1, <3>1
      <3>3. Crumb(h[1]) => Age(n, h[i + 1].s) < Age(n, h[1].s)
        BY <1>1, <1>2, <2>1, <3>1
      <3> QED BY <3>1, <3>2, <3>3, <1>3
    <2> QED BY <2>1
  <1>5. \A i, j \in DOMAIN h2 : i < j /\ Crumb(h2[i]) /\ Crumb(h2[j]) => Age(n, h2[j].s) < Age(n, h2[i].s)
    <2>1. ASSUME NEW i \in DOMAIN h2, NEW j \in DOMAIN h2, i < j, Crumb(h2[i]), Crumb(h2[j])
          PROVE  Age(n, h2[j].s) < Age(n, h2[i].s)
      <3>1. i + 1 \in DOMAIN h /\ j + 1 \in DOMAIN h /\ i + 1 < j + 1 /\ h2[i] = h[i + 1] /\ h2[j] = h[j + 1]
        BY <1>2, <2>1
      <3> QED BY <1>1, <2>1, <3>1
    <2> QED BY <2>1
  <1>6. o # 0 => /\ Age(n, o) \in 1 .. Age(n, w2) - 1
                 /\ \A i \in DOMAIN h2 : Crumb(h2[i]) => Age(n, o) < Age(n, h2[i].s)
    <2>1. o # 0 => Age(n, o) < Age(n, w2)
      <3>1. CASE Crumb(h[1])
        BY <1>1, <1>2, <3>1
      <3>2. CASE ~Crumb(h[1])
        BY <1>1, <1>3, <3>2
      <3> QED BY <3>1, <3>2
    <2> QED BY <1>1, <1>2, <1>3, <2>1
  <1>7. ASSUME NEW i \in DOMAIN q
        PROVE  \/ Age(n, w2) <= Age(n, q[i].s)
               \/ \E j \in DOMAIN h2 : Crumb(h2[j]) /\ h2[j].s = q[i].s
    <2>1. CASE Age(n, w) <= Age(n, q[i].s)
      BY <1>1, <1>3, <2>1
    <2>2. ASSUME NEW j \in DOMAIN h, Crumb(h[j]), h[j].s = q[i].s
          PROVE  \/ Age(n, w2) <= Age(n, q[i].s)
                 \/ \E k \in DOMAIN h2 : Crumb(h2[k]) /\ h2[k].s = q[i].s
      <3>1. CASE j = 1
        BY <1>1, <2>2, <3>1
      <3>2. CASE j # 1
        <4>1. j - 1 \in DOMAIN h2 /\ h2[j - 1] = h[j]
          <5>1. j - 1 \in DOMAIN h2 /\ (j - 1) + 1 = j
            BY <1>2, <3>2
          <5> QED BY <1>2, <5>1
        <4> QED BY <2>2, <4>1
      <3> QED BY <3>1, <3>2
    <2> QED BY <1>1, <2>1, <2>2
  <1>8. RingOK(n, b, o, q, h2, w2)
    <2>1. Age(n, w2) \in 1 .. b + 1
      BY <1>1, <1>3
    <2> QED BY <1>1, <1>2, <1>3, <1>4, <1>5, <1>6, <1>7, <2>1 DEF RingOK
  <1> QED BY <1>8 DEF h2

\* Commands without a breadcrumb are added.
LEMMA RingEmits ==
    ASSUME NEW n \in Seqnos, NEW b \in Int, NEW o, NEW q, NEW h, NEW w, RingOK(n, b, o, q, h, w),
           NEW c \in Commands, ~Crumb(c)
    PROVE  RingOK(n, b, o, q, Append(h, c), w)
  <1> DEFINE h2 == Append(h, c)
  <1>1. /\ h \in Seq(Commands)
        /\ \A i \in DOMAIN h : Crumb(h[i]) => Age(n, h[i].s) \in 1 .. Age(n, w) - 1
        /\ \A i, j \in DOMAIN h : i < j /\ Crumb(h[i]) /\ Crumb(h[j]) => Age(n, h[j].s) < Age(n, h[i].s)
        /\ o # 0 => \A i \in DOMAIN h : Crumb(h[i]) => Age(n, o) < Age(n, h[i].s)
        /\ \A i \in DOMAIN q : \/ Age(n, w) <= Age(n, q[i].s)
                               \/ \E j \in DOMAIN h : Crumb(h[j]) /\ h[j].s = q[i].s
    BY DEF RingOK
  <1>2. /\ h2 \in Seq(Commands) /\ Len(h) \in Nat /\ DOMAIN h = 1 .. Len(h) /\ DOMAIN h2 = 1 .. Len(h) + 1
        /\ \A i \in DOMAIN h : i \in DOMAIN h2 /\ h2[i] = h[i]
        /\ h2[Len(h) + 1] = c
    BY <1>1
  <1> HIDE DEF h2
  <1>3. \A i \in DOMAIN h2 : Crumb(h2[i]) => i \in DOMAIN h /\ h2[i] = h[i]
    BY <1>2
  <1>4. \A i \in DOMAIN h2 : Crumb(h2[i]) => Age(n, h2[i].s) \in 1 .. Age(n, w) - 1
    BY <1>1, <1>3
  <1>5. \A i, j \in DOMAIN h2 : i < j /\ Crumb(h2[i]) /\ Crumb(h2[j]) => Age(n, h2[j].s) < Age(n, h2[i].s)
    BY <1>1, <1>3
  <1>6. o # 0 => \A i \in DOMAIN h2 : Crumb(h2[i]) => Age(n, o) < Age(n, h2[i].s)
    BY <1>1, <1>3
  <1>7. \A i \in DOMAIN q : \/ Age(n, w) <= Age(n, q[i].s)
                            \/ \E j \in DOMAIN h2 : Crumb(h2[j]) /\ h2[j].s = q[i].s
    <2>1. ASSUME NEW i \in DOMAIN q, NEW j \in DOMAIN h, Crumb(h[j]), h[j].s = q[i].s
          PROVE  \E k \in DOMAIN h2 : Crumb(h2[k]) /\ h2[k].s = q[i].s
      BY <1>2, <2>1
    <2> QED BY <1>1, <2>1
  <1>8. RingOK(n, b, o, q, h2, w)
    BY <1>2, <1>4, <1>5, <1>6, <1>7 DEF RingOK
  <1> QED BY <1>8 DEF h2

\* The chip is reset, or only the lists are.
LEMMA RingResets ==
    ASSUME NEW n \in Seqnos, NEW b \in Int, NEW o, NEW q, NEW h, NEW w, RingOK(n, b, o, q, h, w)
    PROVE  RingOK(n, b, o, <<>>, <<>>, w) /\ RingOK(n, b, o, <<>>, h, w)
  <1>1. <<>> \in Seq(Reqs) /\ <<>> \in Seq(Commands) /\ DOMAIN <<>> = {}
    OBVIOUS
  <1> QED BY <1>1 DEF RingOK

\* Every request in the list of a ring is done or has its breadcrumb.
LEMMA RingCompletes ==
    ASSUME GemAssumption, NEW n \in Seqnos, NEW b \in Int, b + 2 < Mod \div 2,
           NEW o, NEW q, NEW h, NEW w, RingOK(n, b, o, q, h, w), NEW i \in DOMAIN q
    PROVE  Passed(w, q[i].s) \/ \E j \in DOMAIN h : h[j].cmd = "seqno" /\ h[j].s = q[i].s
  <1>1. /\ Age(n, q[i].s) \in 1 .. b + 1 /\ w \in Seqnos /\ q \in Seq(Reqs)
        /\ \/ Age(n, w) <= Age(n, q[i].s)
           \/ \E j \in DOMAIN h : Crumb(h[j]) /\ h[j].s = q[i].s
    BY DEF RingOK
  <1>2. q[i].s \in Seqnos \ {0}
    <2>1. q[i] \in Reqs
      BY <1>1
    <2> QED BY <2>1 DEF Reqs
  <1>3. Age(n, q[i].s) + 1 < Mod \div 2
    <2> DEFINE H == Mod \div 2
    <2>1. H \in Nat /\ b + 2 < H
      BY HalfMod
    <2>2. Age(n, q[i].s) + 1 < H
      <3> HIDE DEF H
      <3> QED BY <1>1, <2>1
    <2> QED BY <2>2
  <1> QED BY <1>1, <1>2, <1>3, PassedByAge DEF Crumb

-----------------------------------------------------------------------------
(* Retiring                                                                *)

\* A set of naturals has a least one.
LEMMA LeastNumber ==
    ASSUME NEW S \in SUBSET Nat, S # {}
    PROVE  \E m \in S : \A k \in S : m <= k
  <1> DEFINE R == {ss \in Nat \X Nat : ss[1] < ss[2]}
  <1>1. IsWellFoundedOn(R, Nat)
    BY NatLessThanWellFounded DEF OpToRel
  <1>2. PICK x \in S : \A y \in S : ~(<<y, x>> \in R)
    <2> HIDE DEF R
    <2> QED BY <1>1, WFMin
  <1>3. ASSUME NEW k \in S PROVE x <= k
    <2>1. ~(<<k, x>> \in R)
      BY <1>2
    <2>2. k \in Nat /\ x \in Nat
      OBVIOUS
    <2>3. <<k, x>> \in Nat \X Nat /\ <<k, x>>[1] = k /\ <<k, x>>[2] = x
      BY <2>2
    <2> QED BY <2>1, <2>2, <2>3
  <1> QED BY <1>3

\* There is a first place that is not in S, or none.
LEMMA FirstOut ==
    ASSUME NEW L \in Nat, NEW S
    PROVE  \E n \in 0 .. L : (\A i \in 1 .. n : i \in S) /\ (n < L => n + 1 \notin S)
  <1> DEFINE T == {k \in 1 .. L : k \notin S}
  <1>1. CASE T = {}
    <2>1. \A i \in 1 .. L : i \in S
      BY <1>1
    <2>2. L \in 0 .. L
      OBVIOUS
    <2> QED BY <2>1, <2>2
  <1>2. CASE T # {}
    <2>1. T \in SUBSET Nat
      OBVIOUS
    <2>2. PICK m \in T : \A k \in T : m <= k
      BY <1>2, <2>1, LeastNumber
    <2>3. m - 1 \in 0 .. L /\ m \notin S /\ (m - 1) + 1 = m
      BY <2>2
    <2>4. \A i \in 1 .. m - 1 : i \in S
      BY <2>2
    <2> QED BY <2>3, <2>4
  <1> QED BY <1>1, <1>2

\* Elements are taken off the head of a sequence.
LEMMA DropOK ==
    ASSUME NEW S, NEW q \in Seq(S), NEW n \in 0 .. Len(q)
    PROVE  /\ Drop(q, n) \in Seq(S)
           /\ \A i \in DOMAIN Drop(q, n) : \E j \in DOMAIN q : Drop(q, n)[i] = q[j]
  <1>1. n + 1 \in Int /\ Len(q) \in Nat /\ DOMAIN q = 1 .. Len(q)
    OBVIOUS
  <1>2. n + 1 \in 1 .. Len(q) + 1 /\ Len(q) \in (n + 1) - 1 .. Len(q)
    BY <1>1
  <1>3. /\ SubSeq(q, n + 1, Len(q)) \in Seq(S)
        /\ Len(SubSeq(q, n + 1, Len(q))) = Len(q) - (n + 1) + 1
        /\ \A i \in 1 .. Len(q) - (n + 1) + 1 : SubSeq(q, n + 1, Len(q))[i] = q[(n + 1) + i - 1]
    BY <1>2, SubSeqProperties
  <1> DEFINE d == Drop(q, n)
  <1>4. d \in Seq(S) /\ Len(d) = Len(q) - n /\ \A i \in 1 .. Len(q) - n : d[i] = q[(n + 1) + i - 1]
    <2>1. Len(q) - (n + 1) + 1 = Len(q) - n /\ d = SubSeq(q, n + 1, Len(q))
      BY <1>1 DEF Drop
    <2> HIDE DEF d
    <2> QED BY <1>3, <2>1
  <1> HIDE DEF d
  <1>5. \A i \in DOMAIN d : i \in 1 .. Len(q) - n /\ (n + 1) + i - 1 \in DOMAIN q
    BY <1>1, <1>4
  <1>6. d \in Seq(S) /\ \A i \in DOMAIN d : \E j \in DOMAIN q : d[i] = q[j]
    BY <1>4, <1>5
  <1> QED BY <1>6 DEF d

\* What i915_gem_retire_requests_ring leaves of a list was in it.
LEMMA RemainingOK ==
    ASSUME NEW R, NEW r \in Rings, requests \in [Rings -> Seq(Reqs)]
    PROVE  /\ Remaining(R)[r] \in Seq(Reqs)
           /\ \A i \in DOMAIN Remaining(R)[r] : \E j \in DOMAIN requests[r] :
                  Remaining(R)[r][i] = requests[r][j]
  <1>1. CASE r \notin R
    BY <1>1 DEF Remaining
  <1>2. CASE r \in R
    <2> DEFINE q == requests[r]
               S == {i \in DOMAIN q : Done(r, q[i].s)}
               P(n) == /\ \A i \in 1 .. n : Done(r, q[i].s)
                       /\ n < Len(q) => ~Done(r, q[n + 1].s)
               n0 == CHOOSE n \in 0 .. Len(q) : P(n)
    <2>1. q \in Seq(Reqs) /\ Len(q) \in Nat /\ DOMAIN q = 1 .. Len(q)
      OBVIOUS
    <2>2. PICK n \in 0 .. Len(q) : (\A i \in 1 .. n : i \in S) /\ (n < Len(q) => n + 1 \notin S)
      <3> HIDE DEF S
      <3> QED BY <2>1, FirstOut
    <2>3. P(n)
      <3>1. \A i \in 1 .. n : Done(r, q[i].s)
        BY <2>2
      <3>2. ASSUME n < Len(q) PROVE ~Done(r, q[n + 1].s)
        <4>1. n + 1 \in DOMAIN q
          BY <2>1, <3>2
        <4> QED BY <2>2, <3>2, <4>1
      <3> QED BY <3>1, <3>2
    <2>4. n0 \in 0 .. Len(q)
      <3> HIDE DEF P
      <3> QED BY <2>3
    <2>5. Remaining(R)[r] = Drop(q, n0)
      BY <1>2 DEF Remaining, PassedPrefix
    <2> HIDE DEF n0
    <2>6. /\ Drop(q, n0) \in Seq(Reqs)
          /\ \A i \in DOMAIN Drop(q, n0) : \E j \in DOMAIN q : Drop(q, n0)[i] = q[j]
      <3> HIDE DEF q
      <3> QED BY <2>1, <2>4, DropOK, ZenonT(40)
    <2> QED BY <2>5, <2>6
  <1> QED BY <1>1, <1>2

\* Every ring has a list after that.
LEMMA RemainingType ==
    ASSUME NEW R, requests \in [Rings -> Seq(Reqs)] PROVE Remaining(R) \in [Rings -> Seq(Reqs)]
  <1>1. \A r \in Rings : Remaining(R)[r] \in Seq(Reqs)
    BY RemainingOK
  <1>2. Remaining(R) = [r \in Rings |-> Remaining(R)[r]]
    BY DEF Remaining
  <1> QED BY <1>1, <1>2

\* Objects that go inactive lose their seqnos with their ring.
LEMMA MoveToInactiveOK ==
    ASSUME GemAssumption, Lazy, NEW S, NEW W, MoveToInactive(S, W), UNCHANGED <<olr, dirty>>
    PROVE  Lazy'
  <1>1. 0 \in Seqnos /\ NoRing \in Rings \cup {NoRing} /\ NoRing = 0
    BY DEF GemAssumption, Seqnos, NoRing
  <1>2. \A o \in Objects : /\ ring'[o] = IF o \in S THEN NoRing ELSE ring[o]
                           /\ lastRead'[o] = IF o \in S THEN 0 ELSE lastRead[o]
                           /\ lastWrite'[o] = IF o \in S \cup W THEN 0 ELSE lastWrite[o]
    BY DEF MoveToInactive
  <1>3. /\ ring' \in [Objects -> Rings \cup {NoRing}]
        /\ lastRead' \in [Objects -> Seqnos] /\ lastWrite' \in [Objects -> Seqnos]
    BY <1>1 DEF MoveToInactive, Lazy
  <1> QED BY <1>2, <1>3 DEF Lazy

-----------------------------------------------------------------------------
(* Threads move                                                            *)

\* Whoever wraps or dispatches has the mutex.
LEMMA HoldsAll == ASSUME NEW x, Wraps(x) \/ Dispatches(x) PROVE Holds(x)
  BY DEF Wraps, Dispatches, Holds, HoldPCs

\* The budget is a number.
LEMMA BudgetType == ASSUME Budgeting PROVE Budget \in Nat /\ Cardinality(Pending) \in Nat /\ Budget <= batches
  <1>1. Cardinality(Pending) \in Nat
    BY FS_CardinalityType DEF Budgeting
  <1> QED BY <1>1 DEF Budgeting, Budget

\* A thread moves on, with the mutex if it needs it.
LEMMA ThreadGoes ==
    ASSUME GemAssumption, Threading, NEW t \in Threads, NEW x, RecOK(x),
           th' = [th EXCEPT ![t] = x],
           mutex \in {t, Nobody} \/ (mutex' = mutex /\ next' = next /\ olr' = olr),
           Holds(x) => mutex' = t, Wraps(x) => next' = 0, Dispatches(x) => olr'[x.to] # 0
    PROVE  Threading' /\ th'[t] = x /\ \A u \in Threads \ {t} : th'[u] = th[u]
  <1>1. x \in ThreadRec /\ th \in [Threads -> ThreadRec] /\ Nobody \notin Threads
    BY DEF RecOK, Threading, GemAssumption
  <1>2. th' \in [Threads -> ThreadRec] /\ th'[t] = x /\ \A u \in Threads \ {t} : th'[u] = th[u]
    BY <1>1
  <1>3. ASSUME NEW u \in Threads
        PROVE  /\ RecOK(th'[u])
               /\ Holds(th'[u]) => mutex' = u
               /\ Wraps(th'[u]) => next' = 0
               /\ Dispatches(th'[u]) => olr'[th'[u].to] # 0
    <2>1. CASE u = t
      BY <1>2, <2>1
    <2>2. CASE u # t /\ mutex \in {t, Nobody}
      <3>1. ~Holds(th[u]) /\ RecOK(th[u])
        BY <1>1, <2>2 DEF Threading
      <3> QED BY <1>2, <2>2, <3>1, HoldsAll
    <2>3. CASE u # t /\ mutex' = mutex /\ next' = next /\ olr' = olr
      BY <1>2, <2>3 DEF Threading
    <2> QED BY <2>1, <2>2, <2>3
  <1> QED BY <1>2, <1>3 DEF Threading

\* A thread that takes no seqno moves on.
LEMMA ThreadMoves ==
    ASSUME GemAssumption, Threading, Budgeting, NEW t \in Threads, NEW x, RecOK(x),
           th' = [th EXCEPT ![t] = x], batches' = batches,
           mutex \in {t, Nobody} \/ (mutex' = mutex /\ next' = next /\ olr' = olr),
           Holds(x) => mutex' = t, Wraps(x) => next' = 0, Dispatches(x) => olr'[x.to] # 0,
           Allots(x) => Allots(th[t])
    PROVE  /\ Threading' /\ Budgeting' /\ Budget \in Nat /\ Budget' \in Nat /\ Budget <= Budget'
           /\ Allots(th[t]) /\ ~Allots(x) => Budget' = Budget + 1
  <1>2. th'[t] = x /\ \A u \in Threads \ {t} : th'[u] = th[u]
    BY ThreadGoes
  <1>4. Threading'
    BY ThreadGoes
  <1>5. \A u \in Threads \ {t} : Allots(th'[u]) <=> Allots(th[u])
    BY <1>2
  <1>6. IsFiniteSet(Pending) /\ Cardinality(Pending) \in Nat /\ Budget \in Nat
    BY BudgetType DEF Budgeting
  <1>7. CASE Allots(x) \/ ~Allots(th[t])
    <2>1. Pending' = Pending
      BY <1>2, <1>5, <1>7 DEF Pending
    <2> QED BY <1>4, <1>6, <1>7, <2>1 DEF Budget, Budgeting
  <1>8. CASE Allots(th[t]) /\ ~Allots(x)
    <2>1. Pending' = Pending \ {t} /\ t \in Pending
      BY <1>2, <1>5, <1>8 DEF Pending
    <2>2. IsFiniteSet(Pending') /\ Cardinality(Pending') = Cardinality(Pending) - 1
      BY <1>6, <2>1, FS_RemoveElement
    <2>3. Cardinality(Pending') \in Nat
      BY <2>2, FS_CardinalityType
    <2>4. batches \in 0 .. MaxBatches /\ Cardinality(Pending) <= batches /\ MaxBatches \in Nat
      BY DEF Budgeting, GemAssumption
    <2> QED BY <1>4, <1>6, <1>8, <2>2, <2>3, <2>4 DEF Budget, Budgeting
  <1> QED BY <1>7, <1>8

\* A thread that has returned.
LEMMA IdleOK ==
    ASSUME GemAssumption, 0 \in Seqnos
    PROVE  RecOK(Idle) /\ ~Holds(Idle) /\ ~Wraps(Idle) /\ ~Dispatches(Idle) /\ ~Allots(Idle)
  BY DEF RecOK, Holds, Wraps, Dispatches, Allots, Idle, ThreadRec, PCs, HoldPCs, Asking, Waiting, NoRing

\* The ioctl returns.
LEMMA ReturnMoves ==
    ASSUME GemAssumption, 0 \in Seqnos, Threading, Budgeting, NEW t \in Threads, Return(t), batches' = batches,
           mutex = t \/ (next' = next /\ olr' = olr)
    PROVE  Threading' /\ Budgeting' /\ Budget \in Nat /\ Budget' \in Nat /\ Budget <= Budget'
  <1>1. th' = [th EXCEPT ![t] = Idle] /\ mutex' = IF mutex = t THEN Nobody ELSE mutex
    BY DEF Return, Goto
  <1>2. mutex \in {t, Nobody} \/ (mutex' = mutex /\ next' = next /\ olr' = olr)
    BY <1>1
  <1> QED BY <1>1, <1>2, IdleOK, ThreadMoves

\* Sleepers are woken, or time out.
LEMMA WokenMoves ==
    ASSUME Threading, Budgeting, NEW R, th' = Woken(R), UNCHANGED <<mutex, next, olr, batches>>
    PROVE  Threading' /\ Budgeting' /\ Budget' = Budget
  <1>1. \A t \in Threads : RecOK(th[t]) /\ th[t] \in ThreadRec
    BY DEF Threading
  <1>2. ASSUME NEW t \in Threads
        PROVE  /\ RecOK(th'[t])
               /\ th'[t].to = th[t].to
               /\ Holds(th'[t]) <=> Holds(th[t])
               /\ Wraps(th'[t]) <=> Wraps(th[t])
               /\ Dispatches(th'[t]) <=> Dispatches(th[t])
               /\ Allots(th'[t]) <=> Allots(th[t])
    <2>1. CASE th'[t] = th[t]
      BY <1>1, <2>1
    <2>2. CASE th[t].pc = "asleep" /\ \E c \in {"woken", "cond"} : th'[t] = [th[t] EXCEPT !.pc = c]
      <3>1. PICK c \in {"woken", "cond"} : th'[t] = [th[t] EXCEPT !.pc = c]
        BY <2>2
      <3> QED BY <1>1, <2>2, <3>1
              DEF RecOK, Holds, Wraps, Dispatches, Allots, ThreadRec, PCs, HoldPCs, Asking, Waiting
    <2>3. th'[t] = IF At(t, "asleep") /\ th[t].on \in R
                   THEN [th[t] EXCEPT !.pc = IF th[t].op \in Bounded THEN "woken" ELSE "cond"]
                   ELSE th[t]
      BY DEF Woken
    <2> QED BY <2>1, <2>2, <2>3 DEF At
  <1>3. th' \in [Threads -> ThreadRec]
    <2>1. \A t \in Threads : th'[t] \in ThreadRec
      BY <1>2 DEF RecOK
    <2> QED BY <2>1 DEF Woken
  <1>4. Threading'
    BY <1>2, <1>3 DEF Threading
  <1>5. Pending' = Pending
    BY <1>2 DEF Pending
  <1> QED BY <1>4, <1>5 DEF Budgeting, Budget

-----------------------------------------------------------------------------
(* Requests are added and retired                                          *)

\* Requests are retired, or nothing happens to the rings.
LEMMA RetireKeeps ==
    ASSUME Sequencing, Budget \in Nat, Budget' \in Nat, Budget <= Budget', UNCHANGED <<next, olr, hw, hws>>,
           NEW R, requests' \in {requests, Remaining(R)}
    PROVE  Sequencing'
  <1>1. requests \in [Rings -> Seq(Reqs)] /\ next \in Seqnos
    BY DEF Sequencing
  <1>2. requests' \in [Rings -> Seq(Reqs)]
    BY <1>1, RemainingType
  <1>3. ASSUME NEW r \in Rings
        PROVE  RingOK(next, Budget', olr[r], requests'[r], hw[r], hws[r])
    <2>1. RingOK(next, Budget, olr[r], requests[r], hw[r], hws[r])
      BY DEF Sequencing
    <2>2. /\ requests'[r] \in Seq(Reqs)
          /\ \A i \in DOMAIN requests'[r] : \E j \in DOMAIN requests[r] : requests'[r][i] = requests[r][j]
      <3>1. CASE requests' = requests
        BY <1>1, <3>1
      <3>2. CASE requests' = Remaining(R)
        BY <1>1, <3>2, RemainingOK
      <3> QED BY <3>1, <3>2
    <2> QED BY <1>1, <2>1, <2>2, RingRetire
  <1> QED BY <1>1, <1>2, <1>3 DEF Sequencing

\* i915_add_request with a lazy request to add
LEMMA AddRequestOK ==
    ASSUME GemAssumption, Lazy, Sequencing, Budget \in Nat, Budget' \in Nat, Budget <= Budget',
           NEW r \in Rings, NEW f \in Threads \cup {Nobody}, olr[r] # 0, AddRequest(r, f),
           UNCHANGED <<next, hws, ring, lastRead, lastWrite>>
    PROVE  Lazy' /\ Sequencing' /\ olr' = [olr EXCEPT ![r] = 0]
  <1>1. /\ requests' = [requests EXCEPT ![r] = Append(@, [s |-> olr[r], file |-> f])]
        /\ hw' = [hw EXCEPT ![r] = Append(@, Breadcrumb(olr[r]))]
        /\ olr' = [olr EXCEPT ![r] = 0] /\ dirty' = [dirty EXCEPT ![r] = FALSE]
    BY DEF AddRequest
  <1>2. 0 \in Seqnos /\ next \in Seqnos
    BY DEF GemAssumption, Seqnos, Sequencing
  <1>3. Lazy'
    BY <1>1, <1>2 DEF Lazy
  <1>4. ASSUME NEW p \in Rings
        PROVE  RingOK(next, Budget', olr'[p], requests'[p], hw'[p], hws[p])
    <2>1. RingOK(next, Budget, olr[p], requests[p], hw[p], hws[p])
      BY DEF Sequencing
    <2>2. RingOK(next, Budget', olr[p], requests[p], hw[p], hws[p])
      BY <1>2, <2>1, RingRetire DEF RingOK
    <2>3. olr \in [Rings -> Seqnos] /\ requests \in [Rings -> Seq(Reqs)] /\ hw \in [Rings -> Seq(Commands)]
      BY DEF Lazy, Sequencing
    <2>4. CASE p # r
      BY <1>1, <2>2, <2>3, <2>4
    <2>5. CASE p = r
      <3>1. RingOK(next, Budget', 0, Append(requests[r], [s |-> olr[r], file |-> f]),
                   Append(hw[r], Breadcrumb(olr[r])), hws[r])
        BY <1>2, <2>2, <2>5, RingAdd
      <3> QED BY <1>1, <2>3, <2>5, <3>1
    <2> QED BY <2>4, <2>5
  <1>5. /\ requests' \in [Rings -> Seq(Reqs)] /\ hw' \in [Rings -> Seq(Commands)]
    <2>1. /\ requests \in [Rings -> Seq(Reqs)] /\ hw \in [Rings -> Seq(Commands)]
      BY DEF Sequencing
    <2>2. requests'[r] \in Seq(Reqs) /\ hw'[r] \in Seq(Commands)
      BY <1>4 DEF RingOK
    <2>3. requests' = [requests EXCEPT ![r] = requests'[r]] /\ hw' = [hw EXCEPT ![r] = hw'[r]]
      BY <1>1, <2>1
    <2> QED BY <2>1, <2>2, <2>3
  <1> QED BY <1>1, <1>3, <1>4, <1>5 DEF Sequencing

\* i915_gem_check_olr for a seqno that is one
LEMMA CheckOlrOK ==
    ASSUME GemAssumption, Lazy, Sequencing, Budget \in Nat, Budget' \in Nat, Budget <= Budget',
           NEW r \in Rings, NEW s, s # 0, CheckOlr(r, s),
           UNCHANGED <<next, hws, ring, lastRead, lastWrite>>
    PROVE  Lazy' /\ Sequencing' /\ (olr[r] # s => olr' = olr)
  <1>1. CASE s = olr[r]
    BY <1>1, AddRequestOK DEF CheckOlr
  <1>2. CASE s # olr[r]
    <2>1. UNCHANGED <<requests, hw, olr, dirty>>
      BY <1>2 DEF CheckOlr
    <2>2. Lazy'
      BY <2>1 DEF Lazy
    <2>3. Sequencing'
      BY <2>1, RetireKeeps
    <2> QED BY <2>1, <2>2, <2>3
  <1> QED BY <1>1, <1>2

-----------------------------------------------------------------------------
(* Waiting                                                                 *)

\* The thread has moved and nothing else happened.
LEMMA Quiet ==
    ASSUME GemInv, Threading', Budgeting', Budget' \in Nat, Budget <= Budget',
           UNCHANGED <<next, olr, dirty, requests, ring, lastRead, lastWrite, hw, hws, wedged, recovered, work>>
    PROVE  GemInv' /\ Budget <= Budget'
  <1>1. Lazy'
    BY DEF GemInv, Lazy
  <1>2. Sequencing'
    <2>1. Budget \in Nat
      BY BudgetType DEF GemInv
    <2> QED BY <2>1, RetireKeeps DEF GemInv
  <1> QED BY <1>1, <1>2 DEF GemInv, WedgeHandled

\* The same when a flush of a ring has succeeded.
LEMMA QuietFlush ==
    ASSUME GemInv, Threading', Budgeting', Budget' \in Nat, Budget <= Budget', NEW p,
           dirty' \in {dirty, [dirty EXCEPT ![p] = FALSE]},
           UNCHANGED <<next, olr, requests, ring, lastRead, lastWrite, hw, hws, wedged, recovered, work>>
    PROVE  GemInv' /\ Budget <= Budget'
  <1>1. Lazy'
    BY DEF GemInv, Lazy
  <1>2. Sequencing'
    <2>1. Budget \in Nat
      BY BudgetType DEF GemInv
    <2> QED BY <2>1, RetireKeeps DEF GemInv
  <1> QED BY <1>1, <1>2 DEF GemInv, WedgeHandled

\* What is known of a thread
LEMMA ThreadFacts ==
    ASSUME GemAssumption, GemInv, NEW t \in Threads
    PROVE  /\ th \in [Threads -> ThreadRec] /\ th[t] \in ThreadRec /\ RecOK(th[t])
           /\ Holds(th[t]) => mutex = t
           /\ Wraps(th[t]) => next = 0
           /\ Dispatches(th[t]) => olr[th[t].to] # 0
           /\ 0 \in Seqnos /\ NoRing = 0 /\ t # Nobody
           /\ batches \in 0 .. MaxBatches
  BY DEF GemInv, Threading, Budgeting, GemAssumption, Seqnos, NoRing

\* A wait ends with an error.
LEMMA WaitFailsStep ==
    ASSUME GemAssumption, GemInv, NEW t \in Threads, th[t].pc \in Asking, WaitFails(t),
           UNCHANGED <<next, olr, dirty, requests, ring, lastRead, lastWrite, hw, hws, errVars, batches>>
    PROVE  GemInv' /\ Budget <= Budget'
  <1>1. Threading /\ Budgeting
    BY DEF GemInv
  <1>2. CASE th[t].then = "relock"
    <2> DEFINE x == [th[t] EXCEPT !.pc = "relock", !.s = 0]
    <2>1. th' = [th EXCEPT ![t] = x] /\ mutex' = mutex
      BY <1>2 DEF WaitFails, Goto
    <2>2. /\ RecOK(x) /\ ~Holds(x) /\ ~Wraps(x) /\ ~Dispatches(x)
          /\ Allots(x) => Allots(th[t])
      <3>1. /\ x \in ThreadRec /\ x.pc = "relock" /\ x.op = th[t].op /\ x.obj = th[t].obj
            /\ x.to = th[t].to /\ x.then = "relock"
        BY <1>2, ThreadFacts, ZenonT(40) DEF ThreadRec, PCs
      <3> HIDE DEF x
      <3> QED BY <1>2, <3>1, ThreadFacts
              DEF RecOK, Holds, Wraps, Dispatches, Allots, HoldPCs, Asking, Waiting
    <2> HIDE DEF x
    <2>3. Threading' /\ Budgeting' /\ Budget' \in Nat /\ Budget <= Budget'
      BY <1>1, <2>1, <2>2, ThreadMoves
    <2> QED BY <2>3, Quiet DEF errVars
  <1>3. CASE th[t].then # "relock"
    <2>1. Threading' /\ Budgeting' /\ Budget' \in Nat /\ Budget <= Budget'
      BY <1>1, <1>3, ThreadFacts, ReturnMoves DEF WaitFails
    <2> QED BY <2>1, Quiet DEF errVars
  <1> QED BY <1>2, <1>3

\* A wait is over.
LEMMA WaitSucceedsStep ==
    ASSUME GemAssumption, GemInv, NEW t \in Threads, th[t].pc \in Asking, WaitSucceeds(t),
           UNCHANGED <<next, olr, dirty, requests, ring, lastRead, lastWrite, hw, hws, errVars, batches>>
    PROVE  GemInv' /\ Budget <= Budget'
  <1>1. Threading /\ Budgeting
    BY DEF GemInv
  <1>2. CASE th[t].then # "idle"
    <2> DEFINE x == [th[t] EXCEPT !.pc = th[t].then]
    <2>1. th' = [th EXCEPT ![t] = x] /\ mutex' = mutex
      BY <1>2, ThreadFacts DEF WaitSucceeds, Go
    <2>2. /\ RecOK(x) /\ (Holds(x) <=> Holds(th[t])) /\ (Wraps(x) <=> Wraps(th[t]))
          /\ Dispatches(x) <=> Dispatches(th[t])
          /\ Allots(x) <=> Allots(th[t])
          /\ x.to = th[t].to
      <3>1. th[t].then \in {"rendered", "relock", "wrapped", "dispatch"}
        BY <1>2, ThreadFacts DEF RecOK
      <3> QED BY <3>1, ThreadFacts
              DEF RecOK, Holds, Wraps, Dispatches, Allots, ThreadRec, PCs, HoldPCs, Asking, Waiting
    <2> HIDE DEF x
    <2>3. Threading' /\ Budgeting' /\ Budget' \in Nat /\ Budget <= Budget'
      BY <1>1, <2>1, <2>2, ThreadFacts, ThreadMoves
    <2> QED BY <2>3, Quiet DEF errVars
  <1>3. CASE th[t].then = "idle"
    <2>1. Threading' /\ Budgeting' /\ Budget' \in Nat /\ Budget <= Budget'
      BY <1>1, <1>3, ThreadFacts, ReturnMoves DEF WaitSucceeds
    <2> QED BY <2>1, Quiet DEF errVars
  <1> QED BY <1>2, <1>3

\* A thread goes on within its wait.
LEMMA WaitGoesStep ==
    ASSUME GemAssumption, GemInv, NEW t \in Threads, th[t].pc \in Asking, NEW pc \in Asking, Go(t, pc),
           UNCHANGED <<mutex, next, olr, dirty, requests, ring, lastRead, lastWrite, hw, hws, errVars, batches>>
    PROVE  GemInv' /\ Budget <= Budget'
  <1>1. Threading /\ Budgeting
    BY DEF GemInv
  <1> DEFINE x == [th[t] EXCEPT !.pc = pc]
  <1>2. th' = [th EXCEPT ![t] = x]
    BY ThreadFacts DEF Go
  <1>3. /\ RecOK(x) /\ (Holds(x) <=> Holds(th[t])) /\ (Wraps(x) <=> Wraps(th[t]))
        /\ Dispatches(x) <=> Dispatches(th[t])
        /\ Allots(x) <=> Allots(th[t])
        /\ x.to = th[t].to
    BY ThreadFacts DEF RecOK, Holds, Wraps, Dispatches, Allots, ThreadRec, PCs, HoldPCs, Asking, Waiting
  <1> HIDE DEF x
  <1>4. Threading' /\ Budgeting' /\ Budget' \in Nat /\ Budget <= Budget'
    BY <1>1, <1>2, <1>3, ThreadFacts, ThreadMoves
  <1> QED BY <1>4, Quiet DEF errVars

\* The steps of __wait_seqno
LEMMA WaitStep ==
    ASSUME GemAssumption, GemInv, NEW t \in Threads,
           \/ WaitCheck(t) \/ WaitCond(t) \/ WaitSleep(t) \/ WaitExpires(t) \/ WaitInterrupted(t)
    PROVE  GemInv' /\ Budget <= Budget'
  <1>1. UNCHANGED <<next, olr, dirty, requests, ring, lastRead, lastWrite, hw, hws, errVars, batches>>
    BY DEF WaitCheck, WaitCond, WaitSleep, WaitExpires, WaitInterrupted, waitFrame, gemVars, seqVars,
           gpuVars, bounds
  <1>2. th[t].pc \in Asking
    BY DEF WaitCheck, WaitCond, WaitSleep, WaitExpires, WaitInterrupted, At, Asking, Waiting
  <1>3. \/ WaitSucceeds(t) \/ WaitFails(t)
        \/ \E pc \in Asking : Go(t, pc) /\ mutex' = mutex
    BY DEF WaitCheck, WaitCond, WaitSleep, WaitExpires, WaitInterrupted, Asking, Waiting
  <1> QED BY <1>1, <1>2, <1>3, WaitSucceedsStep, WaitFailsStep, WaitGoesStep

\* i915_wait_seqno with struct_mutex held
LEMMA WaitSeqnoStep ==
    ASSUME GemAssumption, GemInv, NEW t \in Threads, Holds(th[t]), NEW r \in Rings, NEW s \in Seqnos, s # 0,
           NEW then, WaitSeqno(t, r, s, then),
           \/ then = "rendered" /\ ~Dispatches(th[t])
           \/ then = "wrapped" /\ Wraps(th[t])
           \/ then = "dispatch" /\ Dispatches(th[t]) /\ olr[r] # s,
           UNCHANGED <<next, hws, ring, lastRead, lastWrite, errVars, batches>>
    PROVE  GemInv' /\ Budget <= Budget'
  <1>1. Threading /\ Budgeting /\ Lazy /\ Sequencing
    BY DEF GemInv
  <1>2. mutex = t
    BY ThreadFacts
  <1>3. CASE wedged
    <2>1. Return(t) /\ UNCHANGED <<requests, hw, olr, dirty>>
      BY <1>3 DEF WaitSeqno
    <2>2. Threading' /\ Budgeting' /\ Budget' \in Nat /\ Budget <= Budget'
      BY <1>1, <2>1, ThreadFacts, ReturnMoves
    <2> QED BY <2>1, <2>2, Quiet DEF errVars
  <1>4. CASE ~wedged
    <2> DEFINE x == [th[t] EXCEPT !.pc = "check", !.on = r, !.s = s, !.then = then]
    <2>1. CheckOlr(r, s) /\ th' = [th EXCEPT ![t] = x] /\ mutex' = mutex
      BY <1>4 DEF WaitSeqno, Goto
    <2>2. /\ x \in ThreadRec /\ x.pc = "check" /\ x.op = th[t].op /\ x.obj = th[t].obj
          /\ x.to = th[t].to /\ x.then = then /\ x.on = r
      BY ThreadFacts, ZenonT(40) DEF ThreadRec, PCs
    <2> HIDE DEF x
    <2>3. RecOK(x)
      <3>1. then \in {"rendered", "wrapped", "dispatch"} /\ x.op \notin {"none", "throttle"} /\ x.obj \in Objects
        BY <2>2, ThreadFacts DEF RecOK
      <3>2. then \in {"wrapped", "dispatch"} => x.op = "exec"
        BY <2>2, ThreadFacts DEF RecOK
      <3> QED BY <2>2, <3>1, <3>2, ThreadFacts DEF RecOK, Holds, Wraps, Dispatches, HoldPCs, Asking, Waiting
    <2>4. /\ Wraps(x) => then = "wrapped"
          /\ Dispatches(x) <=> then = "dispatch"
      BY <2>2 DEF Wraps, Dispatches, Asking
    <2>5. Dispatches(x) => olr'[x.to] # 0
      <3>1. olr[r] # s => olr' = olr
        BY <2>1 DEF CheckOlr
      <3> QED BY <2>2, <2>4, <3>1, ThreadFacts
    <2>6. Allots(x) => Allots(th[t])
      <3>1. Wraps(th[t]) => ~Dispatches(th[t])
        BY DEF Wraps, Dispatches, Asking, Waiting
      <3> QED BY <2>2, <2>4, <3>1 DEF Allots
    <2>7. Threading' /\ Budgeting' /\ Budget \in Nat /\ Budget' \in Nat /\ Budget <= Budget'
      BY <1>1, <1>2, <2>1, <2>3, <2>4, <2>5, <2>6, ThreadFacts, ThreadMoves
    <2>8. Lazy' /\ Sequencing'
      BY <1>1, <2>1, <2>7, CheckOlrOK
    <2> QED BY <2>7, <2>8 DEF GemInv, WedgeHandled, errVars
  <1> QED BY <1>3, <1>4

-----------------------------------------------------------------------------
(* The ioctls                                                              *)

\* An ioctl starts.
LEMMA StartStep == ASSUME GemAssumption, FewBatches, GemInv, NEW t \in Threads, Start(t) PROVE GemInv' /\ Budget <= Budget'
  <1>1. PICK op \in Ops \ {"throttle"}, o \in Objects :
         \E r \in IF op = "exec" THEN Rings ELSE {NoRing},
            w \in IF op = "exec" THEN BOOLEAN ELSE {FALSE} :
           /\ op = "exec" => batches < MaxBatches
           /\ batches' = IF op = "exec" THEN batches + 1 ELSE batches
           /\ Goto(t, [Idle EXCEPT !.pc = "lock", !.op = op, !.obj = o, !.to = r, !.write = w])
    BY DEF Start
  <1>2. PICK r \in IF op = "exec" THEN Rings ELSE {NoRing},
             w \in IF op = "exec" THEN BOOLEAN ELSE {FALSE} :
           /\ op = "exec" => batches < MaxBatches
           /\ batches' = IF op = "exec" THEN batches + 1 ELSE batches
           /\ Goto(t, [Idle EXCEPT !.pc = "lock", !.op = op, !.obj = o, !.to = r, !.write = w])
    BY <1>1
  <1>3. UNCHANGED <<mutex, next, olr, dirty, requests, ring, lastRead, lastWrite, hw, hws,
                    wedged, recovered, work>>
    BY DEF Start, gemVars, seqVars, gpuVars, errVars
  <1> DEFINE x == [Idle EXCEPT !.pc = "lock", !.op = op, !.obj = o, !.to = r, !.write = w]
  <1>4. /\ x \in ThreadRec /\ x.pc = "lock" /\ x.op = op /\ x.obj = o /\ x.to = r /\ x.then = "idle"
    BY ThreadFacts, IdleOK DEF Idle, ThreadRec, PCs, GemAssumption
  <1>5. th' = [th EXCEPT ![t] = x]
    BY <1>2 DEF Goto
  <1> HIDE DEF x
  <1>6. op \notin {"none", "throttle"}
    BY DEF OpNames, GemAssumption
  <1>7. /\ RecOK(x) /\ ~Holds(x) /\ ~Wraps(x) /\ ~Dispatches(x)
        /\ Allots(x) => op = "exec"
    BY <1>4, <1>6 DEF RecOK, Holds, Wraps, Dispatches, Allots, HoldPCs, Asking, Waiting
  <1>8. Threading /\ Budgeting
    BY DEF GemInv
  <1>9. CASE op # "exec"
    <2>1. Threading' /\ Budgeting' /\ Budget' \in Nat /\ Budget <= Budget'
      BY <1>2, <1>3, <1>5, <1>7, <1>8, <1>9, ThreadMoves
    <2> QED BY <1>3, <2>1, Quiet
  <1>10. CASE op = "exec"
    <2>1. Threading' /\ th'[t] = x /\ \A u \in Threads \ {t} : th'[u] = th[u]
      BY <1>3, <1>5, <1>7, <1>8, ThreadGoes
    <2>2. Allots(x)
      BY <1>4, <1>7, <1>10 DEF Allots
    <2>3. Pending' = Pending \cup {t}
      BY <2>1, <2>2 DEF Pending
    <2>4. /\ IsFiniteSet(Pending')
          /\ Cardinality(Pending') = IF t \in Pending THEN Cardinality(Pending) ELSE Cardinality(Pending) + 1
      BY <1>8, <2>3, FS_AddElement DEF Budgeting
    <2>5. Cardinality(Pending) \in Nat /\ Cardinality(Pending) <= batches /\ batches \in 0 .. MaxBatches /\ MaxBatches \in Nat
      BY <1>8, BudgetType DEF Budgeting, GemAssumption
    <2>6. batches' = batches + 1 /\ batches < MaxBatches
      BY <1>2, <1>10
    <2>7. Budgeting' /\ Budget' \in Nat /\ Budget <= Budget'
      BY <2>4, <2>5, <2>6 DEF Budgeting, Budget
    <2> QED BY <1>3, <2>1, <2>7, Quiet
  <1> QED BY <1>9, <1>10

\* An ioctl gets struct_mutex.
LEMMA LockStep == ASSUME GemAssumption, FewBatches, GemInv, NEW t \in Threads, LockMutex(t) PROVE GemInv' /\ Budget <= Budget'
  <1>1. /\ th[t].pc = "lock" /\ mutex = Nobody /\ mutex' = t
        /\ th' = [th EXCEPT ![t].pc = FirstStep(th[t].op)]
        /\ UNCHANGED <<next, olr, dirty, requests, ring, lastRead, lastWrite, hw, hws,
                       wedged, recovered, work, batches>>
    BY DEF LockMutex, At, Go, gemVars, seqVars, gpuVars, errVars, bounds
  <1> DEFINE p == FirstStep(th[t].op)
             x == [th[t] EXCEPT !.pc = p]
  <1>2. th[t].op \in OpNames \ {"throttle"} /\ th[t].then = "idle"
    BY <1>1, ThreadFacts DEF RecOK, ThreadRec
  <1>3. p \in {"sync", "render", "nonblock", "flush"} /\ (p = "sync" <=> th[t].op = "exec")
    BY <1>2 DEF FirstStep, OpNames
  <1> HIDE DEF p
  <1>4. /\ x \in ThreadRec /\ x.pc = p /\ x.op = th[t].op /\ x.obj = th[t].obj
        /\ x.to = th[t].to /\ x.then = "idle" /\ th' = [th EXCEPT ![t] = x]
    BY <1>1, <1>2, <1>3, ThreadFacts DEF ThreadRec, PCs, p
  <1> HIDE DEF x
  <1>5. RecOK(x) /\ ~Wraps(x) /\ ~Dispatches(x) /\ ~Dispatches(th[t])
    BY <1>1, <1>2, <1>3, <1>4, ThreadFacts DEF RecOK, Holds, Wraps, Dispatches, HoldPCs, Asking, Waiting
  <1>6. Allots(x) => Allots(th[t])
    BY <1>4, <1>5 DEF Allots
  <1>7. Threading' /\ Budgeting' /\ Budget' \in Nat /\ Budget <= Budget'
    BY <1>1, <1>4, <1>5, <1>6, ThreadMoves DEF GemInv
  <1> QED BY <1>1, <1>7, Quiet

\* i915_gem_ring_throttle
LEMMA ThrottleStep == ASSUME GemAssumption, FewBatches, GemInv, NEW t \in Threads, Throttle(t) PROVE GemInv' /\ Budget <= Budget'
  <1>1. UNCHANGED <<mutex, next, olr, dirty, requests, ring, lastRead, lastWrite, hw, hws,
                    wedged, recovered, work, batches>>
    BY DEF Throttle, gemVars, seqVars, gpuVars, errVars, bounds
  <1>2. PICK r \in Rings : \E q \in Elements(requests[r]) :
           Goto(t, [Idle EXCEPT !.pc = "check", !.op = "throttle", !.on = r, !.s = q.s])
    BY DEF Throttle
  <1> PICK q \in Elements(requests[r]) :
           Goto(t, [Idle EXCEPT !.pc = "check", !.op = "throttle", !.on = r, !.s = q.s])
    BY <1>2
  <1>3. q.s \in Seqnos
    <2>1. requests[r] \in Seq(Reqs)
      BY DEF GemInv, Sequencing
    <2>2. q \in Reqs
      BY <2>1 DEF Elements
    <2> QED BY <2>2 DEF Reqs
  <1> DEFINE x == [Idle EXCEPT !.pc = "check", !.op = "throttle", !.on = r, !.s = q.s]
  <1>4. /\ x \in ThreadRec /\ x.pc = "check" /\ x.op = "throttle" /\ x.then = "idle"
    BY <1>3, ThreadFacts, IdleOK DEF Idle, ThreadRec, PCs, OpNames
  <1>5. th' = [th EXCEPT ![t] = x]
    BY DEF Goto
  <1> HIDE DEF x
  <1>6. RecOK(x) /\ ~Holds(x) /\ ~Wraps(x) /\ ~Dispatches(x) /\ ~Allots(x)
    BY <1>4 DEF RecOK, Holds, Wraps, Dispatches, Allots, HoldPCs, Asking, Waiting
  <1>7. Threading' /\ Budgeting' /\ Budget' \in Nat /\ Budget <= Budget'
    BY <1>1, <1>5, <1>6, ThreadMoves DEF GemInv
  <1> QED BY <1>1, <1>7, Quiet

\* Requests and objects retire.
LEMMA RetireStep ==
    ASSUME GemAssumption, GemInv, Threading', Budgeting', Budget' \in Nat, Budget <= Budget',
           NEW R, NEW W, Retire(R, W),
           UNCHANGED <<next, olr, dirty, hw, hws, wedged, recovered, work>>
    PROVE  GemInv' /\ Budget <= Budget'
  <1>1. Lazy'
    BY MoveToInactiveOK DEF GemInv, Retire, RetireObjects
  <1>2. Sequencing'
    <2>1. Budget \in Nat
      BY BudgetType DEF GemInv
    <2> QED BY <2>1, RetireKeeps DEF GemInv, Retire
  <1> QED BY <1>1, <1>2 DEF GemInv, WedgeHandled

\* A thread with the mutex goes on to another place where it has it.
LEMMA HolderGoes ==
    ASSUME GemAssumption, GemInv, NEW t \in Threads, Holds(th[t]), NEW x \in ThreadRec,
           x.pc \in HoldPCs, x.op = th[t].op, x.obj = th[t].obj, x.to = th[t].to,
           x.then \in {"idle", "rendered", "relock", "wrapped", "dispatch"},
           th' = [th EXCEPT ![t] = x], mutex' = mutex, batches' = batches,
           x.pc \in {"sync", "begin", "wrap", "wrapped", "dispatch", "request"} => th[t].op = "exec",
           x.pc \in {"wrap", "wrapped"} => x.on \in Rings /\ next' = 0,
           x.pc \in {"flush", "flushed"} => x.then = "idle",
           x.pc \in {"dispatch", "request"} => olr'[x.to] # 0,
           Dispatches(th[t]) => x.pc \in {"dispatch", "request"}
    PROVE  /\ Threading' /\ Budgeting' /\ Budget \in Nat /\ Budget' \in Nat /\ Budget <= Budget'
           /\ Allots(th[t]) /\ ~Allots(x) => Budget' = Budget + 1
  <1>1. /\ Wraps(x) <=> x.pc \in {"wrap", "wrapped"}
        /\ Dispatches(x) <=> x.pc \in {"dispatch", "request"}
        /\ Holds(x)
    BY DEF Wraps, Dispatches, Holds, HoldPCs, Asking, Waiting
  <1>2. x.op \notin {"none", "throttle"} /\ x.obj \in Objects /\ (x.op = "exec" => x.to \in Rings)
    BY ThreadFacts DEF RecOK
  <1>3. RecOK(x)
    BY <1>1, <1>2 DEF RecOK, HoldPCs
  <1>4. Allots(x) => Allots(th[t])
    BY <1>1 DEF Allots
  <1>5. Threading /\ Budgeting /\ mutex = t
    BY ThreadFacts DEF GemInv
  <1> QED BY <1>1, <1>3, <1>4, <1>5, ThreadMoves

\* i915_gem_object_wait_rendering
LEMMA WaitRenderingStep == ASSUME GemAssumption, GemInv, NEW t \in Threads, WaitRendering(t) PROVE GemInv' /\ Budget <= Budget'
  <1>1. /\ th[t].pc = "render"
        /\ UNCHANGED <<next, hws, ring, lastRead, lastWrite, errVars, batches>>
    BY DEF WaitRendering, At, bounds
  <1>2. Holds(th[t]) /\ ~Dispatches(th[t]) /\ th[t].obj \in Objects
    BY <1>1, ThreadFacts DEF RecOK, Holds, Dispatches, HoldPCs, Asking, Waiting
  <1>3. CASE RenderSeqno(t) = 0
    <2> DEFINE x == [th[t] EXCEPT !.pc = AfterRender(t)]
    <2>1. th' = [th EXCEPT ![t] = x] /\ UNCHANGED <<mutex, requests, hw, olr, dirty>>
      BY <1>3, ThreadFacts DEF WaitRendering, Go
    <2>2. /\ x \in ThreadRec /\ x.pc = AfterRender(t) /\ x.op = th[t].op /\ x.obj = th[t].obj
          /\ x.to = th[t].to /\ x.then = th[t].then
      BY ThreadFacts DEF ThreadRec, PCs, AfterRender
    <2> HIDE DEF x
    <2>3. Threading' /\ Budgeting' /\ Budget' \in Nat /\ Budget <= Budget'
      BY <1>1, <1>2, <2>1, <2>2, ThreadFacts, HolderGoes DEF RecOK, AfterRender, HoldPCs
    <2> QED BY <1>1, <2>1, <2>3, Quiet DEF errVars
  <1>4. CASE RenderSeqno(t) # 0
    <2>1. WaitSeqno(t, ring[th[t].obj], RenderSeqno(t), "rendered")
      BY <1>4 DEF WaitRendering
    <2>2. ring[th[t].obj] \in Rings /\ RenderSeqno(t) \in Seqnos
      BY <1>2, <1>4 DEF GemInv, Lazy, RenderSeqno
    <2> QED BY <1>1, <1>2, <1>4, <2>1, <2>2, WaitSeqnoStep
  <1> QED BY <1>3, <1>4

\* After the wait for rendering
LEMMA RenderedStep == ASSUME GemAssumption, GemInv, NEW t \in Threads, Rendered(t) PROVE GemInv' /\ Budget <= Budget'
  <1>1. /\ th[t].pc = "rendered" /\ FinishRendering(t)
        /\ UNCHANGED <<mutex, next, olr, dirty, hw, hws, wedged, recovered, work, batches>>
    BY DEF Rendered, At, seqVars, gpuVars, errVars, bounds
  <1> DEFINE x == [th[t] EXCEPT !.pc = AfterRender(t), !.on = NoRing, !.s = 0, !.then = "idle"]
  <1>2. th' = [th EXCEPT ![t] = x]
    BY DEF Rendered, Goto
  <1>3. Holds(th[t]) /\ ~Dispatches(th[t])
    BY <1>1 DEF Holds, Dispatches, HoldPCs, Asking, Waiting
  <1>4. /\ x \in ThreadRec /\ x.pc = AfterRender(t) /\ x.op = th[t].op /\ x.obj = th[t].obj
        /\ x.to = th[t].to /\ x.then = "idle"
    <2>1. AfterRender(t) \in PCs
      BY DEF AfterRender, PCs
    <2> QED BY <2>1, ThreadFacts, ZenonT(40) DEF ThreadRec, PCs
  <1> HIDE DEF x
  <1>5. Threading' /\ Budgeting' /\ Budget' \in Nat /\ Budget <= Budget'
    BY <1>1, <1>2, <1>3, <1>4, HolderGoes DEF AfterRender, HoldPCs
  <1> QED BY <1>1, <1>5, RetireStep DEF FinishRendering

\* i915_gem_object_wait_rendering__nonblocking
LEMMA NonblockingStep == ASSUME GemAssumption, GemInv, NEW t \in Threads, Nonblocking(t) PROVE GemInv' /\ Budget <= Budget'
  <1>1. /\ th[t].pc = "nonblock"
        /\ UNCHANGED <<next, hws, ring, lastRead, lastWrite, errVars, batches>>
    BY DEF Nonblocking, At, bounds
  <1>2. Holds(th[t]) /\ ~Dispatches(th[t]) /\ th[t].obj \in Objects /\ mutex = t
    BY <1>1, ThreadFacts DEF RecOK, Holds, Dispatches, HoldPCs, Asking, Waiting
  <1>3. Threading /\ Budgeting /\ Lazy /\ Sequencing
    BY DEF GemInv
  <1>4. CASE RenderSeqno(t) = 0
    <2> DEFINE x == [th[t] EXCEPT !.pc = "render"]
    <2>1. th' = [th EXCEPT ![t] = x] /\ UNCHANGED <<mutex, requests, hw, olr, dirty>>
      BY <1>4, ThreadFacts DEF Nonblocking, Go
    <2>2. /\ x \in ThreadRec /\ x.pc = "render" /\ x.op = th[t].op /\ x.obj = th[t].obj
          /\ x.to = th[t].to /\ x.then = th[t].then
      BY ThreadFacts DEF ThreadRec, PCs
    <2> HIDE DEF x
    <2>3. Threading' /\ Budgeting' /\ Budget' \in Nat /\ Budget <= Budget'
      BY <1>1, <1>2, <2>1, <2>2, ThreadFacts, HolderGoes DEF RecOK, HoldPCs
    <2> QED BY <1>1, <2>1, <2>3, Quiet DEF errVars
  <1>5. CASE RenderSeqno(t) # 0 /\ wedged
    <2>1. Return(t) /\ UNCHANGED <<requests, hw, olr, dirty>>
      BY <1>5 DEF Nonblocking
    <2>2. Threading' /\ Budgeting' /\ Budget' \in Nat /\ Budget <= Budget'
      BY <1>1, <1>2, <1>3, <2>1, ThreadFacts, ReturnMoves
    <2> QED BY <1>1, <2>1, <2>2, Quiet DEF errVars
  <1>6. CASE RenderSeqno(t) # 0 /\ ~wedged
    <2> DEFINE x == [th[t] EXCEPT !.pc = "check", !.on = ring[th[t].obj], !.s = RenderSeqno(t), !.then = "relock"]
    <2>1. CheckOlr(ring[th[t].obj], RenderSeqno(t)) /\ mutex' = Nobody /\ th' = [th EXCEPT ![t] = x]
      BY <1>6 DEF Nonblocking, Goto
    <2>2. ring[th[t].obj] \in Rings /\ RenderSeqno(t) \in Seqnos
      BY <1>2, <1>3, <1>6 DEF Lazy, RenderSeqno
    <2>3. /\ x \in ThreadRec /\ x.pc = "check" /\ x.op = th[t].op /\ x.obj = th[t].obj
          /\ x.to = th[t].to /\ x.then = "relock"
      BY <2>2, ThreadFacts, ZenonT(40) DEF ThreadRec, PCs
    <2> HIDE DEF x
    <2>4. RecOK(x) /\ ~Holds(x) /\ ~Wraps(x) /\ ~Dispatches(x) /\ (Allots(x) => Allots(th[t]))
      BY <1>2, <2>3, ThreadFacts DEF RecOK, Holds, Wraps, Dispatches, Allots, HoldPCs, Asking, Waiting
    <2>5. Threading' /\ Budgeting' /\ Budget \in Nat /\ Budget' \in Nat /\ Budget <= Budget'
      BY <1>1, <1>2, <1>3, <2>1, <2>4, ThreadMoves
    <2>6. Lazy' /\ Sequencing'
      BY <1>1, <1>3, <1>6, <2>1, <2>2, <2>5, CheckOlrOK
    <2> QED BY <1>1, <2>5, <2>6 DEF GemInv, WedgeHandled, errVars
  <1> QED BY <1>4, <1>5, <1>6

\* The nonblocking wait takes the mutex back.
LEMMA RelockStep == ASSUME GemAssumption, GemInv, NEW t \in Threads, Relock(t) PROVE GemInv' /\ Budget <= Budget'
  <1>1. /\ th[t].pc = "relock" /\ mutex = Nobody /\ FinishRendering(t)
        /\ UNCHANGED <<next, olr, dirty, hw, hws, wedged, recovered, work, batches>>
    BY DEF Relock, At, seqVars, gpuVars, errVars, bounds
  <1>2. Threading /\ Budgeting
    BY DEF GemInv
  <1>3. CASE th[t].s = 0
    <2>1. Threading' /\ Budgeting' /\ Budget' \in Nat /\ Budget <= Budget'
      BY <1>1, <1>2, <1>3, ThreadFacts, ReturnMoves DEF Relock
    <2> QED BY <1>1, <2>1, RetireStep DEF FinishRendering
  <1>4. CASE th[t].s # 0
    <2> DEFINE x == [th[t] EXCEPT !.pc = "render", !.on = NoRing, !.s = 0, !.then = "idle"]
    <2>1. th' = [th EXCEPT ![t] = x] /\ mutex' = t
      BY <1>4 DEF Relock, Goto
    <2>2. /\ x \in ThreadRec /\ x.pc = "render" /\ x.op = th[t].op /\ x.obj = th[t].obj
          /\ x.to = th[t].to /\ x.then = "idle"
      BY ThreadFacts, ZenonT(40) DEF ThreadRec, PCs
    <2> HIDE DEF x
    <2>3. RecOK(x) /\ ~Wraps(x) /\ ~Dispatches(x) /\ (Allots(x) => Allots(th[t]))
      BY <1>1, <2>2, ThreadFacts DEF RecOK, Holds, Wraps, Dispatches, Allots, HoldPCs, Asking, Waiting
    <2>4. Threading' /\ Budgeting' /\ Budget' \in Nat /\ Budget <= Budget'
      BY <1>1, <1>2, <2>1, <2>3, ThreadMoves
    <2> QED BY <1>1, <2>4, RetireStep DEF FinishRendering
  <1> QED BY <1>3, <1>4

\* The object is accessed.
LEMMA AccessStep == ASSUME GemAssumption, GemInv, NEW t \in Threads, Access(t) PROVE GemInv' /\ Budget <= Budget'
  <1>1. /\ Return(t)
        /\ UNCHANGED <<next, olr, dirty, requests, ring, lastRead, lastWrite, hw, hws,
                       wedged, recovered, work, batches>>
    BY DEF Access, gemVars, seqVars, gpuVars, errVars, bounds
  <1>2. Threading' /\ Budgeting' /\ Budget' \in Nat /\ Budget <= Budget'
    BY <1>1, ThreadFacts, ReturnMoves DEF GemInv
  <1> QED BY <1>1, <1>2, Quiet

\* i915_gem_wait_ioctl flushes the lazy request.
LEMMA FlushOlrStep == ASSUME GemAssumption, GemInv, NEW t \in Threads, FlushOlr(t) PROVE GemInv' /\ Budget <= Budget'
  <1> DEFINE o == th[t].obj
  <1>1. /\ th[t].pc = "flush"
        /\ UNCHANGED <<next, hws, ring, lastRead, lastWrite, errVars, batches>>
    BY DEF FlushOlr, At, bounds
  <1>2. Holds(th[t]) /\ ~Dispatches(th[t]) /\ o \in Objects /\ mutex = t
    BY <1>1, ThreadFacts DEF RecOK, Holds, Dispatches, HoldPCs, Asking, Waiting
  <1>3. Threading /\ Budgeting /\ Lazy /\ Sequencing
    BY DEF GemInv
  <1>4. CASE Return(t) /\ UNCHANGED <<requests, hw, olr, dirty>>
    <2>1. Threading' /\ Budgeting' /\ Budget' \in Nat /\ Budget <= Budget'
      BY <1>1, <1>2, <1>3, <1>4, ThreadFacts, ReturnMoves
    <2> QED BY <1>1, <1>4, <2>1, Quiet DEF errVars
  <1>5. CASE ring[o] # NoRing /\ CheckOlr(ring[o], lastRead[o]) /\ Go(t, "flushed") /\ mutex' = mutex
    <2> DEFINE x == [th[t] EXCEPT !.pc = "flushed"]
    <2>1. th' = [th EXCEPT ![t] = x]
      BY <1>5, ThreadFacts DEF Go
    <2>2. ring[o] \in Rings /\ lastRead[o] # 0
      BY <1>2, <1>3, <1>5 DEF Lazy
    <2>3. /\ x \in ThreadRec /\ x.pc = "flushed" /\ x.op = th[t].op /\ x.obj = th[t].obj
          /\ x.to = th[t].to /\ x.then = "idle"
      BY <1>1, ThreadFacts DEF ThreadRec, PCs, RecOK
    <2> HIDE DEF x
    <2>4. Threading' /\ Budgeting' /\ Budget \in Nat /\ Budget' \in Nat /\ Budget <= Budget'
      BY <1>1, <1>2, <1>5, <2>1, <2>3, HolderGoes DEF HoldPCs
    <2>5. Lazy' /\ Sequencing'
      BY <1>1, <1>3, <1>5, <2>2, <2>4, CheckOlrOK
    <2> QED BY <1>1, <2>4, <2>5 DEF GemInv, WedgeHandled, errVars
  <1>6. \/ Return(t) /\ UNCHANGED <<requests, hw, olr, dirty>>
        \/ ring[o] # NoRing /\ CheckOlr(ring[o], lastRead[o]) /\ Go(t, "flushed") /\ mutex' = mutex
    BY DEF FlushOlr
  <1> QED BY <1>4, <1>5, <1>6

\* It retires what is done and unlocks.
LEMMA FlushRetireStep == ASSUME GemAssumption, GemInv, NEW t \in Threads, FlushRetire(t) PROVE GemInv' /\ Budget <= Budget'
  <1> DEFINE o == th[t].obj
  <1>1. /\ th[t].pc = "flushed" /\ Retire({ring[o]}, {}) /\ mutex' = Nobody
        /\ UNCHANGED <<next, olr, dirty, hw, hws, wedged, recovered, work, batches>>
    BY DEF FlushRetire, At, seqVars, gpuVars, errVars, bounds
  <1>2. Holds(th[t]) /\ ~Dispatches(th[t]) /\ o \in Objects /\ mutex = t /\ th[t].then = "idle"
    BY <1>1, ThreadFacts DEF RecOK, Holds, Dispatches, HoldPCs, Asking, Waiting
  <1>3. Threading /\ Budgeting /\ Lazy /\ Sequencing
    BY DEF GemInv
  <1>4. CASE th' = [th EXCEPT ![t] = Idle]
    <2>1. Threading' /\ Budgeting' /\ Budget' \in Nat /\ Budget <= Budget'
      BY <1>1, <1>2, <1>3, <1>4, ThreadFacts, IdleOK, ThreadMoves
    <2> QED BY <1>1, <2>1, RetireStep
  <1>5. CASE th' = [th EXCEPT ![t] = [th[t] EXCEPT !.pc = "check", !.on = ring[o], !.s = lastRead[o]]]
    <2> DEFINE x == [th[t] EXCEPT !.pc = "check", !.on = ring[o], !.s = lastRead[o]]
    <2>1. ring[o] \in Rings \cup {NoRing} /\ lastRead[o] \in Seqnos
      BY <1>2, <1>3 DEF Lazy
    <2>2. /\ x \in ThreadRec /\ x.pc = "check" /\ x.op = th[t].op /\ x.obj = th[t].obj
          /\ x.to = th[t].to /\ x.then = "idle" /\ th' = [th EXCEPT ![t] = x]
      BY <1>2, <1>5, <2>1, ThreadFacts, ZenonT(40) DEF ThreadRec, PCs
    <2> HIDE DEF x
    <2>3. RecOK(x) /\ ~Holds(x) /\ ~Wraps(x) /\ ~Dispatches(x) /\ (Allots(x) => Allots(th[t]))
      BY <1>2, <2>2, ThreadFacts DEF RecOK, Holds, Wraps, Dispatches, Allots, HoldPCs, Asking, Waiting
    <2>4. Threading' /\ Budgeting' /\ Budget' \in Nat /\ Budget <= Budget'
      BY <1>1, <1>2, <1>3, <2>2, <2>3, ThreadMoves
    <2> QED BY <1>1, <2>4, RetireStep
  <1> QED BY <1>4, <1>5 DEF FlushRetire, Goto

\* i915_gem_object_sync
LEMMA ObjectSyncStep == ASSUME GemAssumption, GemInv, NEW t \in Threads, ObjectSync(t) PROVE GemInv' /\ Budget <= Budget'
  <1> DEFINE o == th[t].obj
             from == ring[o]
             idle == UNCHANGED <<requests, hw, olr, dirty>>
  <1>1. /\ th[t].pc = "sync"
        /\ UNCHANGED <<next, hws, ring, lastRead, lastWrite, errVars, batches>>
    BY DEF ObjectSync, At, bounds
  <1>2. /\ Holds(th[t]) /\ ~Dispatches(th[t]) /\ o \in Objects /\ mutex = t /\ th[t].op = "exec"
    BY <1>1, ThreadFacts DEF RecOK, Holds, Dispatches, HoldPCs, Asking, Waiting
  <1>3. Threading /\ Budgeting /\ Lazy /\ Sequencing
    BY DEF GemInv
  <1>4. ASSUME NEW pc \in {"begin", "render"}, Go(t, pc), idle, mutex' = mutex PROVE GemInv' /\ Budget <= Budget'
    <2> DEFINE x == [th[t] EXCEPT !.pc = pc]
    <2>1. th' = [th EXCEPT ![t] = x]
      BY <1>4, ThreadFacts DEF Go
    <2>2. /\ x \in ThreadRec /\ x.pc = pc /\ x.op = th[t].op /\ x.obj = th[t].obj
          /\ x.to = th[t].to /\ x.then = th[t].then
      BY ThreadFacts DEF ThreadRec, PCs
    <2> HIDE DEF x
    <2>3. Threading' /\ Budgeting' /\ Budget' \in Nat /\ Budget <= Budget'
      BY <1>1, <1>2, <1>4, <2>1, <2>2, ThreadFacts, HolderGoes DEF RecOK, HoldPCs
    <2> QED BY <1>1, <1>4, <2>3, Quiet DEF errVars
  <1>5. ASSUME Return(t), idle PROVE GemInv' /\ Budget <= Budget'
    <2>1. Threading' /\ Budgeting' /\ Budget' \in Nat /\ Budget <= Budget'
      BY <1>1, <1>2, <1>3, <1>5, ThreadFacts, ReturnMoves
    <2> QED BY <1>1, <1>5, <2>1, Quiet DEF errVars
  <1>6. ASSUME from \in Rings, CheckOlr(from, lastRead[o]), mutex' = mutex,
               Goto(t, [th[t] EXCEPT !.pc = "begin", !.from = from, !.sem = lastRead[o]])
        PROVE  GemInv' /\ Budget <= Budget'
    <2> DEFINE x == [th[t] EXCEPT !.pc = "begin", !.from = from, !.sem = lastRead[o]]
    <2>1. th' = [th EXCEPT ![t] = x]
      BY <1>6 DEF Goto
    <2>2. lastRead[o] \in Seqnos /\ lastRead[o] # 0
      <3>1. from # NoRing
        BY <1>6, ThreadFacts DEF Rings
      <3> QED BY <1>2, <1>3, <3>1 DEF Lazy
    <2>3. /\ x \in ThreadRec /\ x.pc = "begin" /\ x.op = th[t].op /\ x.obj = th[t].obj
          /\ x.to = th[t].to /\ x.then = th[t].then
      BY <1>6, <2>2, ThreadFacts, ZenonT(40) DEF ThreadRec, PCs
    <2> HIDE DEF x
    <2>4. Threading' /\ Budgeting' /\ Budget \in Nat /\ Budget' \in Nat /\ Budget <= Budget'
      BY <1>1, <1>2, <1>6, <2>1, <2>3, ThreadFacts, HolderGoes DEF RecOK, HoldPCs
    <2>5. Lazy' /\ Sequencing'
      BY <1>1, <1>3, <1>6, <2>2, <2>4, CheckOlrOK
    <2> QED BY <1>1, <2>4, <2>5 DEF GemInv, WedgeHandled, errVars
  <1>7. \/ \E pc \in {"begin", "render"} : Go(t, pc) /\ idle /\ mutex' = mutex
        \/ Return(t) /\ idle
        \/ /\ from \notin {NoRing, th[t].to} /\ CheckOlr(from, lastRead[o]) /\ mutex' = mutex
           /\ Goto(t, [th[t] EXCEPT !.pc = "begin", !.from = from, !.sem = lastRead[o]])
    BY DEF ObjectSync
  <1>8. from \in Rings \cup {NoRing}
    BY <1>2, <1>3 DEF Lazy
  <1> QED BY <1>4, <1>5, <1>6, <1>7, <1>8

-----------------------------------------------------------------------------
(* Execbuffer                                                              *)

\* The budget leaves room for one more seqno.
LEMMA BudgetRoom ==
    ASSUME GemAssumption, FewBatches, Budgeting
    PROVE  Budget \in Nat /\ Budget + 1 < Mod - 1 /\ Budget + 2 < Mod \div 2
  <1>1. Budget \in Nat /\ Budget <= batches /\ batches \in 0 .. MaxBatches
    BY BudgetType DEF Budgeting
  <1>2. MaxBatches \in Nat /\ Mod \in Nat /\ 2 * MaxBatches + 6 <= Mod /\ Mod \div 2 \in Nat /\ MaxBatches + 3 <= Mod \div 2
    BY Room
  <1>3. Budget + 1 < Mod - 1
    BY <1>1, <1>2
  <1> DEFINE H == Mod \div 2
  <1>4. H \in Nat /\ MaxBatches + 3 <= H
    BY <1>2
  <1>5. Budget + 2 < H
    <2> HIDE DEF H
    <2> QED BY <1>1, <1>2, <1>4
  <1> QED BY <1>1, <1>3, <1>5

\* A ring without a lazy request takes the next seqno.
LEMMA TakeOK ==
    ASSUME GemAssumption, FewBatches, Budgeting, Lazy, Sequencing,
           NEW r \in Rings, olr[r] = 0, olr' = [olr EXCEPT ![r] = Taken(next)],
           next' = (Taken(next) + 1) % Mod, Budget' = Budget + 1,
           dirty' \in {dirty, [dirty EXCEPT ![r] = FALSE]},
           UNCHANGED <<requests, ring, lastRead, lastWrite, hw, hws>>
    PROVE  Lazy' /\ Sequencing'
  <1>1. Mod >= 6 /\ next \in Seqnos /\ Budget \in Nat /\ Budget + 1 < Mod - 1
    BY Room, BudgetRoom DEF Sequencing
  <1>2. Taken(next) \in Seqnos \ {0} /\ next' \in Seqnos
    BY <1>1, AgeTake
  <1>3. Lazy'
    BY <1>2 DEF Lazy
  <1>4. ASSUME NEW p \in Rings
        PROVE  RingOK(next', Budget', olr'[p], requests[p], hw[p], hws[p])
    <2>1. RingOK(next, Budget, olr[p], requests[p], hw[p], hws[p]) /\ olr \in [Rings -> Seqnos]
      BY DEF Sequencing, Lazy
    <2>2. CASE p = r
      <3>1. RingOK(next', Budget + 1, Taken(next), requests[p], hw[p], hws[p])
        BY <1>1, <2>1, <2>2, RingTakes
      <3> QED BY <2>1, <2>2, <3>1
    <2>3. CASE p # r
      <3>1. RingOK(next', Budget + 1, olr[p], requests[p], hw[p], hws[p])
        BY <1>1, <2>1, <2>3, RingAges
      <3> QED BY <2>1, <2>3, <3>1
    <2> QED BY <2>2, <2>3
  <1> QED BY <1>2, <1>3, <1>4 DEF Sequencing

\* intel_ring_begin
LEMMA RingBeginStep ==
    ASSUME GemAssumption, FewBatches, GemInv, NEW t \in Threads, RingBegin(t)
    PROVE  GemInv' /\ Budget <= Budget' /\ (next' = next \/ Budget' = Budget + 1)
  <1> DEFINE r == th[t].to
             invalidate == dirty' \in {dirty, [dirty EXCEPT ![r] = FALSE]}
             take(n) == /\ olr' = [olr EXCEPT ![r] = n]
                        /\ next' = (n + 1) % Mod
                        /\ Go(t, "dispatch") /\ invalidate /\ mutex' = mutex
  <1>1. /\ th[t].pc = "begin"
        /\ UNCHANGED <<requests, ring, lastRead, lastWrite, hw, hws, wedged, recovered, work, batches>>
    BY DEF RingBegin, At, gemVars, gpuVars, errVars, bounds
  <1>2. /\ Holds(th[t]) /\ ~Dispatches(th[t]) /\ mutex = t /\ th[t].op = "exec" /\ r \in Rings
        /\ Allots(th[t])
    BY <1>1, ThreadFacts DEF RecOK, Holds, Dispatches, Allots, HoldPCs, Asking, Waiting
  <1>3. Threading /\ Budgeting /\ Lazy /\ Sequencing
    BY DEF GemInv
  <1>4. CASE Return(t) /\ UNCHANGED <<olr, next, dirty>>
    <2>1. Threading' /\ Budgeting' /\ Budget' \in Nat /\ Budget <= Budget'
      BY <1>1, <1>2, <1>3, <1>4, ThreadFacts, ReturnMoves
    <2> QED BY <1>1, <1>4, <2>1, Quiet
  <1>5. ASSUME Go(t, "dispatch"), mutex' = mutex, olr'[r] # 0
        PROVE  Threading' /\ Budgeting' /\ Budget \in Nat /\ Budget' = Budget + 1
    <2> DEFINE x == [th[t] EXCEPT !.pc = "dispatch"]
    <2>1. th' = [th EXCEPT ![t] = x]
      BY <1>5, ThreadFacts DEF Go
    <2>2. /\ x \in ThreadRec /\ x.pc = "dispatch" /\ x.op = th[t].op /\ x.obj = th[t].obj
          /\ x.to = th[t].to /\ x.then = th[t].then
      BY ThreadFacts DEF ThreadRec, PCs
    <2> HIDE DEF x
    <2>3. ~Allots(x)
      BY <2>2 DEF Allots, Dispatches
    <2> QED BY <1>1, <1>2, <1>5, <2>1, <2>2, <2>3, ThreadFacts, HolderGoes DEF RecOK, HoldPCs
  <1>6. CASE olr[r] # 0 /\ Go(t, "dispatch") /\ invalidate /\ UNCHANGED <<mutex, olr, next>>
    <2>1. Threading' /\ Budgeting' /\ Budget \in Nat /\ Budget' = Budget + 1
      BY <1>5, <1>6
    <2> QED BY <1>1, <1>6, <2>1, QuietFlush
  <1>7. CASE olr[r] = 0 /\ take(Taken(next))
    <2>1. Taken(next) # 0 /\ olr'[r] = Taken(next)
      BY <1>2, <1>3, <1>7 DEF Taken, Lazy
    <2>2. Threading' /\ Budgeting' /\ Budget \in Nat /\ Budget' = Budget + 1
      BY <1>5, <1>7, <2>1
    <2>3. Lazy' /\ Sequencing'
      BY <1>1, <1>2, <1>3, <1>7, <2>2, TakeOK
    <2> QED BY <1>1, <2>2, <2>3 DEF GemInv, WedgeHandled
  <1>8. CASE next = 0 /\ Goto(t, [th[t] EXCEPT !.pc = "wrap", !.on = 1]) /\ UNCHANGED <<mutex, olr, next, dirty>>
    <2> DEFINE x == [th[t] EXCEPT !.pc = "wrap", !.on = 1]
    <2>1. th' = [th EXCEPT ![t] = x] /\ 1 \in Rings
      BY <1>8, Room DEF Goto
    <2>2. /\ x \in ThreadRec /\ x.pc = "wrap" /\ x.op = th[t].op /\ x.obj = th[t].obj
          /\ x.to = th[t].to /\ x.then = th[t].then /\ x.on = 1
      BY <2>1, ThreadFacts, ZenonT(40) DEF ThreadRec, PCs
    <2> HIDE DEF x
    <2>3. Threading' /\ Budgeting' /\ Budget' \in Nat /\ Budget <= Budget'
      BY <1>1, <1>2, <1>8, <2>1, <2>2, ThreadFacts, HolderGoes DEF RecOK, HoldPCs
    <2> QED BY <1>1, <1>8, <2>3, Quiet
  <1>9. \/ Return(t) /\ UNCHANGED <<olr, next, dirty>>
        \/ olr[r] # 0 /\ Go(t, "dispatch") /\ invalidate /\ UNCHANGED <<mutex, olr, next>>
        \/ olr[r] = 0 /\ take(Taken(next))
        \/ next = 0 /\ Goto(t, [th[t] EXCEPT !.pc = "wrap", !.on = 1]) /\ UNCHANGED <<mutex, olr, next, dirty>>
    BY DEF RingBegin, Taken
  <1> QED BY <1>4, <1>6, <1>7, <1>8, <1>9

\* intel_ring_idle
LEMMA IdleRingStep == ASSUME GemAssumption, GemInv, NEW t \in Threads, IdleRing(t) PROVE GemInv' /\ Budget <= Budget'
  <1> DEFINE r == th[t].on
             idle == UNCHANGED <<requests, hw, olr, dirty>>
  <1>1. /\ th[t].pc = "wrap"
        /\ UNCHANGED <<next, hws, ring, lastRead, lastWrite, errVars, batches>>
    BY DEF IdleRing, At, bounds
  <1>2. /\ Holds(th[t]) /\ Wraps(th[t]) /\ ~Dispatches(th[t]) /\ mutex = t
        /\ th[t].op = "exec" /\ r \in Rings /\ next = 0
    BY <1>1, ThreadFacts DEF RecOK, Holds, Wraps, Dispatches, HoldPCs, Asking, Waiting
  <1>3. Threading /\ Budgeting /\ Lazy /\ Sequencing
    BY DEF GemInv
  <1>4. CASE Return(t) /\ idle
    <2>1. Threading' /\ Budgeting' /\ Budget' \in Nat /\ Budget <= Budget'
      BY <1>1, <1>2, <1>3, <1>4, ThreadFacts, ReturnMoves
    <2> QED BY <1>1, <1>4, <2>1, Quiet DEF errVars
  <1>5. CASE olr[r] # 0 /\ AddRequest(r, Nobody) /\ UNCHANGED <<mutex, th>>
    <2>1. th' = [th EXCEPT ![t] = th[t]]
      BY <1>5, ThreadFacts
    <2>2. Threading' /\ Budgeting' /\ Budget \in Nat /\ Budget' \in Nat /\ Budget <= Budget'
      BY <1>1, <1>2, <1>5, <2>1, ThreadFacts, HolderGoes DEF RecOK, HoldPCs
    <2>3. Lazy' /\ Sequencing'
      BY <1>1, <1>2, <1>3, <1>5, <2>2, AddRequestOK
    <2> QED BY <1>1, <2>2, <2>3 DEF GemInv, WedgeHandled, errVars
  <1>6. CASE Go(t, "wrapped") /\ mutex' = mutex /\ idle
    <2> DEFINE x == [th[t] EXCEPT !.pc = "wrapped"]
    <2>1. th' = [th EXCEPT ![t] = x]
      BY <1>6, ThreadFacts DEF Go
    <2>2. /\ x \in ThreadRec /\ x.pc = "wrapped" /\ x.op = th[t].op /\ x.obj = th[t].obj
          /\ x.to = th[t].to /\ x.then = th[t].then /\ x.on = r
      BY ThreadFacts DEF ThreadRec, PCs
    <2> HIDE DEF x
    <2>3. Threading' /\ Budgeting' /\ Budget' \in Nat /\ Budget <= Budget'
      BY <1>1, <1>2, <1>6, <2>1, <2>2, ThreadFacts, HolderGoes DEF RecOK, HoldPCs
    <2> QED BY <1>1, <1>6, <2>3, Quiet DEF errVars
  <1>7. CASE requests[r] # <<>> /\ WaitSeqno(t, r, requests[r][Len(requests[r])].s, "wrapped")
    <2>1. requests[r][Len(requests[r])] \in Reqs
      BY <1>2, <1>3, <1>7 DEF Sequencing
    <2>2. requests[r][Len(requests[r])].s \in Seqnos \ {0}
      BY <2>1 DEF Reqs
    <2> QED BY <1>1, <1>2, <1>7, <2>2, WaitSeqnoStep
  <1>8. \/ Return(t) /\ idle
        \/ olr[r] # 0 /\ AddRequest(r, Nobody) /\ UNCHANGED <<mutex, th>>
        \/ Go(t, "wrapped") /\ mutex' = mutex /\ idle
        \/ requests[r] # <<>> /\ WaitSeqno(t, r, requests[r][Len(requests[r])].s, "wrapped")
    BY DEF IdleRing
  <1> QED BY <1>4, <1>5, <1>6, <1>7, <1>8

\* The seqnos restart.
LEMMA RestartOK ==
    ASSUME GemAssumption, FewBatches, Budgeting, Sequencing, next = 0, next' = 1,
           Budget' \in Nat, Budget <= Budget', requests' = Remaining(Rings),
           UNCHANGED <<olr, hw, hws>>, Budget' + 1 < Mod - 1
    PROVE  Sequencing'
  <1>1. requests \in [Rings -> Seq(Reqs)] /\ Mod >= 6 /\ Budget \in Nat /\ 0 \in Seqnos
    BY Room, BudgetRoom DEF Sequencing
  <1>2. requests' \in [Rings -> Seq(Reqs)] /\ 1 \in Seqnos
    BY <1>1, RemainingType DEF Seqnos, GemAssumption
  <1>3. ASSUME NEW p \in Rings
        PROVE  RingOK(1, Budget', olr[p], requests'[p], hw[p], hws[p])
    <2>1. RingOK(0, Budget, olr[p], requests[p], hw[p], hws[p])
      BY DEF Sequencing
    <2>2. RingOK(0, Budget', olr[p], requests'[p], hw[p], hws[p])
      <3>1. /\ requests'[p] \in Seq(Reqs)
            /\ \A i \in DOMAIN requests'[p] : \E j \in DOMAIN requests[p] : requests'[p][i] = requests[p][j]
        BY <1>1, RemainingOK
      <3>2. 0 \in Seqnos /\ Budget \in Int /\ Budget' \in Int /\ Budget <= Budget'
        BY <1>1
      <3> DEFINE q == requests'[p]
      <3>3. q \in Seq(Reqs) /\ \A i \in DOMAIN q : \E j \in DOMAIN requests[p] : q[i] = requests[p][j]
        BY <3>1
      <3> HIDE DEF q
      <3>4. RingOK(0, Budget', olr[p], q, hw[p], hws[p])
        BY <2>1, <3>2, <3>3, RingRetire
      <3> QED BY <3>4 DEF q
    <2> QED BY <1>1, <2>2, RingRestarts
  <1> QED BY <1>2, <1>3 DEF Sequencing

\* i915_gem_handle_seqno_wrap goes to the next ring, or is done.
LEMMA WrappedStep == ASSUME GemAssumption, FewBatches, GemInv, NEW t \in Threads, Wrapped(t) PROVE GemInv' /\ Budget <= Budget'
  <1>1. /\ th[t].pc = "wrapped"
        /\ UNCHANGED <<mutex, olr, dirty, hw, hws, wedged, recovered, work, batches>>
    BY DEF Wrapped, At, gpuVars, errVars, bounds
  <1>2. /\ Holds(th[t]) /\ Wraps(th[t]) /\ ~Dispatches(th[t]) /\ mutex = t
        /\ th[t].op = "exec" /\ th[t].on \in Rings /\ next = 0
    BY <1>1, ThreadFacts DEF RecOK, Holds, Wraps, Dispatches, HoldPCs, Asking, Waiting
  <1>3. Threading /\ Budgeting /\ Lazy /\ Sequencing
    BY DEF GemInv
  <1>4. CASE ~LastRing(th[t].on)
    <2> DEFINE x == [th[t] EXCEPT !.pc = "wrap", !.on = th[t].on + 1]
    <2>1. th' = [th EXCEPT ![t] = x] /\ UNCHANGED <<next, requests, ring, lastRead, lastWrite>>
      BY <1>4 DEF Wrapped, Goto, gemVars
    <2>2. th[t].on + 1 \in Rings
      BY <1>2, <1>4 DEF LastRing, Rings, GemAssumption
    <2>3. /\ x \in ThreadRec /\ x.pc = "wrap" /\ x.op = th[t].op /\ x.obj = th[t].obj
          /\ x.to = th[t].to /\ x.then = th[t].then /\ x.on \in Rings
      BY <2>2, ThreadFacts, ZenonT(40) DEF ThreadRec, PCs
    <2> HIDE DEF x
    <2>4. Threading' /\ Budgeting' /\ Budget' \in Nat /\ Budget <= Budget'
      BY <1>1, <1>2, <2>1, <2>3, ThreadFacts, HolderGoes DEF RecOK, HoldPCs
    <2> QED BY <1>1, <2>1, <2>4, Quiet
  <1>5. CASE LastRing(th[t].on)
    <2> DEFINE x == [th[t] EXCEPT !.pc = "begin", !.on = NoRing, !.s = 0, !.then = "idle"]
    <2>1. th' = [th EXCEPT ![t] = x] /\ Retire(Rings, {}) /\ next' = 1
      BY <1>5 DEF Wrapped, Goto
    <2>2. /\ x \in ThreadRec /\ x.pc = "begin" /\ x.op = th[t].op /\ x.obj = th[t].obj
          /\ x.to = th[t].to /\ x.then = "idle"
      BY ThreadFacts, ZenonT(40) DEF ThreadRec, PCs
    <2> HIDE DEF x
    <2>3. Threading' /\ Budgeting' /\ Budget' \in Nat /\ Budget <= Budget'
      BY <1>1, <1>2, <2>1, <2>2, HolderGoes DEF HoldPCs
    <2>4. Lazy'
      BY <1>1, <1>3, <2>1, MoveToInactiveOK DEF Retire, RetireObjects
    <2>5. Budget' + 1 < Mod - 1
      <3>1. Budget' <= batches /\ batches \in 0 .. MaxBatches
        <4>1. Cardinality(Pending') \in Nat
          BY <2>3, FS_CardinalityType DEF Budgeting
        <4> QED BY <1>1, <1>3, <4>1 DEF Budgeting, Budget
      <3> QED BY <2>3, <3>1, Room
    <2>6. Sequencing'
      BY <1>1, <1>2, <1>3, <2>1, <2>3, <2>5, RestartOK DEF Retire
    <2> QED BY <1>1, <2>3, <2>4, <2>6 DEF GemInv, WedgeHandled
  <1> QED BY <1>4, <1>5

\* ring_wait_for_space
LEMMA WaitForSpaceStep == ASSUME GemAssumption, GemInv, NEW t \in Threads, WaitForSpace(t) PROVE GemInv' /\ Budget <= Budget'
  <1> DEFINE r == th[t].to
  <1>1. /\ th[t].pc = "dispatch" /\ Len(requests[r]) >= RingRequests
        /\ UNCHANGED <<next, hws, errVars, batches>>
    BY DEF WaitForSpace, At, bounds
  <1>2. /\ Holds(th[t]) /\ Dispatches(th[t]) /\ mutex = t
        /\ th[t].op = "exec" /\ r \in Rings /\ olr[r] # 0
    BY <1>1, ThreadFacts DEF RecOK, Holds, Wraps, Dispatches, HoldPCs, Asking, Waiting
  <1>3. Threading /\ Budgeting /\ Lazy /\ Sequencing
    BY DEF GemInv
  <1>4. CASE Remaining({r}) # requests
    <2> DEFINE x == [th[t] EXCEPT !.on = NoRing, !.s = 0, !.then = "idle"]
    <2>1. Retire({r}, {}) /\ th' = [th EXCEPT ![t] = x] /\ UNCHANGED <<mutex, hw, olr, dirty>>
      BY <1>4 DEF WaitForSpace, Goto
    <2>2. /\ x \in ThreadRec /\ x.pc = "dispatch" /\ x.op = th[t].op /\ x.obj = th[t].obj
          /\ x.to = th[t].to /\ x.then = "idle"
      BY <1>1, ThreadFacts, ZenonT(40) DEF ThreadRec, PCs
    <2> HIDE DEF x
    <2>3. Threading' /\ Budgeting' /\ Budget' \in Nat /\ Budget <= Budget'
      BY <1>1, <1>2, <2>1, <2>2, HolderGoes DEF HoldPCs
    <2> QED BY <1>1, <2>1, <2>3, RetireStep DEF errVars
  <1>5. CASE Remaining({r}) = requests
    <2>1. WaitSeqno(t, r, requests[r][1].s, "dispatch") /\ UNCHANGED <<ring, lastRead, lastWrite>>
      BY <1>5 DEF WaitForSpace
    <2>2. RingOK(next, Budget, olr[r], requests[r], hw[r], hws[r]) /\ requests[r] \in Seq(Reqs)
      BY <1>2, <1>3 DEF Sequencing
    <2>3. 1 \in DOMAIN requests[r]
      BY <1>1, <2>2 DEF GemAssumption
    <2>4. requests[r][1] \in Reqs
      BY <2>2, <2>3
    <2>5. requests[r][1].s \in Seqnos \ {0}
      BY <2>4 DEF Reqs
    <2>6. olr[r] # requests[r][1].s
      <3>1. Age(next, olr[r]) \in 1 .. Age(next, hws[r]) /\ Age(next, hws[r]) \in 1 .. Budget + 1
            /\ Age(next, olr[r]) < Age(next, requests[r][1].s)
        BY <1>2, <2>2, <2>3 DEF RingOK
      <3> QED BY <3>1
    <2> QED BY <1>1, <1>2, <2>1, <2>5, <2>6, WaitSeqnoStep
  <1> QED BY <1>4, <1>5

\* A batch, and maybe a wait before it, is added to a ring.
LEMMA EmitOK ==
    ASSUME GemAssumption, Sequencing, Budget \in Nat, Budget' \in Nat, Budget <= Budget',
           NEW r \in Rings, NEW w \in Commands, ~Crumb(w), NEW c \in Commands, ~Crumb(c),
           \/ hw' = [hw EXCEPT ![r] = Append(@, c)]
           \/ hw' = [hw EXCEPT ![r] = Append(Append(@, w), c)],
           UNCHANGED <<next, olr, requests, hws>>
    PROVE  Sequencing'
  <1>1. /\ next \in Seqnos /\ hw \in [Rings -> Seq(Commands)] /\ requests \in [Rings -> Seq(Reqs)]
    BY DEF Sequencing
  <1>2. ASSUME NEW p \in Rings
        PROVE  RingOK(next, Budget', olr[p], requests[p], hw'[p], hws[p])
    <2>1. RingOK(next, Budget, olr[p], requests[p], hw[p], hws[p]) /\ requests[p] \in Seq(Reqs)
      BY <1>1 DEF Sequencing
    <2>2. RingOK(next, Budget', olr[p], requests[p], hw[p], hws[p])
      BY <1>1, <2>1, RingRetire
    <2>3. CASE p # r
      BY <1>1, <2>2, <2>3
    <2>4. CASE p = r
      <3>1. RingOK(next, Budget', olr[p], requests[p], Append(hw[p], c), hws[p])
        BY <1>1, <2>2, RingEmits
      <3>2. RingOK(next, Budget', olr[p], requests[p], Append(hw[p], w), hws[p])
        BY <1>1, <2>2, RingEmits
      <3>3. RingOK(next, Budget', olr[p], requests[p], Append(Append(hw[p], w), c), hws[p])
        BY <1>1, <3>2, RingEmits
      <3>4. hw'[p] \in {Append(hw[p], c), Append(Append(hw[p], w), c)}
        BY <1>1, <2>4
      <3> QED BY <3>1, <3>3, <3>4
    <2> QED BY <2>3, <2>4
  <1>3. hw' \in [Rings -> Seq(Commands)]
    <2>1. Append(hw[r], c) \in Seq(Commands) /\ Append(Append(hw[r], w), c) \in Seq(Commands)
      BY <1>1
    <2> QED BY <1>1, <2>1, Zenon
  <1> QED BY <1>1, <1>2, <1>3 DEF Sequencing

\* sync_to and dispatch_execbuffer
LEMMA DispatchStep == ASSUME GemAssumption, GemInv, NEW t \in Threads, Dispatch(t) PROVE GemInv' /\ Budget <= Budget'
  <1> DEFINE r == th[t].to
             o == th[t].obj
             sem == IF th[t].sem = 0 THEN <<>> ELSE <<SemWait(th[t].from, th[t].sem)>>
             c == Batch(o, th[t].write)
             w == SemWait(th[t].from, th[t].sem)
             emit == \/ hw' = [hw EXCEPT ![r] = Append(@, c)]
                     \/ hw' = [hw EXCEPT ![r] = Append(Append(@, w), c)]
             part == hw' = hw \/ hw' = [hw EXCEPT ![r] = Append(@, w)]
             flushed == \E b : dirty' = [dirty EXCEPT ![r] = @ /\ b = <<>>]
             x == [th[t] EXCEPT !.pc = "request", !.from = NoRing, !.sem = 0]
  <1>1. /\ th[t].pc = "dispatch"
        /\ UNCHANGED <<requests, next, olr, hws, errVars, batches>>
    BY Zenon DEF Dispatch, At, bounds
  <1>2. /\ Holds(th[t]) /\ Dispatches(th[t]) /\ mutex = t /\ o \in Objects
        /\ th[t].op = "exec" /\ r \in Rings /\ olr[r] # 0
    BY <1>1, ThreadFacts DEF RecOK, Holds, Wraps, Dispatches, HoldPCs, Asking, Waiting
  <1>3. Threading /\ Budgeting /\ Lazy /\ Sequencing
    BY DEF GemInv
  <1>4. c \in Commands /\ ~Crumb(c) /\ w \in Commands /\ ~Crumb(w)
    BY <1>2, ThreadFacts DEF SemWait, Batch, Commands, Crumb, ThreadRec
  <1>5. CASE /\ emit /\ MoveToActive(o, r, th[t].write)
             /\ dirty' = [dirty EXCEPT ![r] = TRUE] /\ th' = [th EXCEPT ![t] = x] /\ mutex' = mutex
    <2>1. /\ x \in ThreadRec /\ x.pc = "request" /\ x.op = th[t].op /\ x.obj = th[t].obj
          /\ x.to = th[t].to /\ x.then = th[t].then
      BY ThreadFacts, ZenonT(40) DEF ThreadRec, PCs
    <2> HIDE DEF x, c, w
    <2>2. Threading' /\ Budgeting' /\ Budget \in Nat /\ Budget' \in Nat /\ Budget <= Budget'
      BY <1>1, <1>2, <1>5, <2>1, ThreadFacts, HolderGoes DEF RecOK, HoldPCs
    <2>3. Lazy'
      <3>1. /\ ring' = [ring EXCEPT ![o] = r]
            /\ lastRead' = [lastRead EXCEPT ![o] = olr[r]]
            /\ lastWrite' = [lastWrite EXCEPT ![o] = IF th[t].write THEN olr[r] ELSE @]
        BY <1>5 DEF MoveToActive
      <3>2. olr[r] \in Seqnos /\ r # NoRing
        BY <1>2, <1>3, ThreadFacts DEF Lazy, Rings
      <3>3. /\ ring' \in [Objects -> Rings \cup {NoRing}]
            /\ lastRead' \in [Objects -> Seqnos] /\ lastWrite' \in [Objects -> Seqnos]
            /\ dirty' \in [Rings -> BOOLEAN]
        BY <1>2, <1>3, <1>5, <3>1, <3>2 DEF Lazy
      <3>4. \A p \in Rings : dirty'[p] => olr[p] # 0
        BY <1>2, <1>3, <1>5 DEF Lazy
      <3>5. \A a \in Objects : /\ ring'[a] # NoRing => lastRead'[a] # 0
                               /\ lastRead'[a] # 0 \/ lastWrite'[a] # 0 => ring'[a] # NoRing
        BY <1>2, <1>3, <3>1, <3>2 DEF Lazy
      <3> QED BY <1>1, <1>3, <3>3, <3>4, <3>5 DEF Lazy
    <2>4. Sequencing'
      BY <1>1, <1>2, <1>3, <1>4, <1>5, <2>2, EmitOK
    <2> QED BY <1>1, <2>2, <2>3, <2>4 DEF GemInv, WedgeHandled, errVars
  <1>6. CASE UNCHANGED <<hw, ring, lastRead, lastWrite, dirty>> /\ Return(t)
    <2>1. Threading' /\ Budgeting' /\ Budget' \in Nat /\ Budget <= Budget'
      BY <1>1, <1>2, <1>3, <1>6, ThreadFacts, ReturnMoves
    <2> QED BY <1>1, <1>6, <2>1, Quiet DEF errVars
  <1>7. CASE /\ emit \/ part
             /\ UNCHANGED <<ring, lastRead, lastWrite>> /\ flushed /\ Return(t)
    <2>1. Threading' /\ Budgeting' /\ Budget \in Nat /\ Budget' \in Nat /\ Budget <= Budget'
      BY <1>1, <1>2, <1>3, <1>7, ThreadFacts, ReturnMoves
    <2>2. Lazy'
      BY <1>1, <1>2, <1>3, <1>7 DEF Lazy
    <2> HIDE DEF c, w
    <2>3. Sequencing'
      <3>1. CASE hw' = hw
        BY <1>1, <1>3, <2>1, <3>1, RetireKeeps
      <3>2. CASE hw' = [hw EXCEPT ![r] = Append(@, w)]
        BY <1>1, <1>2, <1>3, <1>4, <2>1, <3>2, EmitOK, Zenon
      <3>3. CASE emit
        BY <1>1, <1>2, <1>3, <1>4, <2>1, <3>3, EmitOK, Zenon
      <3> QED BY <1>7, <3>1, <3>2, <3>3
    <2> QED BY <1>1, <2>1, <2>2, <2>3 DEF GemInv, WedgeHandled, errVars
  <1>8. \/ /\ hw' = [hw EXCEPT ![r] = @ \o sem \o <<Batch(o, th[t].write)>>] /\ MoveToActive(o, r, th[t].write)
           /\ dirty' = [dirty EXCEPT ![r] = TRUE] /\ th' = [th EXCEPT ![t] = x] /\ mutex' = mutex
        \/ UNCHANGED <<hw, ring, lastRead, lastWrite, dirty>> /\ Return(t)
        \/ /\ \/ hw' = [hw EXCEPT ![r] = @ \o sem \o <<Batch(o, th[t].write)>>]
              \/ hw' = [hw EXCEPT ![r] = @ \o sem \o <<>>]
           /\ UNCHANGED <<ring, lastRead, lastWrite>> /\ flushed /\ Return(t)
    BY ZenonT(40) DEF Dispatch, Goto
  <1>9. hw' = [hw EXCEPT ![r] = @ \o sem \o <<Batch(o, th[t].write)>>] => emit
    <2> HIDE DEF c, w
    <2>1. hw[r] \in Seq(Commands) /\ hw \in [Rings -> Seq(Commands)]
      BY <1>2, <1>3 DEF Sequencing
    <2>2. sem = <<>> \/ sem = <<w>>
      BY DEF w
    <2>3. hw[r] \o <<>> = hw[r] /\ hw[r] \o <<w>> = Append(hw[r], w) /\ Append(hw[r], w) \in Seq(Commands)
      BY <1>4, <2>1, ConcatEmptySeq, AppendIsConcat
    <2>4. hw[r] \o <<c>> = Append(hw[r], c) /\ Append(hw[r], w) \o <<c>> = Append(Append(hw[r], w), c)
      BY <1>4, <2>1, <2>3, AppendIsConcat
    <2>5. (hw[r] \o sem) \o <<c>> \in {Append(hw[r], c), Append(Append(hw[r], w), c)}
      <3> HIDE DEF sem
      <3> QED BY <2>2, <2>3, <2>4
    <2> HIDE DEF sem
    <2> QED BY <2>1, <2>5, Zenon DEF c
  <1>10. hw' = [hw EXCEPT ![r] = @ \o sem \o <<>>] => part
    <2> HIDE DEF c, w
    <2>1. hw[r] \in Seq(Commands) /\ hw \in [Rings -> Seq(Commands)]
      BY <1>2, <1>3 DEF Sequencing
    <2>2. sem = <<>> \/ sem = <<w>>
      BY DEF w
    <2>3. /\ hw[r] \o <<>> = hw[r] /\ hw[r] \o <<w>> = Append(hw[r], w)
          /\ Append(hw[r], w) \o <<>> = Append(hw[r], w)
      BY <1>4, <2>1, ConcatEmptySeq, AppendIsConcat
    <2>4. (hw[r] \o sem) \o <<>> \in {hw[r], Append(hw[r], w)}
      <3> HIDE DEF sem
      <3> QED BY <2>2, <2>3
    <2> HIDE DEF sem
    <2>5. [hw EXCEPT ![r] = hw[r]] = hw
      BY <2>1
    <2> QED BY <2>1, <2>4, <2>5, Zenon
  <1> QED BY <1>5, <1>6, <1>7, <1>8, <1>9, <1>10

\* The execbuffer adds its request.
LEMMA RequestStep == ASSUME GemAssumption, GemInv, NEW t \in Threads, Request(t) PROVE GemInv' /\ Budget <= Budget'
  <1> DEFINE r == th[t].to
  <1>1. /\ th[t].pc = "request" /\ Return(t)
        /\ UNCHANGED <<next, hws, ring, lastRead, lastWrite, errVars, batches>>
    BY DEF Request, At, bounds
  <1>2. Holds(th[t]) /\ Dispatches(th[t]) /\ mutex = t /\ th[t].op = "exec" /\ r \in Rings /\ olr[r] # 0
    BY <1>1, ThreadFacts DEF RecOK, Holds, Wraps, Dispatches, HoldPCs, Asking, Waiting
  <1>3. Threading /\ Budgeting /\ Lazy /\ Sequencing
    BY DEF GemInv
  <1>4. Threading' /\ Budgeting' /\ Budget \in Nat /\ Budget' \in Nat /\ Budget <= Budget'
    BY <1>1, <1>2, <1>3, ThreadFacts, ReturnMoves
  <1>5. AddRequest(r, t)
    BY DEF Request
  <1>6. Lazy' /\ Sequencing'
    BY <1>1, <1>2, <1>3, <1>4, <1>5, AddRequestOK
  <1> QED BY <1>1, <1>4, <1>6 DEF GemInv, WedgeHandled, errVars

\* Who has to add a request has the mutex.
LEMMA AddingHolds == ASSUME NEW t \in Threads, Adding(t) # NoRing PROVE Holds(th[t])
  BY DEF Adding, At, Holds, HoldPCs

\* A request fails, after its flush or before.
LEMMA AddFailsStep == ASSUME GemAssumption, GemInv, NEW t \in Threads, AddFails(t) PROVE GemInv' /\ Budget <= Budget'
  <1>1. /\ Return(t) /\ dirty' \in {dirty, [dirty EXCEPT ![Adding(t)] = FALSE]}
        /\ UNCHANGED <<next, olr, requests, ring, lastRead, lastWrite, hw, hws, wedged, recovered, work, batches>>
    BY DEF AddFails, gemVars, gpuVars, errVars, bounds
  <1>2. Threading' /\ Budgeting' /\ Budget' \in Nat /\ Budget <= Budget'
    BY <1>1, ThreadFacts, ReturnMoves DEF GemInv
  <1> QED BY <1>1, <1>2, QuietFlush

-----------------------------------------------------------------------------
(* Workers, timers, interrupts and the GPU                                 *)

\* No thread moves, and if the mutex is free a lazy request may go.
LEMMA NobodyMoves ==
    ASSUME GemAssumption, Threading, Budgeting, UNCHANGED <<mutex, next, th, batches>>,
           mutex = Nobody \/ olr' = olr
    PROVE  Threading' /\ Budgeting' /\ Budget \in Nat /\ Budget' = Budget
  <1>1. Threading'
    <2>1. ASSUME NEW t \in Threads, mutex = Nobody PROVE ~Dispatches(th[t])
      BY <2>1, HoldsAll DEF Threading, GemAssumption
    <2> QED BY <2>1 DEF Threading
  <1>2. Pending' = Pending
    BY DEF Pending
  <1> QED BY <1>1, <1>2, BudgetType DEF Budgeting, Budget

\* i915_gem_retire_work_handler
LEMMA RetireWorkStep == ASSUME GemAssumption, GemInv, RetireWork PROVE GemInv' /\ Budget <= Budget'
  <1> DEFINE flush == {r \in Rings : dirty[r] /\ ~wedged}
             kept == Remaining(Rings)
  <1>1. /\ mutex = Nobody /\ RetireObjects(Rings, {})
        /\ requests' = [r \in Rings |-> IF r \in flush THEN Append(kept[r], [s |-> olr[r], file |-> Nobody])
                                                       ELSE kept[r]]
        /\ hw' = [r \in Rings |-> IF r \in flush THEN Append(hw[r], Breadcrumb(olr[r])) ELSE hw[r]]
        /\ olr' = [r \in Rings |-> IF r \in flush THEN 0 ELSE olr[r]]
        /\ \E F : dirty' = [r \in Rings |-> dirty[r] /\ r \notin flush \cup F]
        /\ UNCHANGED <<mutex, next, th, hws, wedged, recovered, work, batches>>
    BY DEF RetireWork, errVars, bounds
  <1>2. Threading /\ Budgeting /\ Lazy /\ Sequencing
    BY DEF GemInv
  <1>3. Threading' /\ Budgeting' /\ Budget \in Nat /\ Budget' = Budget
    BY <1>1, <1>2, NobodyMoves
  <1>4. /\ 0 \in Seqnos /\ next \in Seqnos /\ requests \in [Rings -> Seq(Reqs)]
        /\ hw \in [Rings -> Seq(Commands)] /\ hws \in [Rings -> Seqnos]
        /\ olr \in [Rings -> Seqnos]
    BY <1>2 DEF GemAssumption, Seqnos, Sequencing, Lazy
  <1> HIDE DEF kept
  <1>5. ASSUME NEW r \in Rings
        PROVE  RingOK(next, Budget, olr'[r], requests'[r], hw'[r], hws[r])
    <2>1. RingOK(next, Budget, olr[r], requests[r], hw[r], hws[r])
      BY <1>2 DEF Sequencing
    <2>2. kept[r] \in Seq(Reqs) /\ \A i \in DOMAIN kept[r] : \E j \in DOMAIN requests[r] : kept[r][i] = requests[r][j]
      BY <1>4, RemainingOK DEF kept
    <2>3. RingOK(next, Budget, olr[r], kept[r], hw[r], hws[r])
      BY <1>3, <1>4, <2>1, <2>2, RingRetire
    <2>4. CASE r \in flush
      <3>1. olr[r] # 0
        BY <1>2, <2>4 DEF Lazy
      <3>2. RingOK(next, Budget, 0, Append(kept[r], [s |-> olr[r], file |-> Nobody]),
                   Append(hw[r], Breadcrumb(olr[r])), hws[r])
        BY <1>3, <1>4, <2>3, <3>1, RingAdd
      <3> QED BY <1>1, <2>4, <3>2
    <2>5. CASE r \notin flush
      BY <1>1, <2>3, <2>5
    <2> QED BY <2>4, <2>5
  <1>6. Sequencing'
    <2>1. \A r \in Rings : requests'[r] \in Seq(Reqs) /\ hw'[r] \in Seq(Commands)
      BY <1>5 DEF RingOK
    <2>2. requests' \in [Rings -> Seq(Reqs)] /\ hw' \in [Rings -> Seq(Commands)]
      BY <1>1, <2>1
    <2> QED BY <1>1, <1>3, <1>4, <1>5, <2>2 DEF Sequencing
  <1>7. Lazy'
    <2>1. olr' \in [Rings -> Seqnos] /\ dirty' \in [Rings -> BOOLEAN]
      BY <1>1, <1>4
    <2>2. \A r \in Rings : dirty'[r] => olr'[r] # 0
      BY <1>1, <1>2 DEF Lazy
    <2>3. \A o \in Objects : \/ ring'[o] = NoRing /\ lastRead'[o] = 0 /\ lastWrite'[o] = 0
                             \/ ring'[o] = ring[o] /\ lastRead'[o] = lastRead[o] /\ lastWrite'[o] = lastWrite[o]
      BY <1>1 DEF RetireObjects, MoveToInactive
    <2>4. /\ ring' \in [Objects -> Rings \cup {NoRing}]
          /\ lastRead' \in [Objects -> Seqnos] /\ lastWrite' \in [Objects -> Seqnos]
      BY <1>1, <1>2, <1>4 DEF RetireObjects, MoveToInactive, Lazy
    <2> QED BY <1>2, <2>1, <2>2, <2>3, <2>4 DEF Lazy
  <1> QED BY <1>1, <1>3, <1>6, <1>7 DEF GemInv, WedgeHandled

\* A ring executes its next command.
LEMMA ExecuteStep == ASSUME GemAssumption, GemInv, NEW r \in Rings, Execute(r) PROVE GemInv' /\ Budget <= Budget'
  <1>1. /\ hw[r] # <<>> /\ hw' = [hw EXCEPT ![r] = Tail(@)]
        /\ hws' = IF Crumb(Head1(r)) THEN [hws EXCEPT ![r] = Head1(r).s] ELSE hws
        /\ UNCHANGED <<mutex, next, olr, dirty, requests, ring, lastRead, lastWrite, th, wedged, recovered,
                       work, batches>>
    BY DEF Execute, Crumb, gemVars, seqVars, errVars, bounds
  <1>2. Threading /\ Budgeting /\ Lazy /\ Sequencing
    BY DEF GemInv
  <1>3. Threading' /\ Budgeting' /\ Budget \in Nat /\ Budget' = Budget
    BY <1>1, <1>2, NobodyMoves
  <1>4. next \in Seqnos /\ hw \in [Rings -> Seq(Commands)] /\ hws \in [Rings -> Seqnos]
    BY <1>2 DEF Sequencing
  <1>5. ASSUME NEW p \in Rings
        PROVE  RingOK(next, Budget, olr[p], requests[p], hw'[p], hws'[p])
    <2>1. RingOK(next, Budget, olr[p], requests[p], hw[p], hws[p])
      BY <1>2 DEF Sequencing
    <2>2. CASE p = r
      <3> DEFINE w == IF Crumb(hw[r][1]) THEN hw[r][1].s ELSE hws[r]
      <3>1. hws'[r] = w /\ hw'[r] = Tail(hw[r])
        BY <1>1, <1>4 DEF Head1
      <3>2. RingOK(next, Budget, olr[r], requests[r], Tail(hw[r]), w)
        BY <1>1, <1>3, <1>4, <2>1, <2>2, RingExecutes
      <3> QED BY <2>2, <3>1, <3>2
    <2>3. CASE p # r
      BY <1>1, <1>4, <2>1, <2>3
    <2> QED BY <2>2, <2>3
  <1>6. hw' \in [Rings -> Seq(Commands)] /\ hws' \in [Rings -> Seqnos]
    <2>1. \A p \in Rings : hw'[p] \in Seq(Commands) /\ hws'[p] \in Seqnos
      BY <1>5 DEF RingOK
    <2>2. hw' = [hw EXCEPT ![r] = hw'[r]] /\ hws' = [hws EXCEPT ![r] = hws'[r]]
      BY <1>1, <1>4
    <2> QED BY <1>4, <2>1, <2>2
  <1>7. Sequencing'
    BY <1>1, <1>2, <1>3, <1>5, <1>6 DEF Sequencing
  <1>8. Lazy'
    BY <1>1, <1>2 DEF Lazy
  <1> QED BY <1>1, <1>3, <1>7, <1>8 DEF GemInv, WedgeHandled

\* The hangcheck wakes sleepers or declares the GPU wedged.
LEMMA HangcheckStep == ASSUME GemAssumption, GemInv, HangcheckElapsed PROVE GemInv' /\ Budget <= Budget'
  <1>1. UNCHANGED <<mutex, next, olr, dirty, requests, ring, lastRead, lastWrite, hw, hws, batches>>
    BY DEF HangcheckElapsed, gemVars, seqVars, bounds
  <1>2. PICK idle \in {f \in [Rings -> BOOLEAN] : \A r \in Rings : f[r] \in RingIdle(r)}, kicked \in BOOLEAN :
           LET quiet == {r \in Rings : idle[r]}
           IN  \/ UNCHANGED <<errVars, th>>
               \/ HangcheckHung(kicked, Woken(quiet))
               \/ th' = Woken(quiet) /\ UNCHANGED errVars
    BY DEF HangcheckElapsed
  <1>3. /\ th' = th \/ \E R : th' = Woken(R)
        /\ UNCHANGED errVars \/ (wedged' = TRUE /\ work' = [work EXCEPT !.queued = TRUE])
    BY <1>2 DEF HangcheckHung
  <1>4. WedgeHandled' /\ work' \in Works
    <2>1. WedgeHandled /\ work \in Works
      BY DEF GemInv
    <2>2. CASE UNCHANGED errVars
      BY <2>1, <2>2 DEF WedgeHandled, errVars
    <2>3. CASE wedged' = TRUE /\ work' = [work EXCEPT !.queued = TRUE]
      <3>1. work'.queued = TRUE /\ work'.pc = work.pc
        BY <2>1, <2>3 DEF Works
      <3>2. work' \in Works
        BY <2>1, <2>3 DEF Works
      <3>3. WedgeHandled'
        BY <3>1 DEF WedgeHandled
      <3> QED BY <3>2, <3>3
    <2> QED BY <1>3, <2>2, <2>3
  <1>5. Threading /\ Budgeting /\ Lazy /\ Sequencing
    BY DEF GemInv
  <1>6. Threading' /\ Budgeting' /\ Budget \in Nat /\ Budget' = Budget
    <2>1. CASE th' = th
      BY <1>1, <1>5, <2>1, NobodyMoves
    <2>2. CASE \E R : th' = Woken(R)
      BY <1>1, <1>5, <2>2, WokenMoves, BudgetType
    <2> QED BY <1>3, <2>1, <2>2
  <1>7. Lazy'
    BY <1>1, <1>5 DEF Lazy
  <1>8. Sequencing'
    BY <1>1, <1>5, <1>6, RetireKeeps
  <1> QED BY <1>4, <1>6, <1>7, <1>8 DEF GemInv

\* The interrupt handler wakes the sleepers of a ring; a ring hangs.
LEMMA NotifyStep == ASSUME GemAssumption, GemInv, NEW r \in Rings, NotifyRing(r) \/ Hang(r) PROVE GemInv' /\ Budget <= Budget'
  <1>1. /\ UNCHANGED <<mutex, next, olr, dirty, requests, ring, lastRead, lastWrite, hw, hws,
                       wedged, recovered, work, batches>>
        /\ th' = th \/ th' = Woken({r})
    BY DEF NotifyRing, Hang, gemVars, seqVars, errVars, bounds
  <1>2. Threading /\ Budgeting
    BY DEF GemInv
  <1>3. Threading' /\ Budgeting' /\ Budget \in Nat /\ Budget' = Budget
    BY <1>1, <1>2, NobodyMoves, WokenMoves, BudgetType
  <1> QED BY <1>1, <1>3, Quiet

\* The error work: the lists are emptied, and then the chip is reset or not.
LEMMA ErrorWorkStep == ASSUME GemAssumption, GemInv, ErrorWork PROVE GemInv' /\ Budget <= Budget'
  <1>1. UNCHANGED <<mutex, next, olr, dirty, hws, wedged, recovered, th, batches>>
    BY DEF ErrorWork, gpuVars, seqVars, bounds
  <1>2. Threading /\ Budgeting /\ Lazy /\ Sequencing /\ WedgeHandled /\ work \in Works
    BY DEF GemInv
  <1>3. Threading' /\ Budgeting' /\ Budget \in Nat /\ Budget' = Budget
    BY <1>1, <1>2, NobodyMoves
  <1>4. CASE ~wedged \/ ~TryReset
    <2>1. UNCHANGED <<requests, ring, lastRead, lastWrite, hw>>
      BY <1>4 DEF ErrorWork, gemVars, gpuVars
    <2>4. work' = [queued |-> FALSE, pc |-> IF wedged THEN "unwedge" ELSE "idle"]
      BY <1>4 DEF ErrorWork
    <2>2. Lazy' /\ Sequencing'
      BY <1>1, <1>2, <1>3, <2>1, RetireKeeps DEF Lazy
    <2>3. WedgeHandled' /\ work' \in Works
      BY <1>1, <1>2, <2>4 DEF WedgeHandled, Works
    <2> QED BY <1>3, <2>2, <2>3 DEF GemInv
  <1>5. CASE wedged /\ TryReset
    <2>1. ResetLists /\ (hw' = hw \/ hw' = [r \in Rings |-> <<>>])
      BY <1>5 DEF ErrorWork
    <2>0. work'.pc \in {"unwedge", "complete"} /\ work' \in Works
      <3>1. work' = [queued |-> FALSE, pc |-> "unwedge"] \/ work' = [queued |-> FALSE, pc |-> "complete"]
        BY <1>5 DEF ErrorWork
      <3>2. work'.pc \in {"unwedge", "complete"}
        BY <3>1
      <3>3. [queued |-> FALSE, pc |-> "unwedge"] \in Works /\ [queued |-> FALSE, pc |-> "complete"] \in Works
        <4>1. FALSE \in BOOLEAN
          OBVIOUS
        <4> QED BY <4>1 DEF Works
      <3>4. work' \in Works
        BY <3>1, <3>3
      <3> QED BY <3>2, <3>4
    <2>2. WedgeHandled'
      BY <2>0 DEF WedgeHandled
    <2>3. Lazy'
      BY <1>1, <1>2, <2>1, MoveToInactiveOK DEF ResetLists
    <2>4. Sequencing'
      <3>1. \A r \in Rings : RingOK(next, Budget, olr[r], <<>>, <<>>, hws[r]) /\ RingOK(next, Budget, olr[r], <<>>, hw[r], hws[r])
        BY <1>2, <1>3, RingResets DEF Sequencing
      <3>2. <<>> \in Seq(Reqs) /\ <<>> \in Seq(Commands)
        OBVIOUS
      <3>3. requests' = [r \in Rings |-> <<>>]
        BY <2>1 DEF ResetLists
      <3> QED BY <1>1, <1>2, <1>3, <2>1, <3>1, <3>2, <3>3 DEF Sequencing
    <2> QED BY <1>3, <2>0, <2>2, <2>3, <2>4 DEF GemInv
  <1> QED BY <1>4, <1>5

\* The error work goes on after the reset.
LEMMA RecoverStep == ASSUME GemAssumption, GemInv, Unwedge \/ CompleteAll PROVE GemInv' /\ Budget <= Budget'
  <1>1. UNCHANGED <<mutex, next, olr, dirty, requests, ring, lastRead, lastWrite, hw, hws, th, batches>>
    BY DEF Unwedge, CompleteAll, gemVars, seqVars, gpuVars, bounds
  <1>2. Threading /\ Budgeting /\ Lazy /\ Sequencing /\ work \in Works
    BY DEF GemInv
  <1>3. Threading' /\ Budgeting' /\ Budget \in Nat /\ Budget' = Budget
    BY <1>1, <1>2, NobodyMoves
  <1>4. Lazy' /\ Sequencing'
    BY <1>1, <1>2, <1>3, RetireKeeps DEF Lazy
  <1>5. WedgeHandled' /\ work' \in Works
    BY <1>2 DEF Unwedge, CompleteAll, WedgeHandled, Works
  <1> QED BY <1>3, <1>4, <1>5 DEF GemInv

-----------------------------------------------------------------------------
(* The theorems                                                            *)

\* At load nothing has been taken.
LEMMA InitOK == ASSUME GemAssumption, FewBatches, Init PROVE GemInv
  <1>1. /\ next \in Seqnos \ {0} /\ 0 \in Seqnos /\ next - 1 \in Seqnos /\ Mod \in Nat /\ MaxBatches \in Nat
        /\ FALSE \in BOOLEAN /\ NoRing = 0
    BY DEF GemAssumption, Init, Seqnos, NoRing
  <1>2. Age(next, next - 1) = 1
    BY <1>1 DEF Age, Seqnos
  <1>3. Pending = {}
    BY <1>1, IdleOK DEF Init, Pending
  <1>4. Budgeting /\ Budget = 0
    BY <1>1, <1>3, FS_EmptySet DEF Init, Budgeting, Budget
  <1>5. Threading
    BY <1>1, IdleOK DEF Init, Threading, RecOK
  <1>6. Lazy
    BY <1>1 DEF Init, Lazy
  <1>7. <<>> \in Seq(Reqs) /\ <<>> \in Seq(Commands) /\ DOMAIN <<>> = {}
    OBVIOUS
  <1>8. RingOK(next, 0, 0, <<>>, <<>>, next - 1)
    BY <1>1, <1>2, <1>7 DEF RingOK
  <1>9. Sequencing
    BY <1>1, <1>4, <1>7, <1>8 DEF Init, Sequencing
  <1>10. WedgeHandled /\ work \in Works
    BY DEF Init, WedgeHandled, Works
  <1> QED BY <1>4, <1>5, <1>6, <1>9, <1>10 DEF GemInv

\* Every step keeps the invariant.
LEMMA NextOK == ASSUME GemAssumption, FewBatches, GemInv, [Next]_vars PROVE GemInv' /\ Budget <= Budget'
  <1>1. ASSUME NEW t \in Threads, Start(t) \/ Throttle(t) \/ WaitExpires(t) \/ WaitInterrupted(t) PROVE GemInv' /\ Budget <= Budget'
    BY <1>1, StartStep, ThrottleStep, WaitStep
  <1>2. ASSUME NEW t \in Threads, Step(t) PROVE GemInv' /\ Budget <= Budget'
    <2>1. CASE LockMutex(t) \/ WaitCheck(t) \/ WaitCond(t) \/ WaitSleep(t)
      BY <2>1, LockStep, WaitStep
    <2>2. CASE WaitRendering(t) \/ Rendered(t) \/ Nonblocking(t) \/ Relock(t)
      BY <2>2, WaitRenderingStep, RenderedStep, NonblockingStep, RelockStep
    <2>3. CASE Access(t) \/ FlushOlr(t) \/ FlushRetire(t)
      BY <2>3, AccessStep, FlushOlrStep, FlushRetireStep
    <2>4. CASE ObjectSync(t) \/ RingBegin(t) \/ IdleRing(t) \/ Wrapped(t)
      BY <2>4, ObjectSyncStep, RingBeginStep, IdleRingStep, WrappedStep
    <2>5. CASE WaitForSpace(t) \/ Dispatch(t) \/ Request(t) \/ AddFails(t)
      BY <2>5, WaitForSpaceStep, DispatchStep, RequestStep, AddFailsStep
    <2> QED BY <1>2, <2>1, <2>2, <2>3, <2>4, <2>5 DEF Step
  <1>3. ASSUME NEW r \in Rings, Execute(r) \/ Hang(r) \/ NotifyRing(r) PROVE GemInv' /\ Budget <= Budget'
    BY <1>3, ExecuteStep, NotifyStep
  <1>4. CASE RetireWork \/ HangcheckElapsed \/ ErrorWork \/ Unwedge \/ CompleteAll
    BY <1>4, RetireWorkStep, HangcheckStep, ErrorWorkStep, RecoverStep
  <1>5. CASE UNCHANGED vars
    <2>1. UNCHANGED <<mutex, next, olr, dirty, requests, ring, lastRead, lastWrite, hw, hws, th,
                      wedged, recovered, work, batches>>
      BY <1>5 DEF vars, gemVars, seqVars, gpuVars, errVars, bounds
    <2>2. Threading' /\ Budgeting' /\ Budget \in Nat /\ Budget' = Budget
      BY <2>1, NobodyMoves DEF GemInv
    <2> QED BY <2>1, <2>2, Quiet
  <1> QED BY <1>1, <1>2, <1>3, <1>4, <1>5 DEF Next

\* What the reset must not leave behind follows from the invariant.
LEMMA InvSafe == ASSUME GemAssumption, FewBatches, GemInv PROVE ResetSafe
  <1>1. ASSUME NEW r \in Rings, NEW q \in Elements(requests[r])
        PROVE  Done(r, q.s) \/ \E c \in Elements(hw[r]) : c.cmd = "seqno" /\ c.s = q.s
    <2>1. PICK i \in DOMAIN requests[r] : q = requests[r][i]
      BY DEF Elements
    <2>2. RingOK(next, Budget, olr[r], requests[r], hw[r], hws[r]) /\ next \in Seqnos
      BY DEF GemInv, Sequencing
    <2>3. Budget \in Nat /\ Budget + 2 < Mod \div 2
      BY BudgetRoom DEF GemInv
    <2>4. \/ Passed(hws[r], requests[r][i].s)
          \/ \E j \in DOMAIN hw[r] : hw[r][j].cmd = "seqno" /\ hw[r][j].s = requests[r][i].s
      BY <2>2, <2>3, RingCompletes
    <2> QED BY <2>1, <2>4 DEF Done, Elements
  <1>2. RequestsComplete
    BY <1>1 DEF RequestsComplete
  <1> QED BY <1>2 DEF GemInv, ResetSafe

\* The signed comparison says which of two seqnos that are not too old is older.
LEMMA AgeByPassed ==
    ASSUME GemAssumption, NEW n \in Seqnos, NEW a \in Seqnos, NEW b \in Seqnos,
           Age(n, a) + 1 < Mod \div 2, Age(n, b) + 1 < Mod \div 2, Passed(a, b)
    PROVE  Age(n, a) <= Age(n, b)
  <1>1. Mod \in Nat \ {0} /\ n \in 0 .. Mod - 1 /\ a \in 0 .. Mod - 1 /\ b \in 0 .. Mod - 1
    BY DEF GemAssumption, Seqnos
  <1> DEFINE H == Mod \div 2
  <1>2. H \in Nat /\ Mod = 2 * H
    BY HalfMod
  <1>3. Age(n, a) + 1 < H /\ Age(n, b) + 1 < H
    OBVIOUS
  <1>4. (a - b) % Mod < H
    BY DEF Passed
  <1> HIDE DEF H
  <1>5. SUFFICES ASSUME Age(n, b) < Age(n, a) PROVE FALSE
    BY <1>1 DEF Age
  <1>6. CASE a >= b
    <2>1. a - b \in 0 .. Mod - 1 /\ a - b >= H
      BY <1>1, <1>2, <1>3, <1>5, <1>6 DEF Age
    <2>2. (a - b) % Mod = a - b
      BY <1>1, <2>1, ModLow
    <2> QED BY <1>1, <1>2, <1>4, <2>1, <2>2
  <1>7. CASE a < b
    <2>1. a - b \in Int /\ -Mod <= a - b /\ a - b < 0 /\ a - b + Mod >= H
      BY <1>1, <1>2, <1>3, <1>5, <1>7 DEF Age
    <2>2. (a - b) % Mod = a - b + Mod
      BY <1>1, <2>1, ModBelow
    <2> QED BY <1>1, <1>2, <1>4, <2>1, <2>2
  <1> QED BY <1>1, <1>6, <1>7

\* A seqno that is in use is done when the status page has reached it.
LEMMA DoneByAge ==
    ASSUME GemAssumption, FewBatches, GemInv, NEW r \in Rings, NEW s \in Seqnos \ {0},
           Age(next, s) \in 1 .. Budget + 1
    PROVE  Done(r, s) <=> Age(next, hws[r]) <= Age(next, s)
  <1>1. next \in Seqnos /\ hws[r] \in Seqnos /\ Age(next, hws[r]) \in 1 .. Budget + 1
    BY DEF GemInv, Sequencing, RingOK
  <1>2. Budget \in Nat /\ Budget + 2 < Mod \div 2
    BY BudgetRoom DEF GemInv
  <1> DEFINE H == Mod \div 2
  <1>3. Age(next, s) + 1 < H /\ Age(next, hws[r]) + 1 < H
    <2>1. H \in Nat /\ Budget + 2 < H
      BY <1>2, HalfMod
    <2> HIDE DEF H
    <2> QED BY <1>1, <1>2, <2>1
  <1>4. Age(next, s) + 1 < Mod \div 2 /\ Age(next, hws[r]) + 1 < Mod \div 2
    BY <1>3
  <1> HIDE DEF H
  <1>5. CASE Age(next, hws[r]) <= Age(next, s)
    <2>1. Passed(hws[r], s)
      BY <1>1, <1>4, <1>5, PassedByAge
    <2> QED BY <1>5, <2>1 DEF Done
  <1>6. CASE Done(r, s)
    <2>1. Age(next, hws[r]) <= Age(next, s)
      BY <1>1, <1>4, <1>6, AgeByPassed DEF Done
    <2> QED BY <1>6, <2>1
  <1> QED BY <1>5, <1>6

\* The rest of a sequence without its first n elements
LEMMA DropIs ==
    ASSUME NEW S, NEW q \in Seq(S), NEW n \in 0 .. Len(q)
    PROVE  /\ Drop(q, n) \in Seq(S) /\ Len(Drop(q, n)) = Len(q) - n
           /\ \A i \in 1 .. Len(q) - n : Drop(q, n)[i] = q[n + i]
  <1>1. n + 1 \in Int /\ Len(q) \in Nat /\ n \in Nat
    OBVIOUS
  <1>2. n + 1 \in 1 .. Len(q) + 1 /\ Len(q) \in (n + 1) - 1 .. Len(q)
    BY <1>1
  <1>3. /\ SubSeq(q, n + 1, Len(q)) \in Seq(S)
        /\ Len(SubSeq(q, n + 1, Len(q))) = Len(q) - (n + 1) + 1
        /\ \A i \in 1 .. Len(q) - (n + 1) + 1 : SubSeq(q, n + 1, Len(q))[i] = q[(n + 1) + i - 1]
    BY <1>2, SubSeqProperties
  <1> DEFINE d == Drop(q, n)
  <1>4. Len(q) - (n + 1) + 1 = Len(q) - n /\ d = SubSeq(q, n + 1, Len(q))
    BY <1>1 DEF Drop
  <1> HIDE DEF d
  <1>5. d \in Seq(S) /\ Len(d) = Len(q) - n
    BY <1>3, <1>4
  <1>6. ASSUME NEW i \in 1 .. Len(q) - n PROVE d[i] = q[n + i]
    <2>1. (n + 1) + i - 1 = n + i
      BY <1>1
    <2>2. d[i] = q[(n + 1) + i - 1]
      BY <1>3, <1>4, Zenon
    <2> QED BY <2>1, <2>2, Zenon
  <1> QED BY <1>5, <1>6 DEF d


\* What i915_gem_retire_requests_ring leaves of the requests of a ring
LEMMA RemainingIs ==
    ASSUME NEW R, NEW r \in Rings, requests \in [Rings -> Seq(Reqs)]
    PROVE  \/ r \notin R /\ Remaining(R)[r] = requests[r]
           \/ r \in R /\ \E k \in 0 .. Len(requests[r]) :
                  /\ Remaining(R)[r] = Drop(requests[r], k)
                  /\ \A i \in 1 .. k : Done(r, requests[r][i].s)
  <1>1. CASE r \notin R
    BY <1>1 DEF Remaining
  <1>2. CASE r \in R
    <2> DEFINE q == requests[r]
               S == {i \in Nat : Done(r, q[i].s)}
               P(n) == /\ \A i \in 1 .. n : Done(r, q[i].s)
                       /\ n < Len(q) => ~Done(r, q[n + 1].s)
               k == CHOOSE n \in 0 .. Len(q) : P(n)
    <2>1. q \in Seq(Reqs) /\ Len(q) \in Nat
      OBVIOUS
    <2>2. PICK n \in 0 .. Len(q) : (\A i \in 1 .. n : i \in S) /\ (n < Len(q) => n + 1 \notin S)
      <3> HIDE DEF S
      <3> QED BY <2>1, FirstOut
    <2>3. P(n)
      BY <2>1, <2>2
    <2>4. k \in 0 .. Len(q) /\ P(k)
      <3> HIDE DEF P
      <3> QED BY <2>3
    <2>5. Remaining(R)[r] = Drop(q, k)
      BY <1>2 DEF Remaining, PassedPrefix
    <2> HIDE DEF k
    <2> QED BY <1>2, <2>4, <2>5
  <1> QED BY <1>1, <1>2

\* How many objects of each ring i915_gem_retire_requests_ring retires
RetiredBy(R, k) ==
    \A r \in Rings :
        /\ k[r] \in 0 .. Len(active[r])
        /\ active'[r] = Drop(active[r], k[r])
        /\ \A i \in 1 .. k[r] : r \in R /\ requests[r] # <<>> /\ Done(r, lastRead[active[r][i]])
        /\ r \in R /\ requests[r] # <<>> /\ k[r] < Len(active[r]) => ~Done(r, lastRead[active[r][k[r] + 1]])

\* The objects they are
Gone(k) == UNION {{active[r][i] : i \in 1 .. k[r]} : r \in Rings}

\* i915_gem_retire_requests_ring retires the heads of the lists.
LEMMA RetiredIs ==
    ASSUME active \in [Rings -> Seq(Objects)], NEW R, NEW W, RetireObjects(R, W)
    PROVE  \E k \in [Rings -> Nat] :
               /\ RetiredBy(R, k) /\ active' \in [Rings -> Seq(Objects)]
               /\ MoveToInactive(Gone(k), W)
  <1> DEFINE Old(r) == IF r \notin R \/ requests[r] = <<>> THEN 0
                       ELSE PassedPrefix(active[r], LAMBDA o : Done(r, lastRead[o]))
             k == [r \in Rings |-> Old(r)]
  <1>1. active' = [r \in Rings |-> Drop(active[r], Old(r))]
    BY DEF RetireObjects
  <1>2. MoveToInactive(UNION {{active[r][i] : i \in 1 .. Old(r)} : r \in Rings}, W)
    BY DEF RetireObjects
  <1>3. ASSUME NEW r \in Rings
        PROVE  /\ Old(r) \in 0 .. Len(active[r])
               /\ \A i \in 1 .. Old(r) : r \in R /\ requests[r] # <<>> /\ Done(r, lastRead[active[r][i]])
               /\ r \in R /\ requests[r] # <<>> /\ Old(r) < Len(active[r]) =>
                      ~Done(r, lastRead[active[r][Old(r) + 1]])
    <2>1. CASE r \notin R \/ requests[r] = <<>>
      <3>1. Old(r) = 0 /\ Len(active[r]) \in Nat
        BY <2>1
      <3> HIDE DEF Old
      <3> QED BY <2>1, <3>1
    <2>2. CASE r \in R /\ requests[r] # <<>>
      <3> DEFINE q == active[r]
                 S == {i \in Nat : Done(r, lastRead[q[i]])}
                 P(n) == /\ \A i \in 1 .. n : Done(r, lastRead[q[i]])
                         /\ n < Len(q) => ~Done(r, lastRead[q[n + 1]])
                 m == CHOOSE n \in 0 .. Len(q) : P(n)
      <3>1. q \in Seq(Objects) /\ Len(q) \in Nat
        OBVIOUS
      <3>2. PICK n \in 0 .. Len(q) : (\A i \in 1 .. n : i \in S) /\ (n < Len(q) => n + 1 \notin S)
        <4> HIDE DEF S
        <4> QED BY <3>1, FirstOut
      <3>3. P(n)
        BY <3>1, <3>2
      <3>4. m \in 0 .. Len(q) /\ P(m)
        <4> HIDE DEF P
        <4> QED BY <3>3
      <3>5. Old(r) = m
        BY <2>2 DEF PassedPrefix
      <3> HIDE DEF m
      <3> QED BY <2>2, <3>4, <3>5
    <2> QED BY <2>1, <2>2
  <1>4. \A r \in Rings : k[r] = Old(r)
    OBVIOUS
  <1>5. \A r \in Rings : active'[r] = Drop(active[r], k[r])
    BY <1>1, <1>4
  <1>6. {{active[r][i] : i \in 1 .. Old(r)} : r \in Rings} = {{active[r][i] : i \in 1 .. k[r]} : r \in Rings}
    BY <1>4
  <1>7. k \in [Rings -> Nat]
    <2> HIDE DEF Old
    <2>1. \A r \in Rings : Old(r) \in Nat
      BY <1>3
    <2> QED BY <2>1
  <1>8. active' \in [Rings -> Seq(Objects)]
    <2>1. \A r \in Rings : Drop(active[r], Old(r)) \in Seq(Objects)
      BY <1>3, DropIs
    <2> HIDE DEF Old
    <2> QED BY <1>1, <2>1
  <1>9. RetiredBy(R, k)
    <2> HIDE DEF Old, k
    <2> QED BY <1>3, <1>4, <1>5 DEF RetiredBy
  <1>10. MoveToInactive(Gone(k), W)
    BY <1>2, <1>6 DEF Gone
  <1> HIDE DEF k
  <1> QED BY <1>7, <1>8, <1>9, <1>10

-----------------------------------------------------------------------------
\* What is on an active list belongs to the ring and has a seqno in use.
LEMMA Listed ==
    ASSUME GemAssumption, GemInv, Listing, NEW r \in Rings, NEW i \in DOMAIN active[r]
    PROVE  /\ active[r][i] \in Objects /\ ring[active[r][i]] = r
           /\ lastRead[active[r][i]] \in Seqnos \ {0}
           /\ Age(next, lastRead[active[r][i]]) \in 1 .. Budget + 1
  <1> DEFINE o == active[r][i]
             s == lastRead[o]
  <1>1. o \in Objects /\ o \in Elements(active[r])
    BY DEF Listing, Elements
  <1>2. ring[o] = r
    BY <1>1 DEF Listing
  <1>3. s \in Seqnos \ {0}
    <2>1. r # NoRing
      BY DEF NoRing, Rings
    <2> QED BY <1>1, <1>2, <2>1 DEF GemInv, Lazy
  <1>4. RingOK(next, Budget, olr[r], requests[r], hw[r], hws[r])
    BY DEF GemInv, Sequencing
  <1>5. s = olr[r] \/ \E j \in DOMAIN requests[r] : requests[r][j].s = s
    BY DEF Listing, ListOK
  <1>6. Age(next, s) \in 1 .. Budget + 1
    <2>1. ASSUME NEW j \in DOMAIN requests[r], requests[r][j].s = s PROVE Age(next, s) \in 1 .. Budget + 1
      BY <1>4, <2>1 DEF RingOK
    <2>2. CASE s = olr[r]
      <3>1. Budget \in Nat
        BY BudgetType DEF GemInv
      <3>2. Age(next, olr[r]) \in 1 .. Age(next, hws[r]) - 1 /\ Age(next, hws[r]) \in 1 .. Budget + 1
        BY <1>3, <1>4, <2>2 DEF RingOK
      <3> QED BY <2>2, <3>1, <3>2
    <2> HIDE DEF s
    <2> QED BY <1>5, <2>1, <2>2
  <1> QED BY <1>1, <1>2, <1>3, <1>6

\* An object that is active is on the list of its ring.
LEMMA ActiveListed ==
    ASSUME GemAssumption, GemInv, Listing, NEW o \in Objects, ring[o] # NoRing
    PROVE  /\ ring[o] \in Rings /\ lastRead[o] \in Seqnos \ {0} /\ Age(next, lastRead[o]) \in 1 .. Budget + 1
           /\ \E i \in DOMAIN active[ring[o]] : active[ring[o]][i] = o
  <1>1. ring[o] \in Rings
    BY DEF GemInv, Lazy
  <1>2. o \in Elements(active[ring[o]])
    BY <1>1 DEF Listing
  <1>3. PICK i \in DOMAIN active[ring[o]] : active[ring[o]][i] = o
    BY <1>2 DEF Elements
  <1>4. /\ lastRead[active[ring[o]][i]] \in Seqnos \ {0}
        /\ Age(next, lastRead[active[ring[o]][i]]) \in 1 .. Budget + 1
    BY <1>1, Listed
  <1> QED BY <1>1, <1>3, <1>4

\* What a call of i915_gem_retire_requests_ring for the rings of R does to object o
Settled(R, W, o) ==
    /\ \/ ring'[o] = ring[o] /\ lastRead'[o] = lastRead[o] /\ lastWrite'[o] = IF o \in W THEN 0 ELSE lastWrite[o]
       \/ /\ ring[o] \in R \cap Rings /\ ring'[o] = NoRing /\ lastRead'[o] = 0 /\ lastWrite'[o] = 0
          /\ Age(next, hws[ring[o]]) <= Age(next, lastRead[o])
    /\ ring[o] \in R \cap Rings /\ requests[ring[o]] # <<>> /\ Age(next, hws[ring[o]]) <= Age(next, lastRead[o]) =>
           ring'[o] = NoRing

\* The objects at the head of a list that are done are those whose seqno has been reached.
LEMMA RetireDone ==
    ASSUME GemAssumption, FewBatches, GemInv, Listing, NEW R, NEW k \in [Rings -> Nat], RetiredBy(R, k),
           NEW r \in Rings, NEW i \in DOMAIN active[r]
    PROVE  /\ i <= k[r] => r \in R /\ Age(next, hws[r]) <= Age(next, lastRead[active[r][i]])
           /\ r \in R /\ requests[r] # <<>> /\ Age(next, hws[r]) <= Age(next, lastRead[active[r][i]]) => i <= k[r]
  <1>1. /\ k[r] \in 0 .. Len(active[r])
        /\ \A j \in 1 .. k[r] : r \in R /\ requests[r] # <<>> /\ Done(r, lastRead[active[r][j]])
        /\ r \in R /\ requests[r] # <<>> /\ k[r] < Len(active[r]) => ~Done(r, lastRead[active[r][k[r] + 1]])
    BY DEF RetiredBy
  <1>2. active[r] \in Seq(Objects) /\ Len(active[r]) \in Nat /\ DOMAIN active[r] = 1 .. Len(active[r])
    BY DEF Listing
  <1>3. \A j \in DOMAIN active[r] : /\ lastRead[active[r][j]] \in Seqnos \ {0}
                                    /\ Age(next, lastRead[active[r][j]]) \in 1 .. Budget + 1
    BY Listed
  <1>4. \A j \in DOMAIN active[r] : Done(r, lastRead[active[r][j]]) <=> Age(next, hws[r]) <= Age(next, lastRead[active[r][j]])
    BY <1>3, DoneByAge
  <1>5. ASSUME i <= k[r] PROVE r \in R /\ Age(next, hws[r]) <= Age(next, lastRead[active[r][i]])
    <2>1. i \in 1 .. k[r]
      BY <1>1, <1>2, <1>5
    <2> QED BY <1>1, <1>4, <2>1
  <1>6. ASSUME r \in R, requests[r] # <<>>, Age(next, hws[r]) <= Age(next, lastRead[active[r][i]]), k[r] < i PROVE FALSE
    <2>1. k[r] + 1 \in DOMAIN active[r] /\ k[r] + 1 <= i /\ k[r] < Len(active[r])
      BY <1>1, <1>2, <1>6
    <2>2. Age(next, lastRead[active[r][i]]) <= Age(next, lastRead[active[r][k[r] + 1]])
      <3>1. CASE k[r] + 1 = i
        BY <1>3, <3>1
      <3>2. CASE k[r] + 1 < i
        BY <2>1, <3>2 DEF Listing, ListOK
      <3> QED BY <1>1, <1>2, <2>1, <3>1, <3>2
    <2>3. Age(next, hws[r]) \in 1 .. Budget + 1
      BY DEF GemInv, Sequencing, RingOK
    <2>4. Age(next, hws[r]) <= Age(next, lastRead[active[r][k[r] + 1]])
      BY <1>3, <1>6, <2>1, <2>2, <2>3
    <2> QED BY <1>1, <1>4, <1>6, <2>1, <2>4
  <1> QED BY <1>1, <1>2, <1>5, <1>6

\* What i915_gem_retire_requests_ring leaves active, and with which seqnos
LEMMA RetireSettles ==
    ASSUME GemAssumption, FewBatches, GemInv, Listing, NEW R, NEW W, RetireObjects(R, W)
    PROVE  \A o \in Objects : Settled(R, W, o)
  <1>1. PICK k \in [Rings -> Nat] : RetiredBy(R, k) /\ MoveToInactive(Gone(k), W)
    <2>1. active \in [Rings -> Seq(Objects)]
      BY DEF Listing
    <2> QED BY <2>1, RetiredIs, Zenon
  <1>2. ASSUME NEW o \in Objects PROVE Settled(R, W, o)
    <2>1. o \in Gone(k) <=> \E r \in Rings : \E i \in 1 .. k[r] : active[r][i] = o
      BY DEF Gone
    <2>2. /\ ring'[o] = IF o \in Gone(k) THEN NoRing ELSE ring[o]
          /\ lastRead'[o] = IF o \in Gone(k) THEN 0 ELSE lastRead[o]
          /\ lastWrite'[o] = IF o \in Gone(k) \cup W THEN 0 ELSE lastWrite[o]
      BY <1>1 DEF MoveToInactive
    <2>3. CASE o \in Gone(k)
      <3>0. PICK r \in Rings : \E i \in 1 .. k[r] : active[r][i] = o
        BY <2>1, <2>3
      <3>1. PICK i \in 1 .. k[r] : active[r][i] = o
        BY <3>0
      <3>2. i \in DOMAIN active[r] /\ i <= k[r]
        BY <1>1 DEF RetiredBy, Listing
      <3>3. ring[o] = r
        BY <3>1, <3>2, Listed
      <3>4. r \in R /\ Age(next, hws[r]) <= Age(next, lastRead[o])
        BY <1>1, <3>1, <3>2, RetireDone
      <3> QED BY <2>2, <2>3, <3>3, <3>4 DEF Settled
    <2>4. CASE o \notin Gone(k)
      <3>1. ASSUME ring[o] \in R \cap Rings, requests[ring[o]] # <<>>, Age(next, hws[ring[o]]) <= Age(next, lastRead[o])
            PROVE  FALSE
        <4>1. ring[o] # NoRing
          BY <3>1 DEF NoRing, Rings
        <4>2. PICK i \in DOMAIN active[ring[o]] : active[ring[o]][i] = o
          BY <4>1, ActiveListed
        <4>3. i <= k[ring[o]]
          BY <1>1, <3>1, <4>2, RetireDone
        <4>4. i \in 1 .. k[ring[o]]
          BY <3>1, <4>2, <4>3 DEF Listing
        <4> QED BY <2>1, <2>4, <3>1, <4>2, <4>4
      <3> QED BY <2>2, <2>4, <3>1 DEF Settled
    <2> QED BY <2>3, <2>4
  <1> QED BY <1>2

\* What i915_gem_retire_requests_ring leaves of the lists fits together.
LEMMA RetireLists ==
    ASSUME GemAssumption, FewBatches, GemInv, Listing, NEW R, NEW W, RetireObjects(R, W)
    PROVE  /\ active' \in [Rings -> Seq(Objects)]
           /\ \A r \in Rings : \A o \in Objects : ring'[o] = r <=> o \in Elements(active'[r])
           /\ \A r \in Rings : ListOK(next, olr[r], Remaining(R)[r], active'[r], lastRead')
  <1>0. active \in [Rings -> Seq(Objects)] /\ requests \in [Rings -> Seq(Reqs)]
    BY DEF Listing, GemInv, Sequencing
  <1>1. PICK k \in [Rings -> Nat] :
            RetiredBy(R, k) /\ active' \in [Rings -> Seq(Objects)] /\ MoveToInactive(Gone(k), W)
    BY <1>0, RetiredIs, Zenon
  <1>2. \A o : o \in Gone(k) <=> \E r \in Rings : \E i \in 1 .. k[r] : active[r][i] = o
    BY DEF Gone
  <1>3. \A o \in Objects : /\ ring'[o] = IF o \in Gone(k) THEN NoRing ELSE ring[o]
                           /\ lastRead'[o] = IF o \in Gone(k) THEN 0 ELSE lastRead[o]
    BY <1>1 DEF MoveToInactive
  <1>4. ASSUME NEW r \in Rings
        PROVE  /\ k[r] \in 0 .. Len(active[r]) /\ Len(active[r]) \in Nat
               /\ DOMAIN active[r] = 1 .. Len(active[r]) /\ DOMAIN active'[r] = 1 .. Len(active[r]) - k[r]
               /\ \A i \in DOMAIN active'[r] : active'[r][i] = active[r][k[r] + i] /\ k[r] + i \in DOMAIN active[r]
    <2>1. k[r] \in 0 .. Len(active[r]) /\ active'[r] = Drop(active[r], k[r])
      BY <1>1 DEF RetiredBy
    <2>2. active[r] \in Seq(Objects) /\ Len(active[r]) \in Nat /\ DOMAIN active[r] = 1 .. Len(active[r])
      BY <1>0
    <2>3. /\ active'[r] \in Seq(Objects) /\ Len(active'[r]) = Len(active[r]) - k[r]
          /\ \A i \in 1 .. Len(active[r]) - k[r] : active'[r][i] = active[r][k[r] + i]
      <3>1. LET d == Drop(active[r], k[r])
            IN  /\ d \in Seq(Objects) /\ Len(d) = Len(active[r]) - k[r]
                /\ \A i \in 1 .. Len(active[r]) - k[r] : d[i] = active[r][k[r] + i]
        BY <2>1, <2>2, DropIs
      <3> QED BY <2>1, <3>1
    <2>4. DOMAIN active'[r] = 1 .. Len(active'[r])
      BY <2>3
    <2> QED BY <2>1, <2>2, <2>3, <2>4
  <1>5. ASSUME NEW r \in Rings, NEW i \in DOMAIN active'[r]
        PROVE  LET o == active'[r][i] IN o \in Objects /\ ring[o] = r /\ ring'[o] = r /\ lastRead'[o] = lastRead[o]
    <2> DEFINE j == k[r] + i
               o == active[r][j]
    <2>1. active'[r][i] = o /\ j \in DOMAIN active[r] /\ k[r] < j
      BY <1>4
    <2> HIDE DEF j
    <2>2. o \in Objects /\ ring[o] = r
      BY <2>1, Listed
    <2>3. ASSUME NEW p \in Rings, NEW m \in 1 .. k[p], active[p][m] = o PROVE FALSE
      <3>1. m \in DOMAIN active[p]
        BY <1>4
      <3>2. p = r
        BY <2>2, <2>3, <3>1, Listed
      <3>3. m = j
        BY <2>1, <2>3, <3>1, <3>2 DEF Listing, ListOK
      <3> QED BY <1>4, <2>1, <3>2, <3>3
    <2>4. o \notin Gone(k)
      BY <1>2, <2>3
    <2> QED BY <1>3, <2>1, <2>2, <2>4
  <1>6. ASSUME NEW r \in Rings, NEW o \in Objects PROVE ring'[o] = r <=> o \in Elements(active'[r])
    <2>1. ASSUME o \in Elements(active'[r]) PROVE ring'[o] = r
      BY <1>5, <2>1 DEF Elements
    <2>2. ASSUME ring'[o] = r PROVE o \in Elements(active'[r])
      <3>1. o \notin Gone(k) /\ ring[o] = r
        BY <1>3, <2>2 DEF NoRing, Rings
      <3>2. PICK j \in DOMAIN active[r] : active[r][j] = o
        BY <3>1 DEF Listing, Elements
      <3>3. ~(j \in 1 .. k[r])
        BY <1>2, <3>1, <3>2
      <3>4. j - k[r] \in DOMAIN active'[r] /\ k[r] + (j - k[r]) = j
        BY <1>4, <3>2, <3>3
      <3>5. active'[r][j - k[r]] = o
        BY <1>4, <3>2, <3>4
      <3> QED BY <3>4, <3>5 DEF Elements
    <2> QED BY <2>1, <2>2
  <1>7. ASSUME NEW r \in Rings PROVE ListOK(next, olr[r], Remaining(R)[r], active'[r], lastRead')
    <2>0. /\ \A i, j \in DOMAIN active[r] : active[r][i] = active[r][j] => i = j
          /\ \A i, j \in DOMAIN active[r] :
                 i < j => Age(next, lastRead[active[r][j]]) <= Age(next, lastRead[active[r][i]])
          /\ \A i \in DOMAIN active[r] : \/ lastRead[active[r][i]] = olr[r]
                                         \/ \E j \in DOMAIN requests[r] : requests[r][j].s = lastRead[active[r][i]]
      BY DEF Listing, ListOK
    <2>1. \A i, j \in DOMAIN active'[r] : active'[r][i] = active'[r][j] => i = j
      <3>1. SUFFICES ASSUME NEW i \in DOMAIN active'[r], NEW j \in DOMAIN active'[r], active'[r][i] = active'[r][j]
                     PROVE  i = j
        OBVIOUS
      <3>2. k[r] + i = k[r] + j
        BY <1>4, <2>0, <3>1
      <3> QED BY <1>4, <3>2
    <2>2. \A i, j \in DOMAIN active'[r] :
              i < j => Age(next, lastRead'[active'[r][j]]) <= Age(next, lastRead'[active'[r][i]])
      <3>1. SUFFICES ASSUME NEW i \in DOMAIN active'[r], NEW j \in DOMAIN active'[r], i < j
                     PROVE  Age(next, lastRead'[active'[r][j]]) <= Age(next, lastRead'[active'[r][i]])
        OBVIOUS
      <3>2. k[r] + i \in DOMAIN active[r] /\ k[r] + j \in DOMAIN active[r] /\ k[r] + i < k[r] + j
        BY <1>4, <3>1
      <3>3. /\ lastRead'[active'[r][i]] = lastRead[active[r][k[r] + i]]
            /\ lastRead'[active'[r][j]] = lastRead[active[r][k[r] + j]]
        BY <1>4, <1>5
      <3> QED BY <2>0, <3>2, <3>3
    <2>3. ASSUME NEW i \in DOMAIN active'[r]
          PROVE  \/ lastRead'[active'[r][i]] = olr[r]
                 \/ \E j \in DOMAIN Remaining(R)[r] : Remaining(R)[r][j].s = lastRead'[active'[r][i]]
      <3> DEFINE m == k[r] + i
                 s == lastRead[active[r][m]]
      <3>1. m \in DOMAIN active[r] /\ active'[r][i] = active[r][m] /\ lastRead'[active'[r][i]] = s /\ k[r] < m
        BY <1>4, <1>5
      <3> HIDE DEF m
      <3>2. s \in Seqnos \ {0} /\ Age(next, s) \in 1 .. Budget + 1
        BY <3>1, Listed
      <3>3. k[r] \in Nat /\ m \in Nat
        BY <1>4, <3>1
      <3> HIDE DEF s
      <3>4. CASE s = olr[r]
        BY <3>1, <3>4
      <3>5. ASSUME NEW j \in DOMAIN requests[r], requests[r][j].s = s
            PROVE  \E n \in DOMAIN Remaining(R)[r] : Remaining(R)[r][n].s = s
        <4>1. CASE Remaining(R)[r] = requests[r]
          BY <3>5, <4>1
        <4>2. ASSUME r \in R, NEW d \in 0 .. Len(requests[r]), Remaining(R)[r] = Drop(requests[r], d),
                     \A n \in 1 .. d : Done(r, requests[r][n].s)
              PROVE  \E n \in DOMAIN Remaining(R)[r] : Remaining(R)[r][n].s = s
          <5>1. requests[r] \in Seq(Reqs) /\ j \in 1 .. Len(requests[r]) /\ Len(requests[r]) \in Nat /\ requests[r] # <<>>
            BY <1>0, <3>5
          <5>2. ASSUME j \in 1 .. d PROVE FALSE
            <6>1. Done(r, s)
              BY <3>5, <4>2, <5>2
            <6>2. Age(next, hws[r]) <= Age(next, s)
              BY <3>2, <6>1, DoneByAge
            <6>3. m <= k[r]
              BY <1>1, <3>1, <4>2, <5>1, <6>2, RetireDone DEF s
            <6> QED BY <3>1, <3>3, <6>3
          <5>3. /\ Drop(requests[r], d) \in Seq(Reqs) /\ Len(Drop(requests[r], d)) = Len(requests[r]) - d
                /\ \A n \in 1 .. Len(requests[r]) - d : Drop(requests[r], d)[n] = requests[r][d + n]
            BY <5>1, DropIs
          <5>4. j - d \in 1 .. Len(requests[r]) - d /\ d + (j - d) = j
            BY <5>1, <5>2
          <5>5. Drop(requests[r], d)[j - d] = requests[r][j] /\ j - d \in DOMAIN Drop(requests[r], d)
            BY <5>3, <5>4
          <5> QED BY <3>5, <4>2, <5>5
        <4>3. \/ r \notin R /\ Remaining(R)[r] = requests[r]
              \/ r \in R /\ \E d \in 0 .. Len(requests[r]) :
                     /\ Remaining(R)[r] = Drop(requests[r], d)
                     /\ \A n \in 1 .. d : Done(r, requests[r][n].s)
          BY <1>0, RemainingIs
        <4> QED BY <4>1, <4>2, <4>3
      <3> QED BY <2>0, <3>1, <3>4, <3>5 DEF s
    <2> QED BY <2>1, <2>2, <2>3 DEF ListOK
  <1> QED BY <1>1, <1>6, <1>7

-----------------------------------------------------------------------------
(* The active lists, step by step                                          *)

\* A lazy request becomes one in the list.
LEMMA ListAdd ==
    ASSUME NEW n, NEW o, NEW q \in Seq(Reqs), NEW a, NEW lr, ListOK(n, o, q, a, lr), NEW e \in Reqs, e.s = o, NEW o2
    PROVE  ListOK(n, o2, Append(q, e), a, lr)
  <1> DEFINE q2 == Append(q, e)
  <1>1. /\ DOMAIN q2 = 1 .. Len(q) + 1 /\ DOMAIN q = 1 .. Len(q) /\ Len(q) \in Nat
        /\ q2[Len(q) + 1] = e /\ \A j \in DOMAIN q : q2[j] = q[j]
    OBVIOUS
  <1> HIDE DEF q2
  <1>2. ASSUME NEW i \in DOMAIN a PROVE \E j \in DOMAIN q2 : q2[j].s = lr[a[i]]
    <2>1. CASE lr[a[i]] = o
      <3>1. Len(q) + 1 \in DOMAIN q2 /\ q2[Len(q) + 1].s = lr[a[i]]
        BY <1>1, <2>1
      <3> QED BY <3>1
    <2>2. ASSUME NEW j \in DOMAIN q, q[j].s = lr[a[i]] PROVE \E m \in DOMAIN q2 : q2[m].s = lr[a[i]]
      <3>1. j \in DOMAIN q2 /\ q2[j].s = lr[a[i]]
        BY <1>1, <2>2
      <3> QED BY <3>1
    <2> QED BY <2>1, <2>2 DEF ListOK
  <1> QED BY <1>2 DEF ListOK, q2

\* A seqno is taken, or the seqnos restart: the order of those in use stays.
LEMMA ListAges ==
    ASSUME NEW n, NEW m, NEW o, NEW q, NEW a, NEW lr, ListOK(n, o, q, a, lr), NEW o2,
           \A i, j \in DOMAIN a : Age(n, lr[a[j]]) <= Age(n, lr[a[i]]) => Age(m, lr[a[j]]) <= Age(m, lr[a[i]]),
           o2 = o \/ \A i \in DOMAIN a : lr[a[i]] # o
    PROVE  ListOK(m, o2, q, a, lr)
  <1>1. \A i, j \in DOMAIN a : a[i] = a[j] => i = j
    BY DEF ListOK
  <1>2. \A i, j \in DOMAIN a : i < j => Age(m, lr[a[j]]) <= Age(m, lr[a[i]])
    BY DEF ListOK
  <1>3. \A i \in DOMAIN a : lr[a[i]] = o2 \/ \E j \in DOMAIN q : q[j].s = lr[a[i]]
    BY DEF ListOK
  <1> QED BY <1>1, <1>2, <1>3 DEF ListOK

\* Sequence w is q without element o, and g says where its elements were.
Embeds(g, w, q, o) ==
    /\ \A i \in DOMAIN w : w[i] = q[g[i]] /\ q[g[i]] # o
    /\ \A i, j \in DOMAIN w : i < j => g[i] < g[j]
    /\ \A j \in DOMAIN q : q[j] # o => \E i \in DOMAIN w : g[i] = j

\* An element of a sequence is taken out, the others keep their order.
LEMMA WithoutIs ==
    ASSUME NEW S, NEW q \in Seq(S), \A i, j \in DOMAIN q : q[i] = q[j] => i = j, NEW o
    PROVE  /\ Without(q, o) \in Seq(S)
           /\ \E g \in [DOMAIN Without(q, o) -> DOMAIN q] : Embeds(g, Without(q, o), q, o)
  <1> DEFINE w == Without(q, o)
  <1>0. Len(q) \in Nat /\ DOMAIN q = 1 .. Len(q)
    OBVIOUS
  <1>1. CASE o \notin Elements(q)
    <2>1. w = q
      BY <1>1 DEF Without
    <2>2. \A i \in DOMAIN q : q[i] # o
      BY <1>1 DEF Elements
    <2> DEFINE g == [i \in DOMAIN q |-> i]
    <2>3. g \in [DOMAIN w -> DOMAIN q] /\ \A i \in DOMAIN q : g[i] = i
      BY <2>1
    <2> HIDE DEF w, g
    <2>4. /\ \A i \in DOMAIN w : w[i] = q[g[i]] /\ q[g[i]] # o
          /\ \A i, j \in DOMAIN w : i < j => g[i] < g[j]
          /\ \A j \in DOMAIN q : q[j] # o => \E i \in DOMAIN w : g[i] = j
      BY <2>1, <2>2, <2>3
    <2> QED BY <2>1, <2>3, <2>4 DEF w, Embeds
  <1>2. CASE o \in Elements(q)
    <2> DEFINE P(i) == q[i] = o
               p == CHOOSE i \in DOMAIN q : P(i)
               a == SubSeq(q, 1, p - 1)
               b == SubSeq(q, p + 1, Len(q))
    <2>1. \E i \in DOMAIN q : P(i)
      BY <1>2 DEF Elements
    <2>2. p \in DOMAIN q /\ P(p)
      <3> HIDE DEF P
      <3> QED BY <2>1
    <2>3. w = a \o b
      BY <1>2 DEF Without
    <2>4. p \in 1 .. Len(q) /\ q[p] = o
      BY <1>0, <2>2
    <2> HIDE DEF p, P
    <2>5. a \in Seq(S) /\ Len(a) = p - 1 /\ \A k \in 1 .. p - 1 : a[k] = q[k]
      BY <2>4
    <2>6. b \in Seq(S) /\ Len(b) = Len(q) - p /\ \A k \in 1 .. Len(q) - p : b[k] = q[p + k]
      BY <2>4
    <2> HIDE DEF a, b, w
    <2>7. w \in Seq(S) /\ Len(w) = Len(q) - 1 /\ DOMAIN w = 1 .. Len(q) - 1
      <3>1. w \in Seq(S) /\ Len(w) = Len(a) + Len(b)
        BY <2>3, <2>5, <2>6, ConcatProperties
      <3> QED BY <1>0, <2>4, <2>5, <2>6, <3>1
    <2> DEFINE g == [k \in DOMAIN w |-> IF k < p THEN k ELSE k + 1]
    <2>8. g \in [DOMAIN w -> DOMAIN q] /\ \A k \in DOMAIN w : g[k] = IF k < p THEN k ELSE k + 1
      BY <1>0, <2>4, <2>7
    <2>9. ASSUME NEW k \in DOMAIN w PROVE w[k] = IF k < p THEN q[k] ELSE q[k + 1]
      <3>0. /\ Len(q) \in Nat /\ k \in Nat /\ p \in Nat
            /\ w[k] = IF k <= Len(a) THEN a[k] ELSE b[k - Len(a)]
        <4>1. k \in 1 .. Len(a) + Len(b)
          BY <1>0, <2>4, <2>5, <2>6, <2>7
        <4>2. \A j \in 1 .. Len(a) + Len(b) : (a \o b)[j] = IF j <= Len(a) THEN a[j] ELSE b[j - Len(a)]
          BY <2>5, <2>6, ConcatProperties, Zenon
        <4>3. w[k] = IF k <= Len(a) THEN a[k] ELSE b[k - Len(a)]
          BY <2>3, <4>1, <4>2, Zenon
        <4>4. Len(q) \in Nat /\ k \in Nat /\ p \in Nat
          BY <1>0, <2>4, <2>7
        <4> QED BY <4>3, <4>4, Zenon
      <3>1. CASE k < p
        <4>1. k <= Len(a) /\ k \in 1 .. p - 1
          BY <2>5, <2>7, <3>0, <3>1
        <4>2. w[k] = a[k]
          BY <3>0, <4>1, Zenon
        <4>3. a[k] = q[k]
          BY <2>5, <4>1, Zenon
        <4> QED BY <3>1, <4>2, <4>3, Zenon
      <3>2. CASE ~(k < p)
        <4>1. ~(k <= Len(a)) /\ k - Len(a) \in 1 .. Len(q) - p /\ p + (k - Len(a)) = k + 1
          BY <2>4, <2>5, <2>7, <3>0, <3>2
        <4>2. w[k] = b[k - Len(a)]
          BY <3>0, <4>1, Zenon
        <4>3. b[k - Len(a)] = q[p + (k - Len(a))]
          BY <2>6, <4>1, Zenon
        <4> QED BY <3>2, <4>1, <4>2, <4>3, Zenon
      <3> QED BY <3>1, <3>2
    <2> HIDE DEF g
    <2>10. ASSUME NEW i \in DOMAIN w PROVE w[i] = q[g[i]] /\ q[g[i]] # o
      <3>1. w[i] = q[g[i]]
        BY <2>8, <2>9
      <3>2. g[i] \in DOMAIN q /\ g[i] # p
        BY <2>4, <2>7, <2>8
      <3> QED BY <1>0, <2>4, <3>1, <3>2
    <2>11. \A i, j \in DOMAIN w : i < j => g[i] < g[j]
      BY <2>4, <2>7, <2>8
    <2>12. ASSUME NEW j \in DOMAIN q, q[j] # o PROVE \E i \in DOMAIN w : g[i] = j
      <3>1. j # p /\ j \in 1 .. Len(q)
        BY <1>0, <2>4, <2>12
      <3>2. CASE j < p
        <4>1. j \in DOMAIN w /\ g[j] = j
          BY <1>0, <2>4, <2>7, <2>8, <3>1, <3>2
        <4> QED BY <4>1
      <3>3. CASE j > p
        <4>1. j - 1 \in DOMAIN w /\ g[j - 1] = j
          BY <1>0, <2>4, <2>7, <2>8, <3>1, <3>3
        <4> QED BY <4>1
      <3> QED BY <2>4, <3>1, <3>2, <3>3
    <2> QED BY <2>7, <2>8, <2>10, <2>11, <2>12 DEF w, Embeds
  <1> QED BY <1>1, <1>2

\* The object of an execbuffer goes to the tail of the list of its ring.
LEMMA ListMove ==
    ASSUME GemAssumption, GemInv, Listing, NEW o \in Objects, NEW r \in Rings, olr[r] # 0,
           ring' = [ring EXCEPT ![o] = r], active' = MoveTail(o, r), lastRead' = [lastRead EXCEPT ![o] = olr[r]]
    PROVE  /\ active' \in [Rings -> Seq(Objects)]
           /\ \A p \in Rings : \A x \in Objects : ring'[x] = p <=> x \in Elements(active'[p])
           /\ \A p \in Rings : ListOK(next, olr[p], requests[p], active'[p], lastRead')
  <1>0. /\ active \in [Rings -> Seq(Objects)] /\ ring \in [Objects -> Rings \cup {NoRing}]
        /\ lastRead \in [Objects -> Seqnos] /\ olr \in [Rings -> Seqnos]
    BY DEF Listing, GemInv, Lazy
  <1> DEFINE w(p) == Without(active[p], o)
  <1>1. ASSUME NEW p \in Rings
        PROVE  /\ w(p) \in Seq(Objects)
               /\ \A i \in DOMAIN w(p) : /\ w(p)[i] \in Objects /\ w(p)[i] # o /\ ring'[w(p)[i]] = p
                                         /\ lastRead'[w(p)[i]] = lastRead[w(p)[i]]
               /\ \A x \in Objects : ring[x] = p /\ x # o => \E i \in DOMAIN w(p) : w(p)[i] = x
               /\ ListOK(next, olr[p], requests[p], w(p), lastRead')
    <2>1. /\ \A i, j \in DOMAIN active[p] : active[p][i] = active[p][j] => i = j
          /\ \A i, j \in DOMAIN active[p] :
                 i < j => Age(next, lastRead[active[p][j]]) <= Age(next, lastRead[active[p][i]])
          /\ \A i \in DOMAIN active[p] : \/ lastRead[active[p][i]] = olr[p]
                                         \/ \E j \in DOMAIN requests[p] : requests[p][j].s = lastRead[active[p][i]]
      BY DEF Listing, ListOK
    <2> DEFINE W == w(p)
    <2>2. active[p] \in Seq(Objects)
      BY <1>0
    <2>3. /\ W \in Seq(Objects)
          /\ \E g \in [DOMAIN W -> DOMAIN active[p]] : Embeds(g, W, active[p], o)
      <3>1. \A i, j \in DOMAIN active[p] : active[p][i] = active[p][j] => i = j
        BY <2>1
      <3> QED BY <2>2, <3>1, WithoutIs, Zenon
    <2> HIDE DEF W, w
    <2>4. PICK g \in [DOMAIN W -> DOMAIN active[p]] :
                  /\ \A i \in DOMAIN W : W[i] = active[p][g[i]] /\ active[p][g[i]] # o
                  /\ \A i, j \in DOMAIN W : i < j => g[i] < g[j]
                  /\ \A j \in DOMAIN active[p] : active[p][j] # o => \E i \in DOMAIN W : g[i] = j
      BY <2>3 DEF Embeds
    <2>5. ASSUME NEW i \in DOMAIN W
          PROVE  W[i] \in Objects /\ W[i] # o /\ ring'[W[i]] = p /\ lastRead'[W[i]] = lastRead[W[i]]
      <3>1. g[i] \in DOMAIN active[p] /\ W[i] = active[p][g[i]] /\ W[i] # o
        BY <2>4
      <3>2. W[i] \in Objects /\ ring[W[i]] = p
        BY <3>1, Listed
      <3> QED BY <1>0, <3>1, <3>2
    <2>6. ASSUME NEW x \in Objects, ring[x] = p, x # o PROVE \E i \in DOMAIN W : W[i] = x
      <3>1. PICK j \in DOMAIN active[p] : active[p][j] = x
        BY <2>6 DEF Listing, Elements
      <3>2. PICK i \in DOMAIN W : g[i] = j
        BY <2>4, <2>6, <3>1
      <3> QED BY <2>4, <3>1, <3>2
    <2>7. \A i, j \in DOMAIN W : W[i] = W[j] => i = j
      <3>1. SUFFICES ASSUME NEW i \in DOMAIN W, NEW j \in DOMAIN W, W[i] = W[j] PROVE i = j
        OBVIOUS
      <3>2. g[i] = g[j] /\ g[i] \in DOMAIN active[p] /\ DOMAIN active[p] = 1 .. Len(active[p]) /\ Len(active[p]) \in Nat
        BY <2>1, <2>2, <2>4, <3>1
      <3>3. DOMAIN W = 1 .. Len(W) /\ Len(W) \in Nat
        BY <2>3
      <3> QED BY <2>4, <3>2, <3>3
    <2>8. \A i, j \in DOMAIN W : i < j => Age(next, lastRead'[W[j]]) <= Age(next, lastRead'[W[i]])
      BY <2>1, <2>4, <2>5
    <2>9. \A i \in DOMAIN W : lastRead'[W[i]] = olr[p] \/ \E j \in DOMAIN requests[p] : requests[p][j].s = lastRead'[W[i]]
      BY <2>1, <2>4, <2>5
    <2>10. ListOK(next, olr[p], requests[p], W, lastRead')
      BY <2>7, <2>8, <2>9 DEF ListOK
    <2> QED BY <2>3, <2>5, <2>6, <2>10 DEF W
  <1>2. active' = [p \in Rings |-> IF p = r THEN Append(w(p), o) ELSE w(p)]
    BY DEF MoveTail
  <1> HIDE DEF w
  <1>3. active' \in [Rings -> Seq(Objects)]
    BY <1>1, <1>2
  <1>4. r # NoRing /\ ring'[o] = r /\ lastRead'[o] = olr[r]
    BY <1>0 DEF Rings, NoRing
  <1>5. ASSUME NEW p \in Rings, p # r
        PROVE  /\ \A x \in Objects : ring'[x] = p <=> x \in Elements(active'[p])
               /\ ListOK(next, olr[p], requests[p], active'[p], lastRead')
    <2>1. active'[p] = w(p)
      BY <1>2, <1>5
    <2>2. \A x \in Objects : ring'[x] = p => x # o /\ ring[x] = p
      BY <1>0, <1>4, <1>5
    <2>3. ASSUME NEW x \in Objects, ring'[x] = p PROVE x \in Elements(w(p))
      <3>1. PICK i \in DOMAIN w(p) : w(p)[i] = x
        BY <1>1, <2>2, <2>3
      <3> QED BY <3>1 DEF Elements
    <2>4. ASSUME NEW x \in Objects, x \in Elements(w(p)) PROVE ring'[x] = p
      <3>1. PICK i \in DOMAIN w(p) : w(p)[i] = x
        BY <2>4 DEF Elements
      <3> QED BY <1>1, <3>1
    <2>5. \A x \in Objects : ring'[x] = p <=> x \in Elements(active'[p])
      BY <2>1, <2>3, <2>4
    <2>6. ListOK(next, olr[p], requests[p], active'[p], lastRead')
      <3>1. ListOK(next, olr[p], requests[p], w(p), lastRead')
        BY <1>1, Zenon
      <3> QED BY <2>1, <3>1, Zenon
    <2> QED BY <2>5, <2>6
  <1>6. /\ \A x \in Objects : ring'[x] = r <=> x \in Elements(active'[r])
        /\ ListOK(next, olr[r], requests[r], active'[r], lastRead')
    <2> DEFINE W == w(r)
               a == active'[r]
    <2>1. a = Append(W, o)
      BY <1>2
    <2>2. /\ W \in Seq(Objects)
          /\ \A i \in DOMAIN W : /\ W[i] \in Objects /\ W[i] # o /\ ring'[W[i]] = r
                                 /\ lastRead'[W[i]] = lastRead[W[i]]
          /\ \A x \in Objects : ring[x] = r /\ x # o => \E i \in DOMAIN W : W[i] = x
          /\ ListOK(next, olr[r], requests[r], W, lastRead')
      BY <1>1
    <2> HIDE DEF W
    <2>3. /\ DOMAIN a = 1 .. Len(W) + 1 /\ Len(W) \in Nat /\ DOMAIN W = 1 .. Len(W)
          /\ a[Len(W) + 1] = o /\ \A i \in DOMAIN W : a[i] = W[i]
      BY <2>1, <2>2
    <2> HIDE DEF a
    <2>4. ASSUME NEW x \in Objects PROVE ring'[x] = r <=> x \in Elements(a)
      <3>1. CASE x = o
        <4>1. Len(W) + 1 \in DOMAIN a
          BY <2>3
        <4> QED BY <1>4, <2>3, <3>1, <4>1 DEF Elements
      <3>2. ASSUME x # o, ring'[x] = r PROVE x \in Elements(a)
        <4>1. ring[x] = r
          BY <1>0, <3>2
        <4>2. PICK i \in DOMAIN W : W[i] = x
          BY <2>2, <3>2, <4>1
        <4>3. i \in DOMAIN a /\ a[i] = x
          BY <2>3, <4>2
        <4> QED BY <4>3 DEF Elements
      <3>3. ASSUME x # o, x \in Elements(a) PROVE ring'[x] = r
        <4>1. PICK i \in DOMAIN a : a[i] = x
          BY <3>3 DEF Elements
        <4>2. i \in DOMAIN W
          BY <2>3, <3>3, <4>1
        <4> QED BY <2>2, <2>3, <4>1, <4>2
      <3> QED BY <3>1, <3>2, <3>3
    <2>5. \A i, j \in DOMAIN a : a[i] = a[j] => i = j
      <3>1. \A i, j \in DOMAIN W : W[i] = W[j] => i = j
        BY <2>2 DEF ListOK
      <3> QED BY <2>2, <2>3, <3>1
    <2>6. ASSUME NEW i \in DOMAIN a, NEW j \in DOMAIN a, i < j
          PROVE  Age(next, lastRead'[a[j]]) <= Age(next, lastRead'[a[i]])
      <3>1. i \in DOMAIN W /\ a[i] = W[i]
        BY <2>3, <2>6
      <3>2. CASE j \in DOMAIN W
        BY <2>2, <2>3, <2>6, <3>1, <3>2 DEF ListOK
      <3>3. CASE j = Len(W) + 1
        <4>1. lastRead'[a[j]] = olr[r]
          BY <1>4, <2>3, <3>3
        <4>2. RingOK(next, Budget, olr[r], requests[r], hw[r], hws[r]) /\ next \in Seqnos
          BY DEF GemInv, Sequencing
        <4>3. Age(next, olr[r]) \in Nat
          BY <1>0, <4>2, AgeType
        <4>4. lastRead'[W[i]] = olr[r] \/ \E m \in DOMAIN requests[r] : requests[r][m].s = lastRead'[W[i]]
          BY <2>2, <3>1 DEF ListOK
        <4>5. \A m \in DOMAIN requests[r] : Age(next, olr[r]) <= Age(next, requests[r][m].s)
          <5>1. \A m \in DOMAIN requests[r] : /\ Age(next, olr[r]) < Age(next, requests[r][m].s)
                                              /\ Age(next, requests[r][m].s) \in 1 .. Budget + 1
            BY <4>2 DEF RingOK
          <5> QED BY <4>3, <5>1
        <4>6. Age(next, olr[r]) <= Age(next, olr[r])
          BY <4>3
        <4> QED BY <3>1, <4>1, <4>4, <4>5, <4>6
      <3> QED BY <2>3, <3>2, <3>3
    <2>7. ASSUME NEW i \in DOMAIN a
          PROVE  lastRead'[a[i]] = olr[r] \/ \E m \in DOMAIN requests[r] : requests[r][m].s = lastRead'[a[i]]
      <3>1. CASE i \in DOMAIN W
        BY <2>2, <2>3, <3>1 DEF ListOK
      <3>2. CASE i = Len(W) + 1
        BY <1>4, <2>3, <3>2
      <3> QED BY <2>3, <3>1, <3>2
    <2>8. ListOK(next, olr[r], requests[r], a, lastRead')
      BY <2>5, <2>6, <2>7 DEF ListOK
    <2> QED BY <2>4, <2>8 DEF a
  <1> QED BY <1>3, <1>5, <1>6

-----------------------------------------------------------------------------
(* What a step may do to the rings and the objects                         *)

Stays == UNCHANGED <<next, olr, requests, active, ring, lastRead, lastWrite, hw, hws>>

Adds == /\ ~wedged /\ UNCHANGED <<next, active, ring, lastRead, lastWrite, hws>>
        /\ \E r \in Rings, f \in Threads \cup {Nobody} : olr[r] # 0 /\ AddRequest(r, f)

Takes == /\ next' = (Taken(next) + 1) % Mod /\ Budget' = Budget + 1
         /\ \E r \in Rings : olr[r] = 0 /\ olr' = [olr EXCEPT ![r] = Taken(next)]
         /\ UNCHANGED <<requests, active, ring, lastRead, lastWrite, hw, hws>>

\* The objects that lose their last_write_seqno though they are not retired
Clears(W) ==
    \/ W = {}
    \/ \E t \in Threads : /\ W = {th[t].obj} /\ th[t].pc \in {"rendered", "relock"} /\ th[t].s # 0
                          /\ lastWrite[th[t].obj] # 0 /\ Passed(th[t].s, lastWrite[th[t].obj])

Retires == /\ next' = next \/ (next = 0 /\ next' = 1)
           /\ \E R \in SUBSET (Rings \cup {NoRing}) : \E W \in SUBSET (Objects \cup {NoObject}) : Retire(R, W) /\ Clears(W)
           /\ UNCHANGED <<olr, hw, hws>>

\* A seqno is taken or the seqnos restart: those in use age alike.
LEMMA AgesAlike ==
    ASSUME GemAssumption, FewBatches, GemInv, GemInv', Budget <= Budget',
           \/ next' = next
           \/ next = 0 /\ next' = 1
           \/ next' = (Taken(next) + 1) % Mod /\ Budget' = Budget + 1
    PROVE  \E d \in {0, 1} : /\ Budget + d <= Budget'
                             /\ \A s \in Seqnos : Age(next, s) \in 1 .. Budget + 1 => Age(next', s) = Age(next, s) + d
  <1>1. Mod >= 6 /\ next \in Seqnos /\ Budget \in Nat /\ Budget + 1 < Mod - 1 /\ Mod \in Nat
    BY Room, BudgetRoom DEF GemInv, Sequencing
  <1>2. \A s \in Seqnos : Age(next, s) \in Nat
    BY <1>1, AgeType
  <1>3. CASE next' = next
    <2>1. \A s \in Seqnos : Age(next', s) = Age(next, s) + 0
      BY <1>2, <1>3
    <2> QED BY <1>1, <2>1
  <1>4. CASE next = 0 /\ next' = 1
    <2>1. ASSUME NEW s \in Seqnos, Age(next, s) \in 1 .. Budget + 1 PROVE Age(next', s) = Age(next, s) + 0
      <3>1. Age(0, s) < Mod
        BY <1>1, <1>4, <2>1
      <3>2. Age(1, s) = Age(0, s)
        BY <1>1, <3>1, AgeRestart
      <3> QED BY <1>2, <1>4, <3>2
    <2> QED BY <1>1, <2>1
  <1>5. CASE next' = (Taken(next) + 1) % Mod /\ Budget' = Budget + 1
    <2>1. \A s \in Seqnos : Age(next, s) < Mod - 1 => Age(next', s) = Age(next, s) + 1
      BY <1>1, <1>5, AgeTake
    <2>2. \A s \in Seqnos : Age(next, s) \in 1 .. Budget + 1 => Age(next', s) = Age(next, s) + 1
      BY <1>1, <2>1
    <2> QED BY <1>1, <1>5, <2>2
  <1> QED BY <1>3, <1>4, <1>5

\* i915_gem_check_olr adds the lazy request, if it adds one.
LEMMA CheckOlrKind ==
    ASSUME GemAssumption, NEW r \in Rings, NEW s, s # 0, CheckOlr(r, s), ~wedged \/ s # olr[r],
           UNCHANGED <<next, active, ring, lastRead, lastWrite, hws>>
    PROVE  Stays \/ Adds
  <1>1. CASE s = olr[r]
    BY <1>1 DEF CheckOlr, Adds
  <1>2. CASE s # olr[r]
    BY <1>2 DEF CheckOlr, Stays
  <1> QED BY <1>1, <1>2

\* A wait for a seqno at most adds the lazy request to its ring.
LEMMA WaitSeqnoKind ==
    ASSUME GemAssumption, NEW t \in Threads, NEW r \in Rings, NEW s, s # 0, NEW then, WaitSeqno(t, r, s, then),
           UNCHANGED <<next, active, ring, lastRead, lastWrite, hws>>
    PROVE  Stays \/ Adds
  <1>1. CASE wedged
    BY <1>1 DEF WaitSeqno, Stays
  <1>2. CASE ~wedged
    BY <1>2, CheckOlrKind DEF WaitSeqno
  <1> QED BY <1>1, <1>2

\* The steps that do nothing to the rings
LEMMA StayKinds ==
    ASSUME \/ \E t \in Threads : \/ Start(t) \/ Throttle(t) \/ LockMutex(t) \/ Access(t) \/ AddFails(t)
                                 \/ WaitCheck(t) \/ WaitCond(t) \/ WaitSleep(t) \/ WaitExpires(t) \/ WaitInterrupted(t)
           \/ \E r \in Rings : Hang(r) \/ NotifyRing(r)
           \/ HangcheckElapsed \/ Unwedge \/ CompleteAll \/ UNCHANGED vars
    PROVE  Stays
  BY DEF Stays, Start, Throttle, LockMutex, Access, AddFails, WaitCheck, WaitCond, WaitSleep, WaitExpires, WaitInterrupted,
         waitFrame, Hang, NotifyRing, HangcheckElapsed, Unwedge, CompleteAll, vars, gemVars, seqVars, gpuVars

\* The steps of a thread that waits, retires or dispatches
LEMMA ThreadKinds ==
    ASSUME GemAssumption, FewBatches, GemInv, NEW t \in Threads,
           \/ WaitRendering(t) \/ Rendered(t) \/ Nonblocking(t) \/ Relock(t) \/ FlushOlr(t) \/ FlushRetire(t)
           \/ ObjectSync(t) \/ RingBegin(t) \/ IdleRing(t) \/ Wrapped(t) \/ WaitForSpace(t) \/ Request(t)
    PROVE  Stays \/ Adds \/ Takes \/ Retires
  <1> DEFINE o == th[t].obj
             F == UNCHANGED <<next, active, ring, lastRead, lastWrite, hws>>
  <1>0. \A r \in Rings : requests[r] \in Seq(Reqs)
    BY DEF GemInv, Sequencing
  <1>1. /\ RecOK(th[t]) /\ th[t] \in ThreadRec /\ th[t].obj \in Objects \cup {NoObject}
        /\ \A x \in Objects : ring[x] # NoRing => ring[x] \in Rings /\ lastRead[x] # 0
        /\ \A x \in Objects : /\ lastRead[x] # 0 \/ lastWrite[x] # 0 => ring[x] \in Rings
                              /\ ring[x] \in Rings \cup {NoRing}
    BY ThreadFacts DEF GemInv, Lazy, ThreadRec
  <1>2. th[t].pc \in {"render", "nonblock", "flush", "flushed", "sync"} => o \in Objects
    BY <1>1 DEF RecOK, Holds, HoldPCs
  <1>3. CASE WaitRendering(t)
    <2>1. F /\ o \in Objects
      BY <1>2, <1>3 DEF WaitRendering, At
    <2>2. CASE RenderSeqno(t) = 0
      BY <1>3, <2>1, <2>2 DEF WaitRendering, Stays
    <2>3. CASE RenderSeqno(t) # 0
      <3>1. ring[o] \in Rings /\ WaitSeqno(t, ring[o], RenderSeqno(t), "rendered")
        BY <1>1, <1>3, <2>1, <2>3 DEF WaitRendering, RenderSeqno
      <3> QED BY <2>1, <2>3, <3>1, WaitSeqnoKind
    <2> QED BY <2>2, <2>3
  <1>4. CASE Nonblocking(t)
    <2>1. F /\ o \in Objects
      BY <1>2, <1>4 DEF Nonblocking, At
    <2>2. CASE RenderSeqno(t) = 0 \/ wedged
      BY <1>4, <2>1, <2>2 DEF Nonblocking, Stays
    <2>3. CASE RenderSeqno(t) # 0 /\ ~wedged
      <3>1. ring[o] \in Rings /\ CheckOlr(ring[o], RenderSeqno(t))
        BY <1>1, <1>4, <2>1, <2>3 DEF Nonblocking, RenderSeqno
      <3> QED BY <2>1, <2>3, <3>1, CheckOlrKind
    <2> QED BY <2>2, <2>3
  <1>5. CASE FlushOlr(t)
    <2>1. F /\ o \in Objects
      BY <1>2, <1>5 DEF FlushOlr, At
    <2>2. \/ UNCHANGED <<requests, hw, olr>>
          \/ /\ ring[o] # NoRing /\ ~(lastRead[o] = olr[ring[o]] /\ wedged) /\ CheckOlr(ring[o], lastRead[o])
      BY <1>5 DEF FlushOlr
    <2>3. CASE UNCHANGED <<requests, hw, olr>>
      BY <2>1, <2>3 DEF Stays
    <2> QED BY <1>1, <2>1, <2>2, <2>3, CheckOlrKind
  <1>6. CASE ObjectSync(t)
    <2>1. F /\ o \in Objects
      BY <1>2, <1>6 DEF ObjectSync, At
    <2>2. \/ UNCHANGED <<requests, hw, olr>>
          \/ /\ ring[o] # NoRing /\ ~(wedged /\ lastRead[o] = olr[ring[o]]) /\ CheckOlr(ring[o], lastRead[o])
      BY <1>6 DEF ObjectSync
    <2>3. CASE UNCHANGED <<requests, hw, olr>>
      BY <2>1, <2>3 DEF Stays
    <2> QED BY <1>1, <2>1, <2>2, <2>3, CheckOlrKind
  <1>7. CASE Rendered(t) \/ Relock(t)
    <2>1. /\ next' = next /\ UNCHANGED <<olr, hw, hws>> /\ FinishRendering(t)
          /\ th[t].pc \in {"rendered", "relock"}
      BY <1>7 DEF Rendered, Relock, At, seqVars, gpuVars
    <2> DEFINE W == IF th[t].s # 0 /\ lastWrite[o] # 0 /\ Passed(th[t].s, lastWrite[o]) THEN {o} ELSE {}
    <2>2. Retire({th[t].on}, W) /\ Clears(W)
      BY <2>1 DEF FinishRendering, Clears
    <2>3. {th[t].on} \in SUBSET (Rings \cup {NoRing}) /\ W \in SUBSET (Objects \cup {NoObject})
      BY <1>1 DEF ThreadRec
    <2> HIDE DEF W
    <2> QED BY <2>1, <2>2, <2>3 DEF Retires
  <1>8. CASE FlushRetire(t)
    <2>1. /\ next' = next /\ UNCHANGED <<olr, hw, hws>> /\ Retire({ring[o]}, {}) /\ o \in Objects
      BY <1>2, <1>8 DEF FlushRetire, At, seqVars, gpuVars
    <2>2. {ring[o]} \in SUBSET (Rings \cup {NoRing}) /\ {} \in SUBSET (Objects \cup {NoObject}) /\ Clears({})
      BY <1>1, <2>1 DEF Clears
    <2> QED BY <2>1, <2>2 DEF Retires
  <1>9. CASE RingBegin(t)
    <2>1. UNCHANGED <<requests, active, ring, lastRead, lastWrite, hw, hws>>
      BY <1>9 DEF RingBegin, gemVars, gpuVars
    <2>2. \/ UNCHANGED <<olr, next>>
          \/ /\ olr[th[t].to] = 0 /\ olr' = [olr EXCEPT ![th[t].to] = Taken(next)] /\ next' = (Taken(next) + 1) % Mod
             /\ th[t].pc = "begin"
      BY <1>9 DEF RingBegin, Taken, At
    <2>3. next' = next \/ Budget' = Budget + 1
      BY <1>9, RingBeginStep
    <2>4. CASE UNCHANGED <<olr, next>>
      BY <2>1, <2>4 DEF Stays
    <2>5. CASE /\ olr[th[t].to] = 0 /\ olr' = [olr EXCEPT ![th[t].to] = Taken(next)] /\ next' = (Taken(next) + 1) % Mod
               /\ th[t].pc = "begin"
      <3>1. th[t].to \in Rings
        BY <1>1, <2>5 DEF RecOK
      <3>2. next' # next
        <4>1. Mod >= 6 /\ Mod \in Nat /\ next \in 0 .. Mod - 1
          BY Room DEF GemInv, Sequencing, Seqnos
        <4>2. Age(next', Taken(next)) = 1 /\ Taken(next) \in Seqnos
          BY <2>5, <4>1, AgeTake DEF Seqnos
        <4> QED BY <4>1, <4>2 DEF Age, Taken, Seqnos
      <3> QED BY <2>1, <2>3, <2>5, <3>1, <3>2 DEF Takes
    <2> QED BY <2>2, <2>4, <2>5
  <1>10. CASE IdleRing(t)
    <2> DEFINE r == th[t].on
    <2>1. F /\ r \in Rings
      BY <1>1, <1>10 DEF IdleRing, At, RecOK, Wraps
    <2>2. \/ UNCHANGED <<requests, hw, olr>>
          \/ ~wedged /\ olr[r] # 0 /\ AddRequest(r, Nobody)
          \/ requests[r] # <<>> /\ WaitSeqno(t, r, requests[r][Len(requests[r])].s, "wrapped")
      BY <1>10 DEF IdleRing
    <2>3. CASE UNCHANGED <<requests, hw, olr>>
      BY <2>1, <2>3 DEF Stays
    <2>4. CASE ~wedged /\ olr[r] # 0 /\ AddRequest(r, Nobody)
      BY <2>1, <2>4 DEF Adds
    <2>5. CASE requests[r] # <<>> /\ WaitSeqno(t, r, requests[r][Len(requests[r])].s, "wrapped")
      <3>1. requests[r][Len(requests[r])] \in Reqs
        BY <1>0, <2>1, <2>5
      <3>2. requests[r][Len(requests[r])].s # 0
        BY <3>1 DEF Reqs
      <3> QED BY <2>1, <2>5, <3>2, WaitSeqnoKind
    <2> QED BY <2>2, <2>3, <2>4, <2>5
  <1>11. CASE Wrapped(t)
    <2>1. UNCHANGED <<olr, hw, hws>> /\ next = 0
      <3>1. Wraps(th[t])
        BY <1>11 DEF Wrapped, At, Wraps
      <3> QED BY <1>11, <3>1, ThreadFacts DEF Wrapped, gpuVars
    <2>2. CASE ~LastRing(th[t].on)
      BY <1>11, <2>1, <2>2 DEF Wrapped, Stays, gemVars
    <2>3. CASE LastRing(th[t].on)
      <3>1. Retire(Rings, {}) /\ next' = 1
        BY <1>11, <2>3 DEF Wrapped
      <3>2. Rings \in SUBSET (Rings \cup {NoRing}) /\ {} \in SUBSET (Objects \cup {NoObject}) /\ Clears({})
        BY DEF Clears
      <3> QED BY <2>1, <3>1, <3>2 DEF Retires
    <2> QED BY <2>2, <2>3
  <1>12. CASE WaitForSpace(t)
    <2> DEFINE r == th[t].to
    <2>1. UNCHANGED <<next, hws>> /\ r \in Rings /\ Len(requests[r]) >= RingRequests
      BY <1>1, <1>12 DEF WaitForSpace, At, RecOK, Dispatches
    <2>2. CASE Remaining({r}) # requests
      <3>1. Retire({r}, {}) /\ UNCHANGED <<hw, olr>>
        BY <1>12, <2>2 DEF WaitForSpace
      <3>2. {r} \in SUBSET (Rings \cup {NoRing}) /\ {} \in SUBSET (Objects \cup {NoObject}) /\ Clears({})
        BY <2>1 DEF Clears
      <3> QED BY <2>1, <3>1, <3>2 DEF Retires
    <2>3. CASE Remaining({r}) = requests
      <3>1. WaitSeqno(t, r, requests[r][1].s, "dispatch") /\ UNCHANGED <<active, ring, lastRead, lastWrite>>
        BY <1>12, <2>3 DEF WaitForSpace
      <3>2. 1 \in DOMAIN requests[r] /\ requests[r] \in Seq(Reqs)
        BY <1>0, <2>1 DEF GemAssumption
      <3>3. requests[r][1] \in Reqs
        BY <3>2
      <3>4. requests[r][1].s # 0
        BY <3>3 DEF Reqs
      <3> QED BY <2>1, <3>1, <3>4, WaitSeqnoKind
    <2> QED BY <2>2, <2>3
  <1>13. CASE Request(t)
    <2>1. F /\ th[t].pc = "request"
      BY <1>13 DEF Request, At
    <2>2. Dispatches(th[t])
      BY <2>1 DEF Dispatches
    <2>3. th[t].to \in Rings /\ olr[th[t].to] # 0
      BY <1>1, <2>2, ThreadFacts DEF RecOK
    <2>4. ~wedged /\ AddRequest(th[t].to, t)
      BY <1>13 DEF Request
    <2> QED BY <2>1, <2>3, <2>4 DEF Adds
  <1> QED BY <1>3, <1>4, <1>5, <1>6, <1>7, <1>8, <1>9, <1>10, <1>11, <1>12, <1>13

\* Every step is one of these.
LEMMA Kinds ==
    ASSUME GemAssumption, FewBatches, GemInv, [Next]_vars
    PROVE  \/ Stays \/ Adds \/ Takes \/ Retires \/ RetireWork \/ ErrorWork
           \/ (\E t \in Threads : Dispatch(t)) \/ \E r \in Rings : Execute(r)
  BY StayKinds, ThreadKinds DEF Next, Step

-----------------------------------------------------------------------------
(* Every step keeps the lists                                              *)

\* The lists stay as they are.
LEMMA ListStays ==
    ASSUME Listing, UNCHANGED <<next, olr, requests, active, ring, lastRead>> PROVE Listing'
  BY DEF Listing

\* A request is added.
LEMMA ListAdds == ASSUME GemAssumption, GemInv, Listing, Adds PROVE Listing'
  <1>1. PICK r \in Rings, f \in Threads \cup {Nobody} : olr[r] # 0 /\ AddRequest(r, f)
    BY DEF Adds
  <1>2. /\ requests' = [requests EXCEPT ![r] = Append(@, [s |-> olr[r], file |-> f])]
        /\ olr' = [olr EXCEPT ![r] = 0] /\ UNCHANGED <<next, active, ring, lastRead>>
    BY <1>1 DEF AddRequest, Adds
  <1>3. requests \in [Rings -> Seq(Reqs)] /\ olr \in [Rings -> Seqnos]
    BY DEF GemInv, Sequencing, Lazy
  <1>4. [s |-> olr[r], file |-> f] \in Reqs
    BY <1>1, <1>3 DEF Reqs
  <1>5. ASSUME NEW p \in Rings PROVE ListOK(next', olr'[p], requests'[p], active'[p], lastRead')
    <2>1. ListOK(next, olr[p], requests[p], active[p], lastRead)
      BY DEF Listing
    <2>2. CASE p # r
      <3>1. olr'[p] = olr[p] /\ requests'[p] = requests[p]
        BY <1>2, <1>3, <2>2
      <3> QED BY <1>2, <2>1, <3>1
    <2>3. CASE p = r
      <3>1. olr'[p] = 0 /\ requests'[p] = Append(requests[p], [s |-> olr[p], file |-> f])
        BY <1>2, <1>3, <2>3
      <3>2. ListOK(next, 0, Append(requests[p], [s |-> olr[p], file |-> f]), active[p], lastRead)
        BY <1>3, <1>4, <2>1, <2>3, ListAdd
      <3> QED BY <1>2, <3>1, <3>2
    <2> QED BY <2>2, <2>3
  <1> QED BY <1>2, <1>5 DEF Listing

\* Ages change alike.
LEMMA ListAgesAlike ==
    ASSUME GemAssumption, GemInv, Listing, NEW d \in {0, 1}, NEW m, NEW r \in Rings,
           \A s \in Seqnos : Age(next, s) \in 1 .. Budget + 1 => Age(m, s) = Age(next, s) + d
    PROVE  \A i, j \in DOMAIN active[r] :
               Age(next, lastRead[active[r][j]]) <= Age(next, lastRead[active[r][i]]) =>
                   Age(m, lastRead[active[r][j]]) <= Age(m, lastRead[active[r][i]])
  <1>1. \A i \in DOMAIN active[r] : /\ lastRead[active[r][i]] \in Seqnos
                                    /\ Age(next, lastRead[active[r][i]]) \in 1 .. Budget + 1
    BY Listed
  <1>2. \A i \in DOMAIN active[r] : Age(m, lastRead[active[r][i]]) = Age(next, lastRead[active[r][i]]) + d
    BY <1>1
  <1> QED BY <1>1, <1>2

\* A seqno is taken.
LEMMA ListTakes ==
    ASSUME GemAssumption, FewBatches, GemInv, GemInv', Budget <= Budget', Listing, Takes PROVE Listing'
  <1>1. PICK r \in Rings : olr[r] = 0 /\ olr' = [olr EXCEPT ![r] = Taken(next)]
    BY DEF Takes
  <1>2. UNCHANGED <<requests, active, ring, lastRead>> /\ olr \in [Rings -> Seqnos]
    BY DEF Takes, GemInv, Lazy
  <1>3. PICK d \in {0, 1} : \A s \in Seqnos : Age(next, s) \in 1 .. Budget + 1 => Age(next', s) = Age(next, s) + d
    BY AgesAlike DEF Takes
  <1>4. ASSUME NEW p \in Rings PROVE ListOK(next', olr'[p], requests[p], active[p], lastRead)
    <2>1. ListOK(next, olr[p], requests[p], active[p], lastRead)
      BY DEF Listing
    <2>2. \A i, j \in DOMAIN active[p] :
              Age(next, lastRead[active[p][j]]) <= Age(next, lastRead[active[p][i]]) =>
                  Age(next', lastRead[active[p][j]]) <= Age(next', lastRead[active[p][i]])
      BY <1>3, ListAgesAlike
    <2>3. olr'[p] = olr[p] \/ \A i \in DOMAIN active[p] : lastRead[active[p][i]] # olr[p]
      <3>1. p = r => \A i \in DOMAIN active[p] : lastRead[active[p][i]] # olr[p]
        BY <1>1, Listed
      <3> QED BY <1>1, <1>2, <3>1
    <2> QED BY <2>1, <2>2, <2>3, ListAges
  <1> QED BY <1>2, <1>4 DEF Listing

\* Objects retire, and the seqnos may restart.
LEMMA ListRetires ==
    ASSUME GemAssumption, FewBatches, GemInv, GemInv', Budget <= Budget', Listing, Retires PROVE Listing'
  <1>1. PICK R, W : Retire(R, W)
    BY DEF Retires
  <1>2. requests' = Remaining(R) /\ RetireObjects(R, W) /\ olr' = olr
    BY <1>1 DEF Retire, Retires
  <1>3. /\ active' \in [Rings -> Seq(Objects)]
        /\ \A r \in Rings : \A o \in Objects : ring'[o] = r <=> o \in Elements(active'[r])
        /\ \A r \in Rings : ListOK(next, olr[r], Remaining(R)[r], active'[r], lastRead')
    BY <1>2, RetireLists
  <1>4. PICK d \in {0, 1} : \A s \in Seqnos : Age(next, s) \in 1 .. Budget + 1 => Age(next', s) = Age(next, s) + d
    BY AgesAlike DEF Retires
  <1>5. ASSUME NEW r \in Rings PROVE ListOK(next', olr[r], Remaining(R)[r], active'[r], lastRead')
    <2>1. ASSUME NEW i \in DOMAIN active'[r]
          PROVE  /\ lastRead'[active'[r][i]] \in Seqnos
                 /\ Age(next, lastRead'[active'[r][i]]) \in 1 .. Budget + 1
      <3> DEFINE o == active'[r][i]
      <3>1. o \in Objects /\ ring'[o] = r
        BY <1>3 DEF Elements
      <3>2. Settled(R, W, o) /\ r # NoRing
        BY <1>2, <3>1, RetireSettles DEF NoRing, Rings
      <3>3. lastRead'[o] = lastRead[o] /\ ring[o] = r
        BY <3>1, <3>2 DEF Settled
      <3> QED BY <3>1, <3>2, <3>3, ActiveListed
    <2>2. \A i \in DOMAIN active'[r] :
              Age(next', lastRead'[active'[r][i]]) = Age(next, lastRead'[active'[r][i]]) + d
      BY <1>4, <2>1
    <2>3. \A i, j \in DOMAIN active'[r] :
              Age(next, lastRead'[active'[r][j]]) <= Age(next, lastRead'[active'[r][i]]) =>
                  Age(next', lastRead'[active'[r][j]]) <= Age(next', lastRead'[active'[r][i]])
      BY <2>1, <2>2
    <2> QED BY <1>3, <2>3, ListAges
  <1> QED BY <1>2, <1>3, <1>5 DEF Listing

\* A batch is dispatched.
LEMMA ListDispatches ==
    ASSUME GemAssumption, GemInv, Listing, NEW t \in Threads, Dispatch(t) PROVE Listing'
  <1>1. /\ UNCHANGED <<next, olr, requests>> /\ Dispatches(th[t]) /\ Holds(th[t])
    BY Zenon DEF Dispatch, At, Dispatches, Holds, HoldPCs
  <1>2. th[t].obj \in Objects /\ th[t].to \in Rings /\ olr[th[t].to] # 0
    BY <1>1, ThreadFacts DEF RecOK
  <1>3. CASE UNCHANGED <<active, ring, lastRead>>
    BY <1>1, <1>3, ListStays
  <1>4. CASE MoveToActive(th[t].obj, th[t].to, th[t].write)
    <2>1. /\ active' \in [Rings -> Seq(Objects)]
          /\ \A p \in Rings : \A x \in Objects : ring'[x] = p <=> x \in Elements(active'[p])
          /\ \A p \in Rings : ListOK(next, olr[p], requests[p], active'[p], lastRead')
      BY <1>2, <1>4, ListMove DEF MoveToActive
    <2> QED BY <1>1, <2>1 DEF Listing
  <1> QED BY <1>3, <1>4, ZenonT(40) DEF Dispatch

\* i915_gem_retire_work_handler
LEMMA ListRetireWork ==
    ASSUME GemAssumption, FewBatches, GemInv, Listing, RetireWork PROVE Listing'
  <1> DEFINE flush == {r \in Rings : dirty[r] /\ ~wedged}
             e(r) == [s |-> olr[r], file |-> Nobody]
  <1>1. /\ RetireObjects(Rings, {}) /\ next' = next
        /\ requests' = [r \in Rings |-> IF r \in flush THEN Append(Remaining(Rings)[r], e(r)) ELSE Remaining(Rings)[r]]
        /\ olr' = [r \in Rings |-> IF r \in flush THEN 0 ELSE olr[r]]
    BY DEF RetireWork
  <1>2. /\ active' \in [Rings -> Seq(Objects)]
        /\ \A r \in Rings : \A o \in Objects : ring'[o] = r <=> o \in Elements(active'[r])
        /\ \A r \in Rings : ListOK(next, olr[r], Remaining(Rings)[r], active'[r], lastRead')
    BY <1>1, RetireLists
  <1>3. \A r \in Rings : Remaining(Rings)[r] \in Seq(Reqs)
    BY RemainingType DEF GemInv, Sequencing
  <1>4. ASSUME NEW r \in Rings PROVE ListOK(next, olr'[r], requests'[r], active'[r], lastRead')
    <2>1. CASE r \in flush
      <3>1. olr[r] \in Seqnos \ {0}
        BY <2>1 DEF GemInv, Lazy
      <3>2. e(r) \in Reqs /\ e(r).s = olr[r]
        BY <3>1 DEF Reqs
      <3>3. ListOK(next, 0, Append(Remaining(Rings)[r], e(r)), active'[r], lastRead')
        <4> HIDE DEF e
        <4> QED BY <1>2, <1>3, <3>2, ListAdd
      <3> QED BY <1>1, <2>1, <3>3
    <2>2. CASE r \notin flush
      BY <1>1, <1>2, <2>2
    <2> QED BY <2>1, <2>2
  <1> QED BY <1>1, <1>2, <1>4 DEF Listing

\* The reset empties the lists.
LEMMA ListErrorWork == ASSUME GemAssumption, GemInv, Listing, ErrorWork PROVE Listing'
  <1>1. CASE UNCHANGED gemVars
    BY <1>1, ListStays DEF ErrorWork, gemVars, seqVars
  <1>2. CASE ResetLists
    <2>1. /\ active' = [r \in Rings |-> <<>>]
          /\ MoveToInactive({o \in Objects : ring[o] # NoRing}, {})
      BY <1>2 DEF ResetLists
    <2>2. \A o \in Objects : ring'[o] = NoRing
      BY <2>1 DEF MoveToInactive
    <2>3. \A r \in Rings : active'[r] = <<>> /\ r # NoRing
      BY <2>1 DEF Rings, NoRing
    <2>4. \A r \in Rings : DOMAIN active'[r] = {} /\ Elements(active'[r]) = {}
      BY <2>3 DEF Elements
    <2>5. \A r \in Rings : ListOK(next', olr'[r], requests'[r], active'[r], lastRead')
      BY <2>4 DEF ListOK
    <2>6. active' \in [Rings -> Seq(Objects)]
      BY <2>1
    <2> QED BY <2>2, <2>3, <2>4, <2>5, <2>6 DEF Listing
  <1> QED BY <1>1, <1>2 DEF ErrorWork

\* Every step keeps the lists of objects and requests.
LEMMA ListingOK ==
    ASSUME GemAssumption, FewBatches, GemInv, Listing, [Next]_vars PROVE Listing'
  <1>1. GemInv' /\ Budget <= Budget'
    BY NextOK
  <1>2. CASE Stays
    BY <1>2, ListStays DEF Stays
  <1>3. ASSUME NEW r \in Rings, Execute(r) PROVE Listing'
    BY <1>3, ListStays DEF Execute, gemVars, seqVars
  <1> QED BY <1>1, <1>2, <1>3, Kinds, ListAdds, ListTakes, ListRetires, ListDispatches, ListRetireWork, ListErrorWork

-----------------------------------------------------------------------------
(* Every step keeps the types of the rest                                  *)

\* What no thread's step but that of a wait, a dispatch or the wrap touches
rest == <<semaphores, mbox, hung, moved, irq, wedged, recovered, hangs>>

\* A request is added: the timer may be armed and the worker queued.
LEMMA TypingAdds ==
    ASSUME GemAssumption, Typing, NEW r, NEW f, AddRequest(r, f)
    PROVE  hangcheck' \in [armed : BOOLEAN, count : 0 .. 2] /\ retire' \in BOOLEAN
  <1>1. hangcheck' = [hangcheck EXCEPT !.armed = Hangcheck] /\ retire' = (retire \/ requests[r] = <<>>)
    BY DEF AddRequest
  <1>2. Hangcheck \in BOOLEAN /\ hangcheck \in [armed : BOOLEAN, count : 0 .. 2] /\ retire \in BOOLEAN
    BY DEF GemAssumption, Typing
  <1>3. hangcheck' \in [armed : BOOLEAN, count : 0 .. 2]
    BY <1>1, <1>2
  <1>4. retire' \in BOOLEAN
    BY <1>1, Zenon
  <1> QED BY <1>3, <1>4

\* The mutex is taken or dropped, a request may be added.
Handles(t) ==
    /\ mutex' \in {mutex, t, Nobody} /\ UNCHANGED rest /\ UNCHANGED sync
    /\ UNCHANGED <<hangcheck, retire>> \/ \E r, f : AddRequest(r, f)

\* A thread that only adds a request keeps the types.
LEMMA TypingHandles ==
    ASSUME GemAssumption, Typing, NEW t \in Threads, Handles(t) PROVE Typing'
  <1>1. hangcheck' \in [armed : BOOLEAN, count : 0 .. 2] /\ retire' \in BOOLEAN
    <2>1. CASE UNCHANGED <<hangcheck, retire>>
      BY <2>1 DEF Typing
    <2> QED BY <2>1, TypingAdds DEF Handles
  <1> QED BY <1>1 DEF Typing, Handles, rest

\* A wait for a seqno changes nothing else of the types.
LEMMA WaitSeqnoHandles ==
    ASSUME NEW t, NEW r, NEW s, NEW then, WaitSeqno(t, r, s, then), UNCHANGED rest, UNCHANGED sync PROVE Handles(t)
  BY DEF WaitSeqno, CheckOlr, Return, Handles

\* The steps of a thread that does not wait
LEMMA TypingThread ==
    ASSUME GemAssumption, Typing, NEW t \in Threads,
           \/ Start(t) \/ Throttle(t) \/ LockMutex(t) \/ Access(t) \/ WaitRendering(t) \/ Rendered(t)
           \/ Nonblocking(t) \/ Relock(t) \/ FlushOlr(t) \/ FlushRetire(t)
           \/ ObjectSync(t) \/ RingBegin(t) \/ IdleRing(t) \/ WaitForSpace(t) \/ Request(t) \/ AddFails(t)
    PROVE  Typing'
  <1>1. CASE Start(t) \/ Throttle(t) \/ LockMutex(t) \/ Access(t) \/ AddFails(t)
    BY <1>1, TypingHandles DEF Handles, rest, Start, Throttle, LockMutex, Access, AddFails, Return, seqVars, gpuVars, errVars, bounds
  <1>2. CASE Rendered(t) \/ Relock(t) \/ FlushRetire(t)
    BY <1>2, TypingHandles DEF Handles, rest, Rendered, Relock, FlushRetire, Return, seqVars, gpuVars, errVars, bounds
  <1>3. CASE Nonblocking(t)
    <2>1. Handles(t)
      BY <1>3 DEF Handles, rest, Nonblocking, CheckOlr, Return, errVars, bounds
    <2> QED BY <2>1, TypingHandles
  <1>4. CASE FlushOlr(t)
    <2>1. Handles(t)
      BY <1>4 DEF Handles, rest, FlushOlr, CheckOlr, Return, errVars, bounds
    <2> QED BY <2>1, TypingHandles
  <1>5. CASE ObjectSync(t)
    <2>1. Handles(t)
      BY <1>5 DEF Handles, rest, ObjectSync, CheckOlr, Return, errVars, bounds
    <2> QED BY <2>1, TypingHandles
  <1>6. CASE RingBegin(t)
    <2>1. Handles(t)
      BY <1>6 DEF Handles, rest, RingBegin, Return, gpuVars, errVars, bounds
    <2> QED BY <2>1, TypingHandles
  <1>7. CASE Request(t)
    <2>1. Handles(t)
      BY <1>7 DEF Handles, rest, Request, Return, errVars, bounds
    <2> QED BY <2>1, TypingHandles
  <1>8. CASE WaitRendering(t)
    <2>1. UNCHANGED rest /\ UNCHANGED sync
      BY <1>8 DEF WaitRendering, rest, errVars, bounds
    <2>2. UNCHANGED <<mutex, hangcheck, retire>> \/ WaitSeqno(t, ring[th[t].obj], RenderSeqno(t), "rendered")
      BY <1>8 DEF WaitRendering
    <2>3. Handles(t)
      BY <2>1, <2>2, WaitSeqnoHandles DEF Handles
    <2> QED BY <2>3, TypingHandles
  <1>9. CASE IdleRing(t)
    <2>1. UNCHANGED rest /\ UNCHANGED sync
      BY <1>9 DEF IdleRing, rest, errVars, bounds
    <2>2. \/ Return(t) /\ UNCHANGED <<hangcheck, retire>>
          \/ AddRequest(th[t].on, Nobody) /\ UNCHANGED mutex
          \/ UNCHANGED <<mutex, hangcheck, retire>>
          \/ WaitSeqno(t, th[t].on, requests[th[t].on][Len(requests[th[t].on])].s, "wrapped")
      BY <1>9 DEF IdleRing
    <2>3. Handles(t)
      BY <2>1, <2>2, WaitSeqnoHandles DEF Handles, Return
    <2> QED BY <2>3, TypingHandles
  <1>10. CASE WaitForSpace(t)
    <2>1. UNCHANGED rest /\ UNCHANGED sync
      BY <1>10 DEF WaitForSpace, rest, errVars, bounds
    <2>2. \/ UNCHANGED <<mutex, hangcheck, retire>>
          \/ WaitSeqno(t, th[t].to, requests[th[t].to][1].s, "dispatch")
      BY <1>10 DEF WaitForSpace
    <2>3. Handles(t)
      BY <2>1, <2>2, WaitSeqnoHandles DEF Handles
    <2> QED BY <2>3, TypingHandles
  <1> QED BY <1>1, <1>2, <1>3, <1>4, <1>5, <1>6, <1>7, <1>8, <1>9, <1>10

\* The steps of a wait
LEMMA TypingWait ==
    ASSUME Typing, NEW t \in Threads,
           \/ WaitCheck(t) \/ WaitCond(t) \/ WaitSleep(t) \/ WaitExpires(t) \/ WaitInterrupted(t)
    PROVE  Typing'
  <1>1. UNCHANGED rest /\ UNCHANGED <<sync, hangcheck>>
    BY DEF WaitCheck, WaitCond, WaitSleep, WaitExpires, WaitInterrupted, waitFrame, rest, seqVars, gpuVars, errVars, bounds
  <1>2. mutex' \in {mutex, Nobody}
    BY DEF WaitCheck, WaitCond, WaitSleep, WaitExpires, WaitInterrupted, WaitFails, WaitSucceeds, Return
  <1>3. retire' \in BOOLEAN
    <2>1. CASE retire' = retire
      BY <2>1 DEF Typing
    <2>2. CASE WaitCheck(t)
      BY <2>2, Zenon DEF WaitCheck
    <2>3. CASE WaitCond(t)
      <3>1. retire' = (retire \/ (th[t].op = "throttle" /\ Done(th[t].on, th[t].s) /\ ~wedged))
        BY <2>3 DEF WaitCond
      <3> QED BY <3>1, Zenon
    <2> QED BY <2>1, <2>2, <2>3 DEF WaitSleep, WaitExpires, WaitInterrupted
  <1> QED BY <1>1, <1>2, <1>3 DEF Typing, rest

\* The wrap and the dispatch
LEMMA TypingSync ==
    ASSUME GemAssumption, GemInv, Typing, NEW t \in Threads, Wrapped(t) \/ Dispatch(t) PROVE Typing'
  <1>1. UNCHANGED rest /\ UNCHANGED <<hangcheck, retire>> /\ mutex' \in {mutex, Nobody}
    BY Zenon DEF Wrapped, Dispatch, Return, rest, gpuVars, errVars, bounds
  <1>2. sync' \in [Rings -> [Rings -> Seqnos]]
    <2>0. sync \in [Rings -> [Rings -> Seqnos]]
      BY DEF Typing
    <2>1. CASE Wrapped(t)
      <3>1. 0 \in Seqnos
        BY ThreadFacts
      <3>2. sync' = sync \/ sync' = [r \in Rings |-> [q \in Rings |-> 0]]
        BY <2>1 DEF Wrapped
      <3> QED BY <2>0, <3>1, <3>2
    <2>2. CASE Dispatch(t)
      <3>1. lastRead[th[t].obj] \in Seqnos
        <4>1. Dispatches(th[t]) /\ Holds(th[t])
          BY <2>2, Zenon DEF Dispatch, At, Dispatches, Holds, HoldPCs
        <4>2. th[t].obj \in Objects
          BY <4>1, ThreadFacts DEF RecOK
        <4> QED BY <4>2 DEF GemInv, Lazy
      <3>2. sync' = sync \/ sync' = [sync EXCEPT ![th[t].from][th[t].to] = lastRead[th[t].obj]]
        BY <2>2, Zenon DEF Dispatch
      <3> QED BY <2>0, <3>1, <3>2
    <2> QED BY <2>1, <2>2
  <1> QED BY <1>1, <1>2 DEF Typing, rest

\* The hangcheck counts to two.
LEMMA TypingHangcheck == ASSUME GemAssumption, Typing, HangcheckElapsed PROVE Typing'
  <1>1. UNCHANGED <<mutex, semaphores, sync, mbox, hung, irq, retire, hangs>>
    BY DEF HangcheckElapsed, seqVars, bounds
  <1>2. hangcheck \in [armed : BOOLEAN, count : 0 .. 2] /\ moved \in BOOLEAN /\ wedged \in BOOLEAN /\ recovered \in BOOLEAN
    BY DEF Typing
  <1>3. moved' \in BOOLEAN
    BY <1>2 DEF HangcheckElapsed
  <1>4. ASSUME NEW kicked \in BOOLEAN, NEW wakes, HangcheckHung(kicked, wakes)
        PROVE  wedged' \in BOOLEAN /\ recovered' \in BOOLEAN /\ hangcheck' \in [armed : BOOLEAN, count : 0 .. 2]
    <2>1. CASE hangcheck.count > 1
      <3>1. wedged' = TRUE /\ recovered' = FALSE /\ hangcheck' = [hangcheck EXCEPT !.armed = kicked]
        BY <1>4, <2>1 DEF HangcheckHung
      <3> QED BY <1>2, <1>4, <3>1
    <2>2. CASE ~(hangcheck.count > 1)
      <3>1. hangcheck' = [armed |-> TRUE, count |-> hangcheck.count + 1] /\ wedged' = wedged /\ recovered' = recovered
        BY <1>4, <2>2 DEF HangcheckHung, errVars
      <3>2. hangcheck.count + 1 \in 0 .. 2
        BY <1>2, <2>2
      <3> QED BY <1>2, <3>1, <3>2
    <2> QED BY <2>1, <2>2
  <1>5. wedged' \in BOOLEAN /\ recovered' \in BOOLEAN /\ hangcheck' \in [armed : BOOLEAN, count : 0 .. 2]
    <2>1. \/ hangcheck' \in {[armed |-> FALSE, count |-> 0], [armed |-> TRUE, count |-> 0]} /\ UNCHANGED errVars
          \/ \E kicked \in BOOLEAN : \E wakes : HangcheckHung(kicked, wakes)
      BY DEF HangcheckElapsed
    <2>2. CASE hangcheck' \in {[armed |-> FALSE, count |-> 0], [armed |-> TRUE, count |-> 0]} /\ UNCHANGED errVars
      <3>1. {[armed |-> FALSE, count |-> 0], [armed |-> TRUE, count |-> 0]} \subseteq [armed : BOOLEAN, count : 0 .. 2]
        OBVIOUS
      <3>2. hangcheck' \in [armed : BOOLEAN, count : 0 .. 2]
        BY <2>2, <3>1, Zenon
      <3> QED BY <1>2, <2>2, <3>2 DEF errVars
    <2> QED BY <1>4, <2>1, <2>2
  <1> QED BY <1>1, <1>3, <1>5 DEF Typing

\* Workers, interrupts and the GPU
LEMMA TypingOthers ==
    ASSUME GemAssumption, GemInv, Typing,
           \/ \E r \in Rings : Execute(r) \/ Hang(r) \/ NotifyRing(r)
           \/ RetireWork \/ ErrorWork \/ Unwedge \/ CompleteAll \/ UNCHANGED vars
    PROVE  Typing'
  <1>0. /\ mutex \in Threads \cup {Nobody} /\ hung \in [Rings -> BOOLEAN] /\ irq \in [Rings -> BOOLEAN]
        /\ mbox \in [Rings -> Seqnos] /\ hangs \in 0 .. MaxHangs /\ MaxHangs \in Nat /\ Hangcheck \in BOOLEAN
        /\ hangcheck \in [armed : BOOLEAN, count : 0 .. 2] /\ 0 \in Seqnos
    BY DEF Typing, GemAssumption, Seqnos
  <1>1. ASSUME NEW r \in Rings, Execute(r) PROVE Typing'
    <2>1. /\ hw[r] # <<>> /\ moved' = TRUE
          /\ UNCHANGED <<mutex, semaphores, sync, hung, wedged, recovered, hangcheck, retire, hangs>>
      BY <1>1 DEF Execute, seqVars, errVars, bounds
    <2>2. Head1(r).s \in Seqnos
      <3>1. hw[r] \in Seq(Commands)
        BY DEF GemInv, Sequencing
      <3>2. hw[r][1] \in Commands
        BY <2>1, <3>1
      <3> QED BY <3>2 DEF Head1, Commands
    <2>3. mbox' = mbox \/ mbox' = [mbox EXCEPT ![r] = Head1(r).s]
      BY <1>1 DEF Execute
    <2>4. mbox' \in [Rings -> Seqnos]
      BY <1>0, <2>2, <2>3
    <2>5. irq' \in [Rings -> BOOLEAN]
      <3>1. \/ irq' = irq
            \/ irq' = [irq EXCEPT ![r] = @ \/ \E t \in Threads : th[t].pc \in Waiting /\ th[t].on = r]
        BY <1>1 DEF Execute
      <3> DEFINE b == irq[r] \/ \E t \in Threads : th[t].pc \in Waiting /\ th[t].on = r
      <3>2. b \in BOOLEAN
        BY Zenon
      <3>3. irq' = irq \/ irq' = [irq EXCEPT ![r] = b]
        BY <1>0, <3>1
      <3> HIDE DEF b
      <3> QED BY <1>0, <3>2, <3>3
    <2> QED BY <2>1, <2>4, <2>5 DEF Typing
  <1>2. ASSUME NEW r \in Rings, Hang(r) PROVE Typing'
    <2>1. UNCHANGED <<mutex, semaphores, sync, mbox, moved, irq, wedged, recovered, hangcheck, retire>>
      BY <1>2 DEF Hang, seqVars, errVars
    <2>2. hung' = [hung EXCEPT ![r] = TRUE] /\ hangs < MaxHangs /\ hangs' = hangs + 1
      BY <1>2 DEF Hang
    <2>3. hung' \in [Rings -> BOOLEAN] /\ hangs' \in 0 .. MaxHangs
      BY <1>0, <2>2
    <2> QED BY <2>1, <2>3 DEF Typing
  <1>3. ASSUME NEW r \in Rings, NotifyRing(r) PROVE Typing'
    <2>1. UNCHANGED <<mutex, semaphores, sync, mbox, hung, moved, wedged, recovered, retire, hangs>>
      BY <1>3 DEF NotifyRing, seqVars, errVars, bounds
    <2>2. irq' = [irq EXCEPT ![r] = FALSE] /\ hangcheck' = [armed |-> Hangcheck, count |-> 0]
      BY <1>3 DEF NotifyRing
    <2>3. irq' \in [Rings -> BOOLEAN] /\ hangcheck' \in [armed : BOOLEAN, count : 0 .. 2]
      BY <1>0, <2>2
    <2> QED BY <2>1, <2>3 DEF Typing
  <1>4. CASE RetireWork
    <2>1. UNCHANGED <<mutex, semaphores, sync, mbox, hung, moved, irq, wedged, recovered, hangs>>
      BY <1>4 DEF RetireWork, errVars, bounds
    <2>2. retire' \in BOOLEAN
      BY <1>4, Zenon DEF RetireWork, Requeue
    <2>3. hangcheck' \in [armed : BOOLEAN, count : 0 .. 2]
      <3> DEFINE b == hangcheck.armed \/ (Hangcheck /\ {r \in Rings : dirty[r] /\ ~wedged} # {})
      <3>1. hangcheck' = [hangcheck EXCEPT !.armed = b]
        BY <1>4 DEF RetireWork
      <3>2. b \in BOOLEAN
        BY Zenon
      <3> HIDE DEF b
      <3> QED BY <1>0, <3>1, <3>2
    <2> QED BY <2>1, <2>2, <2>3 DEF Typing
  <1>5. CASE ErrorWork
    <2>1. UNCHANGED <<mutex, semaphores, sync, wedged, recovered, hangcheck, retire, hangs>>
      BY <1>5 DEF ErrorWork, seqVars, bounds
    <2>2. \/ UNCHANGED <<mbox, hung, irq, moved>>
          \/ /\ mbox' = [r \in Rings |-> 0] /\ hung' = [r \in Rings |-> FALSE] /\ irq' = [r \in Rings |-> FALSE]
             /\ moved' = TRUE
      BY <1>5 DEF ErrorWork, gpuVars
    <2>3. mbox' \in [Rings -> Seqnos] /\ hung' \in [Rings -> BOOLEAN] /\ irq' \in [Rings -> BOOLEAN] /\ moved' \in BOOLEAN
      BY <1>0, <2>2 DEF Typing
    <2> QED BY <2>1, <2>3 DEF Typing
  <1>6. CASE Unwedge \/ CompleteAll \/ UNCHANGED vars
    BY <1>6 DEF Typing, Unwedge, CompleteAll, vars, seqVars, gpuVars, errVars, bounds
  <1> QED BY <1>1, <1>2, <1>3, <1>4, <1>5, <1>6

\* Every step keeps the types.
LEMMA TypingOK == ASSUME GemAssumption, GemInv, Typing, [Next]_vars PROVE Typing'
  <1>1. ASSUME NEW t \in Threads, Start(t) \/ Throttle(t) \/ Step(t) \/ WaitExpires(t) \/ WaitInterrupted(t) PROVE Typing'
    BY <1>1, TypingThread, TypingWait, TypingSync DEF Step
  <1> QED BY <1>1, TypingHangcheck, TypingOthers DEF Next

\* The lists are empty at the start.
LEMMA ListInitOK == ASSUME GemAssumption, Init PROVE ListInv
  <1>1. next \in FirstSeqnos /\ FirstSeqnos \subseteq 1 .. Mod - 1 /\ Mod \in Nat /\ MaxHangs \in Nat
    BY DEF GemAssumption, Init
  <1>2. 0 \in Seqnos /\ next - 1 \in Seqnos
    BY <1>1 DEF Seqnos
  <1>3. Typing
    <2>1. /\ mutex = Nobody /\ semaphores \in SemaphoreModes /\ hangs = 0
          /\ moved = FALSE /\ wedged = FALSE /\ recovered = FALSE /\ retire = FALSE
      BY DEF Init
    <2>5. mutex \in Threads \cup {Nobody} /\ hangs \in 0 .. MaxHangs
      BY <1>1, <2>1
    <2>6. moved \in BOOLEAN /\ wedged \in BOOLEAN /\ recovered \in BOOLEAN /\ retire \in BOOLEAN
      BY <2>1
    <2>2. sync \in [Rings -> [Rings -> Seqnos]] /\ mbox \in [Rings -> Seqnos]
      BY <1>2 DEF Init
    <2>3. hung \in [Rings -> BOOLEAN] /\ irq \in [Rings -> BOOLEAN]
      BY DEF Init
    <2>4. hangcheck \in [armed : BOOLEAN, count : 0 .. 2]
      BY DEF Init
    <2> QED BY <2>1, <2>2, <2>3, <2>4, <2>5, <2>6 DEF Typing
  <1>4. \A r \in Rings : active[r] = <<>> /\ r # NoRing
    BY DEF Init, Rings, NoRing
  <1>5. \A r \in Rings : DOMAIN active[r] = {} /\ Elements(active[r]) = {}
    BY <1>4 DEF Elements
  <1>6. \A r \in Rings : ListOK(next, olr[r], requests[r], active[r], lastRead)
    BY <1>5 DEF ListOK
  <1>7. active \in [Rings -> Seq(Objects)]
    BY DEF Init
  <1>8. \A o \in Objects : ring[o] = NoRing
    BY DEF Init
  <1> QED BY <1>3, <1>4, <1>5, <1>6, <1>7, <1>8 DEF ListInv, Listing

-----------------------------------------------------------------------------
(* One command stream, step by step                                        *)

\* The lazy request becomes a breadcrumb behind everything.
LEMMA GuardAdd ==
    ASSUME NEW h \in Seq(Commands), NEW o \in Seqnos, NEW i \in DOMAIN h, NEW s, Guarded(h, i, o, s)
    PROVE  i \in DOMAIN Append(h, Breadcrumb(o)) /\ Guarded(Append(h, Breadcrumb(o)), i, 0, s)
  <1> DEFINE c == Breadcrumb(o)
             k == Append(h, c)
  <1>1. Crumb(c) /\ c.s = o
    BY DEF Breadcrumb, Crumb
  <1> HIDE DEF c
  <1>2. /\ DOMAIN k = 1 .. Len(h) + 1 /\ DOMAIN h = 1 .. Len(h) /\ Len(h) \in Nat
        /\ k[Len(h) + 1] = c /\ \A j \in DOMAIN h : k[j] = h[j]
    OBVIOUS
  <1> HIDE DEF k
  <1>3. CASE s = o
    <2>1. Len(h) + 1 \in DOMAIN k /\ i < Len(h) + 1 /\ Crumb(k[Len(h) + 1]) /\ k[Len(h) + 1].s = s
      BY <1>1, <1>2, <1>3
    <2>2. Guarded(k, i, 0, s)
      BY <2>1 DEF Guarded
    <2> QED BY <1>2, <2>2 DEF k, c
  <1>4. ASSUME NEW j \in DOMAIN h, i < j, Crumb(h[j]), h[j].s = s PROVE Guarded(k, i, 0, s)
    <2>1. j \in DOMAIN k /\ k[j] = h[j]
      BY <1>2
    <2> QED BY <1>4, <2>1 DEF Guarded
  <1>5. i \in DOMAIN k /\ Guarded(k, i, 0, s)
    BY <1>2, <1>3, <1>4 DEF Guarded, k, c
  <1> QED BY <1>5 DEF k, c

\* A breadcrumb at the end of the command stream takes the place of the lazy request.
LEMMA UseAdd ==
    ASSUME NEW r, NEW h \in Seq(Commands), NEW o \in Seqnos, NEW rg, NEW lr, NEW lw
    PROVE  /\ UseOK(r, o, h, rg, lr) => UseOK(r, 0, Append(h, Breadcrumb(o)), rg, lr)
           /\ WriteOK(o, h, lw) => WriteOK(0, Append(h, Breadcrumb(o)), lw)
  <1> DEFINE k == Append(h, Breadcrumb(o))
  <1>1. /\ \A i \in DOMAIN k : i \in DOMAIN h \/ i = Len(h) + 1
        /\ k[Len(h) + 1] = Breadcrumb(o) /\ \A j \in DOMAIN h : k[j] = h[j]
    OBVIOUS
  <1>2. ~IsBatch(Breadcrumb(o))
    BY DEF IsBatch, Breadcrumb
  <1>3. \A i \in DOMAIN k : IsBatch(k[i]) => i \in DOMAIN h /\ k[i] = h[i]
    BY <1>1, <1>2
  <1>4. \A i \in DOMAIN h : \A s : Guarded(h, i, o, s) => Guarded(k, i, 0, s)
    BY GuardAdd
  <1> HIDE DEF k
  <1>5. UseOK(r, o, h, rg, lr) => UseOK(r, 0, k, rg, lr)
    BY <1>3, <1>4 DEF UseOK
  <1>6. WriteOK(o, h, lw) => WriteOK(0, k, lw)
    BY <1>3, <1>4 DEF WriteOK
  <1> QED BY <1>5, <1>6 DEF k

\* A ring without a lazy request gets one.
LEMMA UseTake ==
    ASSUME NEW r, NEW h, NEW o, NEW rg, NEW lr, NEW lw
    PROVE  /\ UseOK(r, 0, h, rg, lr) => UseOK(r, o, h, rg, lr)
           /\ WriteOK(0, h, lw) => WriteOK(o, h, lw)
  BY DEF UseOK, WriteOK, Guarded

\* The objects are what they were, those of its batches at least.
LEMMA UseSame ==
    ASSUME NEW r, NEW h, NEW o, NEW rg, NEW lr, NEW lw, NEW rg2, NEW lr2, NEW lw2
    PROVE  /\ UseOK(r, o, h, rg, lr)
              /\ (\A i \in DOMAIN h : IsBatch(h[i]) => rg2[h[i].obj] = rg[h[i].obj] /\ lr2[h[i].obj] = lr[h[i].obj])
              => UseOK(r, o, h, rg2, lr2)
           /\ WriteOK(o, h, lw)
              /\ (\A i \in DOMAIN h : IsBatch(h[i]) /\ h[i].write => lw2[h[i].obj] = lw[h[i].obj])
              => WriteOK(o, h, lw2)
  BY DEF UseOK, WriteOK

\* Object x is marked as in use on ring r until seqno o, and as written if w.
Marks(x, w, r, o, rg, lr, lw, rg2, lr2, lw2) ==
    /\ \A a \in Objects \ {x} : rg2[a] = rg[a] /\ lr2[a] = lr[a] /\ lw2[a] = lw[a]
    /\ rg2[x] = r /\ lr2[x] = o /\ lw2[x] = IF w THEN o ELSE lw[x]

\* A batch is added behind the others, its object has the lazy request.
LEMMA UseEmit ==
    ASSUME NEW r, NEW h \in Seq(Commands), NEW o \in Seqnos \ {0}, NEW rg, NEW lr, NEW lw, NEW x \in Objects, NEW w \in BOOLEAN,
           NEW rg2, NEW lr2, NEW lw2, Marks(x, w, r, o, rg, lr, lw, rg2, lr2, lw2),
           \A i \in DOMAIN h : IsBatch(h[i]) => h[i].obj \in Objects
    PROVE  /\ UseOK(r, o, h, rg, lr) => UseOK(r, o, Append(h, Batch(x, w)), rg2, lr2)
           /\ WriteOK(o, h, lw) => WriteOK(o, Append(h, Batch(x, w)), lw2)
  <1> DEFINE c == Batch(x, w)
             k == Append(h, c)
  <1> USE DEF Marks
  <1>1. c.obj = x /\ c.write = w
    BY DEF Batch
  <1> HIDE DEF c
  <1>2. /\ DOMAIN k = 1 .. Len(h) + 1 /\ DOMAIN h = 1 .. Len(h) /\ Len(h) \in Nat
        /\ k[Len(h) + 1] = c /\ \A j \in DOMAIN h : k[j] = h[j]
    OBVIOUS
  <1> HIDE DEF k
  <1>3. ASSUME NEW i \in DOMAIN h, NEW s, Guarded(h, i, o, s) PROVE Guarded(k, i, o, s)
    <2>1. ASSUME NEW j \in DOMAIN h, i < j, Crumb(h[j]), h[j].s = s PROVE Guarded(k, i, o, s)
      <3>1. j \in DOMAIN k /\ k[j] = h[j]
        BY <1>2
      <3> QED BY <1>3, <2>1, <3>1 DEF Guarded
    <2> QED BY <1>3, <2>1 DEF Guarded
  <1>4. \A i : Guarded(k, i, o, o)
    BY DEF Guarded
  <1>5. ASSUME UseOK(r, o, h, rg, lr), NEW i \in DOMAIN k, IsBatch(k[i])
        PROVE  rg2[k[i].obj] = r /\ Guarded(k, i, o, lr2[k[i].obj])
    <2>1. CASE k[i].obj = x
      BY <1>4, <2>1
    <2>2. CASE k[i].obj # x
      <3>1. i \in DOMAIN h /\ k[i] = h[i]
        BY <1>1, <1>2, <2>2
      <3> QED BY <1>3, <1>5, <2>2, <3>1 DEF UseOK
    <2> QED BY <2>1, <2>2
  <1>6. ASSUME WriteOK(o, h, lw), NEW i \in DOMAIN k, IsBatch(k[i]), k[i].write
        PROVE  Guarded(k, i, o, lw2[k[i].obj])
    <2>1. CASE i \in DOMAIN h
      <3>1. k[i] = h[i] /\ Guarded(h, i, o, lw[h[i].obj])
        BY <1>2, <1>6, <2>1 DEF WriteOK
      <3>2. CASE w /\ h[i].obj = x
        BY <1>4, <3>1, <3>2
      <3>3. CASE ~(w /\ h[i].obj = x)
        <4>1. lw2[h[i].obj] = lw[h[i].obj]
          BY <1>6, <2>1, <3>1, <3>3
        <4> QED BY <1>3, <2>1, <3>1, <4>1
      <3> QED BY <3>2, <3>3
    <2>2. CASE i = Len(h) + 1
      BY <1>1, <1>2, <1>4, <1>6, <2>2
    <2> QED BY <1>2, <2>1, <2>2
  <1> QED BY <1>5, <1>6 DEF UseOK, WriteOK, k, c

\* The next command is executed.
LEMMA UseExecute ==
    ASSUME NEW r, NEW h \in Seq(Commands), h # <<>>, NEW o, NEW rg, NEW lr, NEW lw
    PROVE  /\ UseOK(r, o, h, rg, lr) => UseOK(r, o, Tail(h), rg, lr)
           /\ WriteOK(o, h, lw) => WriteOK(o, Tail(h), lw)
           /\ \A i \in DOMAIN Tail(h) : i + 1 \in DOMAIN h /\ Tail(h)[i] = h[i + 1]
  <1> DEFINE k == Tail(h)
  <1>1. /\ Len(h) \in Nat \ {0} /\ DOMAIN h = 1 .. Len(h) /\ DOMAIN k = 1 .. Len(h) - 1
        /\ \A i \in DOMAIN k : i + 1 \in DOMAIN h /\ k[i] = h[i + 1]
    OBVIOUS
  <1> HIDE DEF k
  <1>2. ASSUME NEW i \in DOMAIN k, NEW s, Guarded(h, i + 1, o, s) PROVE Guarded(k, i, o, s)
    <2>1. ASSUME NEW j \in DOMAIN h, i + 1 < j, Crumb(h[j]), h[j].s = s PROVE Guarded(k, i, o, s)
      <3>1. j - 1 \in DOMAIN k /\ k[j - 1] = h[j] /\ i < j - 1
        BY <1>1, <2>1
      <3> QED BY <1>2, <2>1, <3>1 DEF Guarded
    <2> QED BY <1>2, <2>1 DEF Guarded
  <1>3. UseOK(r, o, h, rg, lr) => UseOK(r, o, k, rg, lr)
    BY <1>1, <1>2 DEF UseOK
  <1>4. WriteOK(o, h, lw) => WriteOK(o, k, lw)
    BY <1>1, <1>2 DEF WriteOK
  <1> QED BY <1>1, <1>3, <1>4 DEF k

\* What guards a batch is yet to be reached.
LEMMA GuardYoung ==
    ASSUME GemAssumption, NEW n \in Seqnos, NEW b \in Int, NEW o, NEW q, NEW h, NEW w, RingOK(n, b, o, q, h, w),
           NEW i, NEW s, Guarded(h, i, o, s)
    PROVE  ~(Age(n, w) <= Age(n, s))
  <1>1. Age(n, w) \in 1 .. b + 1
    BY DEF RingOK
  <1>2. Age(n, s) \in 1 .. Age(n, w) - 1
    BY DEF RingOK, Guarded
  <1> QED BY <1>1, <1>2

-----------------------------------------------------------------------------
(* Every step keeps what is known of the batches                           *)

\* The GPU is not declared well again, nor is it reset.
Calm == (wedged => wedged') /\ (work'.pc = "unwedge" => work.pc = "unwedge")

\* Only the error work resets the GPU or declares it well again.
LEMMA CalmKinds == ASSUME GemAssumption, work \in Works, [Next]_vars PROVE Calm \/ ErrorWork \/ Unwedge
  <1>1. ASSUME NEW t \in Threads, Start(t) \/ Throttle(t) \/ Step(t) \/ WaitExpires(t) \/ WaitInterrupted(t) PROVE UNCHANGED errVars
    BY <1>1, Zenon DEF Step, Start, Throttle, LockMutex, WaitCheck, WaitCond, WaitSleep, WaitExpires, WaitInterrupted, waitFrame,
       WaitRendering, Rendered, Nonblocking, Relock, Access, FlushOlr, FlushRetire, ObjectSync, RingBegin, IdleRing,
       Wrapped, WaitForSpace, Dispatch, Request, AddFails
  <1>2. ASSUME NEW r \in Rings, Execute(r) \/ Hang(r) \/ NotifyRing(r) PROVE UNCHANGED errVars
    BY <1>2 DEF Execute, Hang, NotifyRing
  <1>3. UNCHANGED errVars => Calm
    BY DEF errVars, Calm
  <1>4. RetireWork \/ UNCHANGED vars => UNCHANGED errVars
    BY DEF RetireWork, vars, errVars
  <1>5. ASSUME HangcheckElapsed PROVE Calm
    <2> DEFINE same == wedged' = wedged /\ work' = work
               sets == wedged' = TRUE /\ work' = [work EXCEPT !.queued = TRUE]
    <2>0. UNCHANGED errVars \/ \E kicked \in BOOLEAN : \E wakes : HangcheckHung(kicked, wakes)
      BY <1>5 DEF HangcheckElapsed
    <2>6. ASSUME NEW kicked \in BOOLEAN, NEW wakes, HangcheckHung(kicked, wakes)
          PROVE  same \/ sets
      <3>1. CASE hangcheck.count > 1
        BY <2>6, <3>1 DEF HangcheckHung
      <3>2. CASE ~(hangcheck.count > 1)
        BY <2>6, <3>2 DEF HangcheckHung, errVars
      <3> QED BY <3>1, <3>2
    <2>7. UNCHANGED errVars => same
      BY DEF errVars
    <2> HIDE DEF same, sets
    <2>1. same \/ sets
      BY <2>0, <2>6, <2>7
    <2>8. ASSUME same PROVE Calm
      BY <2>8 DEF same, Calm
    <2>2. ASSUME sets PROVE Calm
      <3>1. work'.pc = work.pc
        BY <2>2 DEF Works, sets
      <3> QED BY <2>2, <3>1 DEF Calm, sets
    <2> QED BY <2>1, <2>2, <2>8
  <1>6. ASSUME CompleteAll PROVE Calm
    <2>1. work'.pc # "unwedge" /\ wedged' = wedged
      BY <1>6 DEF CompleteAll, Works
    <2> QED BY <2>1 DEF Calm
  <1> QED BY <1>1, <1>2, <1>3, <1>4, <1>5, <1>6 DEF Next

\* What most steps do to a ring
Grows(r) ==
    \/ hw'[r] = hw[r] /\ (olr'[r] = olr[r] \/ olr[r] = 0)
    \/ ~wedged /\ hw'[r] = Append(hw[r], Breadcrumb(olr[r])) /\ olr'[r] = 0
    \/ hw[r] # <<>> /\ hw'[r] = Tail(hw[r]) /\ olr'[r] = olr[r]

\* The objects of its batches stay as they are
Steady(r) ==
    \A i \in DOMAIN hw[r] : IsBatch(hw[r][i]) =>
        /\ Certain => ring'[hw[r][i].obj] = ring[hw[r][i].obj] /\ lastRead'[hw[r][i].obj] = lastRead[hw[r][i].obj]
        /\ Certain /\ NumRings = 1 /\ hw[r][i].write => lastWrite'[hw[r][i].obj] = lastWrite[hw[r][i].obj]

\* A command stream that only gets breadcrumbs, or executes one, gets no batch.
LEMMA GrowsBatches ==
    ASSUME NEW r \in Rings, hw[r] \in Seq(Commands), Grows(r), NEW i \in DOMAIN hw'[r], IsBatch(hw'[r][i])
    PROVE  \E j \in DOMAIN hw[r] : hw'[r][i] = hw[r][j]
  <1> DEFINE h == hw[r]
             k == hw'[r]
  <1>1. CASE k = h
    BY <1>1
  <1>2. CASE k = Append(h, Breadcrumb(olr[r]))
    <2>1. (i \in DOMAIN h /\ k[i] = h[i]) \/ k[i] = Breadcrumb(olr[r])
      BY <1>2
    <2> QED BY <2>1 DEF IsBatch, Breadcrumb
  <1>3. CASE h # <<>> /\ k = Tail(h)
    <2>1. i + 1 \in DOMAIN h /\ k[i] = h[i + 1]
      BY <1>3
    <2> QED BY <2>1
  <1> QED BY <1>1, <1>2, <1>3 DEF Grows

\* The batches to execute stay guarded when each ring only executes or adds breadcrumbs.
LEMMA UsingGrows ==
    ASSUME GemAssumption, GemInv, Using, Calm, \A r \in Rings : Grows(r) /\ Steady(r) PROVE Using'
  <1>0. \A r \in Rings : hw[r] \in Seq(Commands) /\ olr[r] \in Seqnos
    BY DEF GemInv, Sequencing, Lazy
  <1>1. \A r \in Rings : \A i \in DOMAIN hw'[r] : IsBatch(hw'[r][i]) => \E j \in DOMAIN hw[r] : hw'[r][i] = hw[r][j]
    BY <1>0, GrowsBatches
  <1>2. \A r \in Rings : \A i \in DOMAIN hw'[r] : IsBatch(hw'[r][i]) => hw'[r][i].obj \in Objects
    BY <1>1 DEF Using
  <1>3. Apart'
    <2>1. ASSUME NEW p \in Rings, NEW q \in Rings, NEW i \in DOMAIN hw'[p], NEW j \in DOMAIN hw'[q],
                 IsBatch(hw'[p][i]), IsBatch(hw'[q][j]), hw'[p][i].obj = hw'[q][j].obj
          PROVE  p = q
      <3>1. PICK m \in DOMAIN hw[p] : hw'[p][i] = hw[p][m]
        BY <1>1, <2>1
      <3>2. PICK n \in DOMAIN hw[q] : hw'[q][j] = hw[q][n]
        BY <1>1, <2>1
      <3> QED BY <2>1, <3>1, <3>2 DEF Using, Apart
    <2> QED BY <2>1 DEF Apart
  <1>4. ASSUME work'.pc = "unwedge" PROVE wedged' /\ (TryReset => \A r \in Rings : hw'[r] = <<>>)
    <2>1. wedged /\ (TryReset => \A r \in Rings : hw[r] = <<>>)
      BY <1>4 DEF Calm, Using
    <2> QED BY <2>1 DEF Calm, Grows
  <1>5. ASSUME Certain, NEW r \in Rings
        PROVE  /\ UseOK(r, olr'[r], hw'[r], ring', lastRead')
               /\ NumRings = 1 => WriteOK(olr'[r], hw'[r], lastWrite')
    <2>1. UseOK(r, olr[r], hw[r], ring, lastRead) /\ (NumRings = 1 => WriteOK(olr[r], hw[r], lastWrite))
      BY <1>5 DEF Using
    <2>2. UseOK(r, olr[r], hw[r], ring', lastRead')
      BY <1>5, <2>1, UseSame DEF Steady
    <2>3. NumRings = 1 => WriteOK(olr[r], hw[r], lastWrite')
      BY <1>5, <2>1, UseSame DEF Steady
    <2>4. CASE hw'[r] = hw[r] /\ (olr'[r] = olr[r] \/ olr[r] = 0)
      BY <2>2, <2>3, <2>4, UseTake
    <2>5. CASE hw'[r] = Append(hw[r], Breadcrumb(olr[r])) /\ olr'[r] = 0
      BY <1>0, <2>2, <2>3, <2>5, UseAdd
    <2>6. CASE hw[r] # <<>> /\ hw'[r] = Tail(hw[r]) /\ olr'[r] = olr[r]
      BY <1>0, <2>2, <2>3, <2>6, UseExecute
    <2> QED BY <2>4, <2>5, <2>6 DEF Grows
  <1>6. Certain' => Certain
    BY DEF Certain, Calm
  <1> QED BY <1>2, <1>3, <1>4, <1>5, <1>6 DEF Using

\* The seqnos of an object that a batch uses are yet to come.
LEMMA BatchYoung ==
    ASSUME GemAssumption, GemInv, Using, Certain, NEW r \in Rings, NEW i \in DOMAIN hw[r], IsBatch(hw[r][i])
    PROVE  /\ hw[r][i].obj \in Objects /\ ring[hw[r][i].obj] = r
           /\ ~(Age(next, hws[r]) <= Age(next, lastRead[hw[r][i].obj]))
           /\ NumRings = 1 /\ hw[r][i].write => /\ lastWrite[hw[r][i].obj] # 0
                                                /\ ~(Age(next, hws[r]) <= Age(next, lastWrite[hw[r][i].obj]))
  <1>1. next \in Seqnos /\ Budget \in Int /\ RingOK(next, Budget, olr[r], requests[r], hw[r], hws[r])
    BY BudgetType DEF GemInv, Sequencing
  <1>2. ring[hw[r][i].obj] = r /\ Guarded(hw[r], i, olr[r], lastRead[hw[r][i].obj])
    BY DEF Using, UseOK
  <1>3. ~(Age(next, hws[r]) <= Age(next, lastRead[hw[r][i].obj]))
    BY <1>1, <1>2, GuardYoung
  <1>4. ASSUME NumRings = 1, hw[r][i].write
        PROVE  /\ lastWrite[hw[r][i].obj] # 0
               /\ ~(Age(next, hws[r]) <= Age(next, lastWrite[hw[r][i].obj]))
    <2>1. Guarded(hw[r], i, olr[r], lastWrite[hw[r][i].obj])
      BY <1>4 DEF Using, WriteOK
    <2>2. lastWrite[hw[r][i].obj] # 0
      BY <2>1 DEF Guarded
    <2> QED BY <1>1, <2>1, <2>2, GuardYoung
  <1> QED BY <1>2, <1>3, <1>4 DEF Using

\* With one ring, what loses its last_write_seqno has been written.
LEMMA ClearsOver ==
    ASSUME GemAssumption, FewBatches, GemInv, UseInv, NumRings = 1, NEW W, Clears(W), NEW o \in Objects, o \in W,
           NEW r \in Rings
    PROVE  Age(next, hws[r]) <= Age(next, lastWrite[o])
  <1>1. PICK t \in Threads : /\ W = {th[t].obj} /\ th[t].pc \in {"rendered", "relock"} /\ th[t].s # 0
                             /\ lastWrite[th[t].obj] # 0 /\ Passed(th[t].s, lastWrite[th[t].obj])
    BY DEF Clears
  <1>2. o = th[t].obj
    BY <1>1
  <1>3. /\ th[t].on \in Rings /\ Age(next, hws[th[t].on]) <= Age(next, th[t].s)
        /\ Age(next, th[t].s) \in 1 .. Budget + 1
    BY <1>1 DEF UseInv, Knows, Waited
  <1>4. Age(next, lastWrite[o]) \in 1 .. Budget + 1
    BY <1>1, <1>2 DEF UseInv, WritesKnown
  <1>5. th[t].s \in Seqnos /\ lastWrite[o] \in Seqnos /\ next \in Seqnos /\ hws[r] \in Seqnos /\ Age(next, hws[r]) \in 1 .. Budget + 1
    BY ThreadFacts DEF GemInv, Lazy, ThreadRec, RecOK, Sequencing, RingOK
  <1>6. Age(next, th[t].s) + 1 < Mod \div 2 /\ Age(next, lastWrite[o]) + 1 < Mod \div 2
    <2> DEFINE H == Mod \div 2
    <2>1. H \in Nat /\ Budget \in Nat /\ Budget + 2 < H
      BY BudgetRoom, HalfMod DEF GemInv
    <2> HIDE DEF H
    <2>2. Age(next, th[t].s) + 1 < H /\ Age(next, lastWrite[o]) + 1 < H
      BY <1>3, <1>4, <2>1
    <2> QED BY <2>2 DEF H
  <1>7. Age(next, th[t].s) <= Age(next, lastWrite[o])
    BY <1>1, <1>2, <1>5, <1>6, AgeByPassed
  <1>8. th[t].on = r
    BY <1>3 DEF Rings
  <1> QED BY <1>3, <1>4, <1>5, <1>7, <1>8

\* What retires is used by no batch.
LEMMA RetireSteady ==
    ASSUME GemAssumption, FewBatches, GemInv, Listing, UseInv, NEW R, NEW W, RetireObjects(R, W), Clears(W), NEW r \in Rings
    PROVE  Steady(r)
  <1>1. \A o \in Objects : Settled(R, W, o)
    BY RetireSettles
  <1>2. ASSUME NEW i \in DOMAIN hw[r], IsBatch(hw[r][i]), Certain
        PROVE  /\ ring'[hw[r][i].obj] = ring[hw[r][i].obj] /\ lastRead'[hw[r][i].obj] = lastRead[hw[r][i].obj]
               /\ NumRings = 1 /\ hw[r][i].write => lastWrite'[hw[r][i].obj] = lastWrite[hw[r][i].obj]
    <2> DEFINE o == hw[r][i].obj
    <2>1. /\ o \in Objects /\ ring[o] = r /\ ~(Age(next, hws[r]) <= Age(next, lastRead[o]))
          /\ NumRings = 1 /\ hw[r][i].write => ~(Age(next, hws[r]) <= Age(next, lastWrite[o]))
      BY <1>2, BatchYoung DEF UseInv
    <2>2. NumRings = 1 /\ hw[r][i].write => o \notin W
      BY <2>1, ClearsOver
    <2> QED BY <1>1, <2>1, <2>2 DEF Settled
  <1> QED BY <1>2 DEF Steady

\* A step that neither dispatches nor resets keeps the batches guarded.
LEMMA UsingKept ==
    ASSUME GemAssumption, FewBatches, GemInv, Listing, UseInv, Calm,
           Stays \/ Adds \/ Takes \/ Retires \/ RetireWork \/ \E r \in Rings : Execute(r)
    PROVE  Using'
  <1>0. Using
    BY DEF UseInv
  <1>1. SUFFICES \A r \in Rings : Grows(r) /\ Steady(r)
    BY <1>0, UsingGrows
  <1>2. hw \in [Rings -> Seq(Commands)] /\ olr \in [Rings -> Seqnos]
    BY DEF GemInv, Sequencing, Lazy
  <1>3. CASE Stays
    BY <1>3 DEF Stays, Grows, Steady
  <1>4. CASE Adds
    <2>1. PICK p \in Rings, f \in Threads \cup {Nobody} : olr[p] # 0 /\ AddRequest(p, f)
      BY <1>4 DEF Adds
    <2>2. /\ hw' = [hw EXCEPT ![p] = Append(@, Breadcrumb(olr[p]))] /\ olr' = [olr EXCEPT ![p] = 0]
      BY <2>1 DEF AddRequest
    <2>3. \A r \in Rings : Grows(r)
      BY <1>2, <1>4, <2>2 DEF Adds, Grows
    <2> QED BY <1>4, <2>3 DEF Adds, Steady
  <1>5. CASE Takes
    <2>1. PICK p \in Rings : olr[p] = 0 /\ olr' = [olr EXCEPT ![p] = Taken(next)]
      BY <1>5 DEF Takes
    <2> QED BY <1>2, <1>5, <2>1 DEF Takes, Grows, Steady
  <1>6. CASE Retires
    <2>1. \A r \in Rings : Grows(r)
      BY <1>6 DEF Retires, Grows
    <2>2. PICK R, W : Retire(R, W) /\ Clears(W)
      BY <1>6 DEF Retires
    <2> QED BY <2>1, <2>2, RetireSteady DEF Retire
  <1>7. CASE RetireWork
    <2>1. \A r \in Rings : Grows(r)
      BY <1>7 DEF RetireWork, Grows
    <2>2. RetireObjects(Rings, {}) /\ Clears({})
      BY <1>7 DEF RetireWork, Clears
    <2> QED BY <2>1, <2>2, RetireSteady
  <1>8. ASSUME NEW p \in Rings, Execute(p) PROVE \A r \in Rings : Grows(r) /\ Steady(r)
    BY <1>2, <1>8 DEF Execute, Grows, Steady, gemVars, seqVars
  <1> QED BY <1>3, <1>4, <1>5, <1>6, <1>7, <1>8

\* The reset clears the command streams, if it succeeds.
LEMMA UsingReset ==
    ASSUME GemAssumption, GemInv, Using, ErrorWork \/ Unwedge PROVE Using'
  <1>0. Stays /\ ~TryReset /\ (work'.pc = "unwedge" => wedged') => Using'
    BY DEF Stays, Using, Apart, Certain
  <1>1. CASE Unwedge
    <2>1. TryReset => \A r \in Rings : hw'[r] = <<>> /\ DOMAIN hw'[r] = {}
      BY <1>1 DEF Unwedge, Using, gpuVars
    <2>2. work'.pc # "unwedge"
      BY <1>1 DEF Unwedge, GemInv, Works
    <2>3. Stays
      BY <1>1, StayKinds
    <2> QED BY <1>0, <2>1, <2>2, <2>3 DEF Using, Apart, UseOK, WriteOK
  <1>4. CASE ErrorWork /\ wedged /\ ~TryReset
    <2>1. Stays /\ wedged'
      BY <1>4 DEF ErrorWork, Stays, gemVars, gpuVars, seqVars
    <2> QED BY <1>0, <1>4, <2>1
  <1>2. CASE ErrorWork /\ ~wedged
    <2>1. Stays /\ Calm
      BY <1>2 DEF ErrorWork, Stays, Calm, gemVars, gpuVars, seqVars, GemInv, Works
    <2> QED BY <2>1, UsingGrows DEF Stays, Grows, Steady
  <1>3. CASE ErrorWork /\ wedged /\ TryReset
    <2>1. wedged' /\ ~Certain'
      BY <1>3 DEF ErrorWork, Certain
    <2>2. CASE hw' = [r \in Rings |-> <<>>]
      <3>1. \A r \in Rings : hw'[r] = <<>> /\ DOMAIN hw'[r] = {}
        BY <2>2
      <3> QED BY <2>1, <3>1 DEF Using, Apart
    <2>3. CASE hw' = hw /\ work' = [queued |-> FALSE, pc |-> "complete"]
      BY <2>1, <2>3 DEF Using, Apart
    <2> QED BY <1>3, <2>2, <2>3 DEF ErrorWork
  <1> QED BY <1>1, <1>2, <1>3, <1>4

\* What is dispatched without a semaphore and without clip rectangles
LEMMA DispatchIs ==
    ASSUME GemAssumption, GemInv, Plain, NEW t \in Threads, Knows(th[t]), Dispatch(t)
    PROVE  LET o == th[t].obj
               r == th[t].to
           IN  \/ Stays /\ Return(t)
               \/ /\ ~wedged /\ o \in Objects /\ r \in Rings /\ olr[r] \in Seqnos \ {0} /\ th[t].write \in BOOLEAN
                  /\ ring[o] \in {NoRing, r} /\ Dispatches(th[t]) /\ Holds(th[t]) /\ mutex = t
                  /\ hw' = [hw EXCEPT ![r] = Append(@, Batch(o, th[t].write))]
                  /\ MoveToActive(o, r, th[t].write)
                  /\ Goto(t, [th[t] EXCEPT !.pc = "request", !.from = NoRing, !.sem = 0])
                  /\ UNCHANGED <<next, olr, hws, requests, wedged, work, mutex>>
  <1> DEFINE o == th[t].obj
             r == th[t].to
             c == Batch(o, th[t].write)
  <1>1. Dispatches(th[t]) /\ Holds(th[t]) /\ Claims(th[t]) /\ th[t].op = "exec"
    <2>1. th[t].pc = "dispatch"
      BY Zenon DEF Dispatch, At
    <2>2. Dispatches(th[t]) /\ Holds(th[t])
      BY <2>1 DEF Dispatches, Holds, HoldPCs
    <2> QED BY <2>1, <2>2, ThreadFacts DEF RecOK, Claims
  <1>2. /\ o \in Objects /\ r \in Rings /\ olr[r] \in Seqnos \ {0} /\ th[t].write \in BOOLEAN /\ mutex = t
        /\ ring[o] \in {NoRing, r} /\ th[t].sem = 0
    BY <1>1, ThreadFacts DEF RecOK, ThreadRec, Knows, GemInv, Lazy
  <1>3. hw \in [Rings -> Seq(Commands)] /\ hw[r] \in Seq(Commands) /\ c \in Commands
    BY <1>2, ThreadFacts, ZenonT(40) DEF GemInv, Sequencing, Batch, Commands
  <1>4. hw[r] \o <<>> \o <<c>> = Append(hw[r], c)
    BY <1>3, ConcatEmptySeq, AppendIsConcat
  <1>5. \/ /\ ~wedged /\ hw' = [hw EXCEPT ![r] = @ \o <<>> \o <<Batch(o, th[t].write)>>]
           /\ MoveToActive(o, r, th[t].write)
           /\ Goto(t, [th[t] EXCEPT !.pc = "request", !.from = NoRing, !.sem = 0]) /\ mutex' = mutex
        \/ /\ hw' = hw \/ hw' = [hw EXCEPT ![r] = @ \o <<>> \o <<>>]
           /\ UNCHANGED <<active, ring, lastRead, lastWrite>> /\ Return(t)
    BY <1>2, Zenon DEF Dispatch, Plain
  <1>6. UNCHANGED <<next, olr, hws, requests, wedged, work>>
    BY Zenon DEF Dispatch, errVars
  <1>7. CASE /\ hw' = hw \/ hw' = [hw EXCEPT ![r] = @ \o <<>> \o <<>>]
             /\ UNCHANGED <<active, ring, lastRead, lastWrite>> /\ Return(t)
    <2>1. [hw EXCEPT ![r] = hw[r] \o <<>> \o <<>>] = hw
      <3>1. hw[r] \o <<>> \o <<>> = hw[r]
        BY <1>3, ConcatEmptySeq
      <3>2. [hw EXCEPT ![r] = hw[r]] = hw
        BY <1>3
      <3> QED BY <3>1, <3>2
    <2> QED BY <1>6, <1>7, <2>1 DEF Stays
  <1>8. CASE /\ ~wedged /\ hw' = [hw EXCEPT ![r] = @ \o <<>> \o <<Batch(o, th[t].write)>>]
             /\ MoveToActive(o, r, th[t].write)
             /\ Goto(t, [th[t] EXCEPT !.pc = "request", !.from = NoRing, !.sem = 0]) /\ mutex' = mutex
    <2>1. hw' = [hw EXCEPT ![r] = Append(@, c)]
      <3> HIDE DEF c
      <3>1. hw' = [hw EXCEPT ![r] = hw[r] \o <<>> \o <<c>>]
        BY <1>3, <1>8 DEF c
      <3> QED BY <1>4, <3>1
    <2> QED BY <1>1, <1>2, <1>6, <1>8, <2>1
  <1> QED BY <1>5, <1>7, <1>8

\* i915_gem_object_move_to_active gives the new batch its seqno.
LEMMA UsingDispatch ==
    ASSUME GemAssumption, FewBatches, GemInv, Listing, UseInv, Plain, Calm, NEW t \in Threads, Dispatch(t)
    PROVE  Using'
  <1> DEFINE o == th[t].obj
             r == th[t].to
             w == th[t].write
             c == Batch(o, w)
  <1>0. Using /\ Knows(th[t])
    BY DEF UseInv
  <1>1. CASE Stays
    BY <1>1, UsingKept
  <1>2. CASE /\ ~wedged /\ o \in Objects /\ r \in Rings /\ olr[r] \in Seqnos \ {0} /\ w \in BOOLEAN
             /\ ring[o] \in {NoRing, r}
             /\ hw' = [hw EXCEPT ![r] = Append(@, Batch(o, w))]
             /\ MoveToActive(o, r, w) /\ UNCHANGED <<next, olr, hws, wedged, work>>
    <2>1. /\ hw \in [Rings -> Seq(Commands)] /\ ring \in [Objects -> Rings \cup {NoRing}]
          /\ lastRead \in [Objects -> Seqnos] /\ lastWrite \in [Objects -> Seqnos]
      BY DEF GemInv, Sequencing, Lazy
    <2>2. /\ \A a \in Objects \ {o} : ring'[a] = ring[a] /\ lastRead'[a] = lastRead[a] /\ lastWrite'[a] = lastWrite[a]
          /\ ring'[o] = r /\ lastRead'[o] = olr[r] /\ lastWrite'[o] = IF w THEN olr[r] ELSE lastWrite[o]
      BY <1>2, <2>1 DEF MoveToActive
    <2>3. hw'[r] = Append(hw[r], Batch(o, w)) /\ \A p \in Rings \ {r} : hw'[p] = hw[p]
      BY <1>2, <2>1
    <2>4. \A p \in Rings : \A i \in DOMAIN hw[p] : IsBatch(hw[p][i]) => hw[p][i].obj \in Objects /\ ring[hw[p][i].obj] = p
      BY <1>0, <1>2, BatchYoung DEF Certain
    <2>5. \A p \in Rings \ {r} : \A i \in DOMAIN hw[p] : IsBatch(hw[p][i]) => hw[p][i].obj # o
      BY <1>2, <2>4 DEF Rings, NoRing
    <2>6. \A p \in Rings : UseOK(p, olr[p], hw[p], ring, lastRead) /\ (NumRings = 1 => WriteOK(olr[p], hw[p], lastWrite))
      BY <1>0, <1>2 DEF Using, Certain
    <2>7. ASSUME NEW p \in Rings
          PROVE  UseOK(p, olr[p], hw'[p], ring', lastRead') /\ (NumRings = 1 => WriteOK(olr[p], hw'[p], lastWrite'))
      <3>1. CASE p # r
        <4>1. \A i \in DOMAIN hw[p] : IsBatch(hw[p][i]) => hw[p][i].obj \in Objects \ {o}
          BY <2>4, <2>5, <3>1
        <4>2. \A i \in DOMAIN hw[p] : IsBatch(hw[p][i]) =>
                  /\ ring'[hw[p][i].obj] = ring[hw[p][i].obj] /\ lastRead'[hw[p][i].obj] = lastRead[hw[p][i].obj]
                  /\ lastWrite'[hw[p][i].obj] = lastWrite[hw[p][i].obj]
          BY <2>2, <4>1
        <4>3. UseOK(p, olr[p], hw[p], ring', lastRead') /\ (NumRings = 1 => WriteOK(olr[p], hw[p], lastWrite'))
          BY <2>6, <4>2, UseSame
        <4> QED BY <2>3, <3>1, <4>3
      <3>2. CASE p = r
        <4>1. \A i \in DOMAIN hw[r] : IsBatch(hw[r][i]) => hw[r][i].obj \in Objects
          BY <1>2, <2>4
        <4>2. /\ olr[r] \in Seqnos \ {0} /\ o \in Objects /\ w \in BOOLEAN /\ hw[r] \in Seq(Commands)
              /\ Marks(o, w, r, olr[r], ring, lastRead, lastWrite, ring', lastRead', lastWrite')
          BY <1>2, <2>1, <2>2 DEF Marks
        <4>3. /\ UseOK(r, olr[r], hw[r], ring, lastRead) => UseOK(r, olr[r], Append(hw[r], Batch(o, w)), ring', lastRead')
              /\ WriteOK(olr[r], hw[r], lastWrite) => WriteOK(olr[r], Append(hw[r], Batch(o, w)), lastWrite')
          <5> HIDE DEF o, r, w
          <5> QED BY <4>1, <4>2, UseEmit
        <4> HIDE DEF c, w, o
        <4>4. UseOK(r, olr[r], hw'[r], ring', lastRead') /\ (NumRings = 1 => WriteOK(olr[r], hw'[r], lastWrite'))
          BY <1>2, <2>3, <2>6, <4>3
        <4> QED BY <3>2, <4>4
      <3> QED BY <3>1, <3>2
    <2>8. ASSUME NEW p \in Rings, NEW i \in DOMAIN hw'[p], IsBatch(hw'[p][i])
          PROVE  hw'[p][i].obj \in Objects /\ ring'[hw'[p][i].obj] = p
      <3>1. CASE p = r /\ hw'[p][i] = c
        BY <1>2, <2>2, <3>1 DEF Batch
      <3>2. CASE ~(p = r /\ hw'[p][i] = c)
        <4>1. i \in DOMAIN hw[p] /\ hw'[p][i] = hw[p][i]
          <5>1. CASE p # r
            BY <2>3, <5>1
          <5>2. CASE p = r
            <6>1. hw[r] \in Seq(Commands) /\ hw'[r] = Append(hw[r], c)
              BY <1>2, <2>1, <2>3
            <6> HIDE DEF c
            <6> QED BY <3>2, <5>2, <6>1
          <5> QED BY <5>1, <5>2
        <4>2. hw[p][i].obj \in Objects /\ ring[hw[p][i].obj] = p
          BY <2>4, <2>8, <4>1
        <4>3. p # r => hw[p][i].obj # o
          BY <2>5, <2>8, <4>1
        <4> QED BY <2>2, <4>1, <4>2, <4>3
      <3> QED BY <3>1, <3>2
    <2>9. Apart'
      BY <2>8 DEF Apart
    <2>10. work'.pc # "unwedge"
      BY <1>0, <1>2 DEF Using
    <2> QED BY <1>2, <2>7, <2>8, <2>9, <2>10 DEF Using
  <1> QED BY <1>0, <1>1, <1>2, DispatchIs

\* Every step keeps the batches guarded by the seqnos of their objects.
LEMMA UsingOK ==
    ASSUME GemAssumption, FewBatches, GemInv, Listing, UseInv, Plain, [Next]_vars PROVE Using'
  <1>1. CASE ErrorWork \/ Unwedge
    BY <1>1, UsingReset DEF UseInv
  <1>2. CASE Calm
    BY <1>1, <1>2, Kinds, UsingKept, UsingDispatch
  <1> QED BY <1>1, <1>2, CalmKinds DEF GemInv

-----------------------------------------------------------------------------
(* Every step keeps what is known of the seqnos                            *)

\* Every step ages the seqnos in use alike, and leaves them in use.
LEMMA Ages ==
    ASSUME GemAssumption, FewBatches, GemInv, [Next]_vars
    PROVE  \E d \in {0, 1} : /\ Budget + d <= Budget'
                             /\ \A s \in Seqnos : Age(next, s) \in 1 .. Budget + 1 => Age(next', s) = Age(next, s) + d
  <1>1. GemInv' /\ Budget <= Budget'
    BY NextOK
  <1>2. \/ next' = next
        \/ next = 0 /\ next' = 1
        \/ next' = (Taken(next) + 1) % Mod /\ Budget' = Budget + 1
    <2>1. Stays \/ Adds \/ RetireWork \/ ErrorWork \/ (\E t \in Threads : Dispatch(t)) \/ (\E r \in Rings : Execute(r)) => next' = next
      BY Zenon DEF Stays, Adds, RetireWork, ErrorWork, Dispatch, Execute, seqVars
    <2>2. Takes => next' = (Taken(next) + 1) % Mod /\ Budget' = Budget + 1
      BY DEF Takes
    <2>3. Retires => next' = next \/ (next = 0 /\ next' = 1)
      BY Zenon DEF Retires
    <2> QED BY <2>1, <2>2, <2>3, Kinds
  <1> QED BY <1>1, <1>2, AgesAlike

\* What ages stays in use.
LEMMA InUse ==
    ASSUME GemAssumption, FewBatches, GemInv, [Next]_vars, NEW s \in Seqnos, Age(next, s) \in 1 .. Budget + 1
    PROVE  Age(next', s) \in 1 .. Budget' + 1
  <1>1. PICK d \in {0, 1} : /\ Budget + d <= Budget'
                            /\ \A x \in Seqnos : Age(next, x) \in 1 .. Budget + 1 => Age(next', x) = Age(next, x) + d
    BY Ages
  <1>2. Budget \in Nat
    BY BudgetType DEF GemInv
  <1>3. Budget' \in Nat
    <2>1. Budgeting'
      BY NextOK DEF GemInv
    <2>2. batches' \in Nat /\ Cardinality(Pending') \in Nat /\ Cardinality(Pending') <= batches'
      BY <2>1, FS_CardinalityType DEF Budgeting
    <2> QED BY <2>2 DEF Budget
  <1> QED BY <1>1, <1>2, <1>3

\* The order of two seqnos in use stays.
LEMMA AgeOrder ==
    ASSUME GemAssumption, FewBatches, GemInv, [Next]_vars, NEW s \in Seqnos, Age(next, s) \in 1 .. Budget + 1,
           NEW x \in Seqnos, Age(next, x) \in 1 .. Budget + 1, Age(next, s) <= Age(next, x)
    PROVE  Age(next', s) <= Age(next', x)
  <1>1. PICK d \in {0, 1} : \A y \in Seqnos : Age(next, y) \in 1 .. Budget + 1 => Age(next', y) = Age(next, y) + d
    BY Ages
  <1>2. Age(next', s) = Age(next, s) + d /\ Age(next', x) = Age(next, x) + d
    BY <1>1
  <1>3. Age(next, s) \in Int /\ Age(next, x) \in Int
    OBVIOUS
  <1> QED BY <1>2, <1>3

\* A last_write_seqno is what it was, nothing, or that of a new batch.
LEMMA WritesAre ==
    ASSUME GemAssumption, FewBatches, GemInv, [Next]_vars, NEW o \in Objects
    PROVE  lastWrite'[o] = lastWrite[o] \/ lastWrite'[o] = 0 \/ \E r \in Rings : lastWrite'[o] = olr[r]
  <1>1. CASE Stays \/ Adds \/ Takes \/ \E r \in Rings : Execute(r)
    BY <1>1 DEF Stays, Adds, Takes, Execute, gemVars
  <1>2. ASSUME NEW S, NEW W, MoveToInactive(S, W) PROVE lastWrite'[o] = lastWrite[o] \/ lastWrite'[o] = 0
    BY <1>2 DEF MoveToInactive
  <1>3. CASE Retires
    BY <1>2, <1>3 DEF Retires, Retire, RetireObjects
  <1>4. CASE RetireWork
    BY <1>2, <1>4 DEF RetireWork, RetireObjects
  <1>5. CASE ErrorWork
    <2>1. ResetLists \/ lastWrite' = lastWrite
      BY <1>5 DEF ErrorWork, gemVars
    <2> QED BY <1>2, <2>1 DEF ResetLists
  <1>6. ASSUME NEW t \in Threads, Dispatch(t)
        PROVE  lastWrite'[o] = lastWrite[o] \/ \E r \in Rings : lastWrite'[o] = olr[r]
    <2>1. Dispatches(th[t])
      BY <1>6, Zenon DEF Dispatch, At, Dispatches
    <2>2. th[t].to \in Rings /\ lastWrite \in [Objects -> Seqnos]
      BY <2>1, ThreadFacts DEF RecOK, GemInv, Lazy
    <2>3. lastWrite' = lastWrite \/ MoveToActive(th[t].obj, th[t].to, th[t].write)
      BY <1>6, Zenon DEF Dispatch
    <2> QED BY <2>2, <2>3 DEF MoveToActive
  <1> QED BY <1>1, <1>3, <1>4, <1>5, <1>6, Kinds

\* The last write of an object is one of the seqnos in use.
LEMMA WritesKnownOK ==
    ASSUME GemAssumption, FewBatches, GemInv, WritesKnown, [Next]_vars PROVE WritesKnown'
  <1>1. ASSUME NEW o \in Objects, lastWrite'[o] # 0 PROVE Age(next', lastWrite'[o]) \in 1 .. Budget' + 1
    <2>1. lastWrite'[o] \in Seqnos /\ Age(next, lastWrite'[o]) \in 1 .. Budget + 1
      <3>1. CASE lastWrite'[o] = lastWrite[o]
        BY <1>1, <3>1 DEF WritesKnown, GemInv, Lazy
      <3>2. ASSUME NEW r \in Rings, lastWrite'[o] = olr[r]
            PROVE  lastWrite'[o] \in Seqnos /\ Age(next, lastWrite'[o]) \in 1 .. Budget + 1
        <4>1. RingOK(next, Budget, olr[r], requests[r], hw[r], hws[r]) /\ Budget \in Nat
          BY BudgetType DEF GemInv, Sequencing
        <4>2. olr[r] \in Seqnos /\ Age(next, hws[r]) \in 1 .. Budget + 1 /\ Age(next, olr[r]) \in 1 .. Age(next, hws[r]) - 1
          BY <1>1, <3>2, <4>1 DEF RingOK
        <4>3. Age(next, olr[r]) \in 1 .. Budget + 1
          BY <4>1, <4>2
        <4> QED BY <3>2, <4>2, <4>3
      <3> QED BY <1>1, <3>1, <3>2, WritesAre
    <2> QED BY <2>1, InUse
  <1> QED BY <1>1 DEF WritesKnown

-----------------------------------------------------------------------------
(* Every step keeps what the threads know                                  *)

\* The new place of a thread is where it is after the step.
LEMMA KnowsNext == ASSUME NEW u \in Threads, NEW x, th'[u] = x, Knows(x)' PROVE Knows(th[u])'
  BY DEF Knows, Waited, Renders, Claims, Wraps, Dispatches, Asking, Waiting

\* What Knows says, part by part, after the step
LEMMA KnowsAll ==
    ASSUME NEW x, x.sem = 0, x.s # 0 => Age(next', x.s) \in 1 .. Budget' + 1,
           x.pc \in Asking => x.on \in Rings /\ x.s # 0,
           Waited(x) => x.on \in Rings /\ Age(next', hws'[x.on]) <= Age(next', x.s),
           Renders(x) => /\ x.s # 0 /\ x.on = ring'[x.obj]
                         /\ x.op = "read" => x.s = lastWrite'[x.obj]
                         /\ x.op # "read" => /\ x.s = lastRead'[x.obj]
                                             /\ \E j \in DOMAIN requests'[x.on] : requests'[x.on][j].s = x.s,
           Claims(x) => ring'[x.obj] \in {NoRing, x.to},
           x.pc = "access" => IF x.op = "read" THEN lastWrite'[x.obj] = 0 ELSE ring'[x.obj] = NoRing
    PROVE  Knows(x)'
  BY DEF Knows, Waited, Renders, Claims, Wraps, Dispatches, Asking, Waiting

\* A thread that knows nothing of the rendering of its object
LEMMA KnowsMost ==
    ASSUME NEW x, x.sem = 0, x.s # 0 => Age(next', x.s) \in 1 .. Budget' + 1,
           x.pc \in Asking => x.on \in Rings /\ x.s # 0,
           ~Waited(x), ~Renders(x), x.pc # "access", Claims(x) => ring'[x.obj] \in {NoRing, x.to}
    PROVE  Knows(x)'
  BY DEF Knows, Waited, Renders, Claims, Wraps, Dispatches, Asking, Waiting

\* A thread outside an ioctl relies on nothing.
LEMMA KnowsIdle == Knows(Idle)'
  <1>1. /\ Idle.pc = "idle" /\ Idle.sem = 0 /\ Idle.s = 0 /\ Idle.op = "none"
    BY DEF Idle
  <1>2. Idle.pc \notin Asking /\ ~Waited(Idle) /\ ~Renders(Idle) /\ ~Claims(Idle)
    BY <1>1 DEF Asking, Waiting, Waited, Renders, Claims
  <1> QED BY <1>1, <1>2, KnowsMost

\* A thread that returns from its ioctl relies on nothing any more.
LEMMA KnowsReturn == ASSUME GemAssumption, GemInv, NEW t \in Threads, Return(t) PROVE Knows(th[t])'
  <1>1. th'[t] = Idle
    BY ThreadFacts DEF Return, Goto
  <1> QED BY <1>1, KnowsIdle, KnowsNext

\* What a thread in an ioctl may rely on
LEMMA KnowsFacts ==
    ASSUME GemAssumption, FewBatches, GemInv, Listing, WritesKnown, [Next]_vars, NEW t \in Threads, Knows(th[t])
    PROVE  /\ th[t].sem = 0 /\ th[t].s \in Seqnos
           /\ th[t].s # 0 => Age(next, th[t].s) \in 1 .. Budget + 1 /\ Age(next', th[t].s) \in 1 .. Budget' + 1
           /\ \A o \in Objects : ring[o] # NoRing => /\ ring[o] \in Rings /\ lastRead[o] \in Seqnos \ {0}
                                                     /\ Age(next', lastRead[o]) \in 1 .. Budget' + 1
           /\ \A o \in Objects : lastWrite[o] # 0 => /\ ring[o] \in Rings /\ lastWrite[o] \in Seqnos \ {0}
                                                     /\ Age(next', lastWrite[o]) \in 1 .. Budget' + 1
           /\ \A o \in Objects : lastRead[o] # 0 => ring[o] \in Rings
           /\ \A r \in Rings : \A i \in DOMAIN requests[r] :
                  requests[r][i].s \in Seqnos \ {0} /\ Age(next', requests[r][i].s) \in 1 .. Budget' + 1
  <1>1. th[t].s \in Seqnos
    BY ThreadFacts DEF ThreadRec
  <1>2. ASSUME th[t].s # 0 PROVE Age(next, th[t].s) \in 1 .. Budget + 1 /\ Age(next', th[t].s) \in 1 .. Budget' + 1
    <2>1. Age(next, th[t].s) \in 1 .. Budget + 1
      BY <1>2 DEF Knows
    <2> QED BY <1>1, <2>1, InUse
  <1>3. ASSUME NEW o \in Objects, ring[o] # NoRing
        PROVE  ring[o] \in Rings /\ lastRead[o] \in Seqnos \ {0} /\ Age(next', lastRead[o]) \in 1 .. Budget' + 1
    BY <1>3, ActiveListed, InUse
  <1>4. ASSUME NEW o \in Objects, lastWrite[o] # 0
        PROVE  ring[o] \in Rings /\ lastWrite[o] \in Seqnos \ {0} /\ Age(next', lastWrite[o]) \in 1 .. Budget' + 1
    <2>1. ring[o] \in Rings /\ lastWrite[o] \in Seqnos /\ Age(next, lastWrite[o]) \in 1 .. Budget + 1
      BY <1>4 DEF GemInv, Lazy, WritesKnown
    <2> QED BY <1>4, <2>1, InUse
  <1>5. \A o \in Objects : lastRead[o] # 0 => ring[o] \in Rings
    BY DEF GemInv, Lazy
  <1>6. ASSUME NEW r \in Rings, NEW i \in DOMAIN requests[r]
        PROVE  requests[r][i].s \in Seqnos \ {0} /\ Age(next', requests[r][i].s) \in 1 .. Budget' + 1
    <2>1. requests[r] \in Seq(Reqs) /\ RingOK(next, Budget, olr[r], requests[r], hw[r], hws[r])
      BY DEF GemInv, Sequencing
    <2>2. requests[r][i] \in Reqs /\ Age(next, requests[r][i].s) \in 1 .. Budget + 1
      BY <2>1 DEF RingOK
    <2>3. requests[r][i].s \in Seqnos \ {0}
      BY <2>2 DEF Reqs
    <2> QED BY <2>2, <2>3, InUse
  <1>7. th[t].sem = 0
    BY DEF Knows
  <1> QED BY <1>1, <1>2, <1>3, <1>4, <1>5, <1>6, <1>7

\* A thread moves to a place where nothing is to be known but its seqno.
LEMMA KnowsMoves ==
    ASSUME GemAssumption, GemInv, NEW t \in Threads, NEW x, th' = [th EXCEPT ![t] = x],
           x.sem = 0, x.s # 0 => Age(next', x.s) \in 1 .. Budget' + 1,
           \/ x.pc \in {"lock", "sync", "render", "nonblock", "flush", "flushed", "request"}
           \/ x.pc \in Asking /\ x.then \in {"idle", "relock"} /\ x.on \in Rings /\ x.s # 0
           \/ x.pc = "relock" /\ x.s = 0
    PROVE  Knows(th[t])'
  <1>1. th'[t] = x
    BY ThreadFacts
  <1>2. /\ ~Waited(x) /\ ~Renders(x) /\ ~Claims(x) /\ x.pc # "access"
        /\ x.pc \in Asking => x.on \in Rings /\ x.s # 0
    BY DEF Asking, Waiting, Waited, Renders, Claims, Wraps, Dispatches
  <1> QED BY <1>1, <1>2, KnowsMost, KnowsNext

\* A thread that enters an ioctl, takes struct_mutex or flushes the lazy request
LEMMA KnowsStarts ==
    ASSUME GemAssumption, FewBatches, GemInv, Listing, WritesKnown, [Next]_vars, NEW t \in Threads, Knows(th[t]),
           Start(t) \/ Throttle(t) \/ LockMutex(t) \/ FlushOlr(t)
    PROVE  Knows(th[t])'
  <1> USE KnowsFacts
  <1>1. CASE Start(t)
    <2>1. PICK op \in Ops, o \in Objects, r \in Rings \cup {NoRing}, w \in BOOLEAN :
              th' = [th EXCEPT ![t] = [Idle EXCEPT !.pc = "lock", !.op = op, !.obj = o, !.to = r, !.write = w]]
      BY <1>1 DEF Start, Goto
    <2> DEFINE x == [Idle EXCEPT !.pc = "lock", !.op = op, !.obj = o, !.to = r, !.write = w]
    <2>2. x.sem = 0 /\ x.s = 0 /\ x.pc = "lock"
      BY DEF Idle
    <2> HIDE DEF x
    <2> QED BY <2>1, <2>2, KnowsMoves DEF x
  <1>2. CASE Throttle(t)
    <2>0. PICK r \in Rings : \E q \in Elements(requests[r]) :
              th' = [th EXCEPT ![t] = [Idle EXCEPT !.pc = "check", !.op = "throttle", !.on = r, !.s = q.s]]
      BY <1>2 DEF Throttle, Goto
    <2>1. PICK i \in DOMAIN requests[r] :
              th' = [th EXCEPT ![t] = [Idle EXCEPT !.pc = "check", !.op = "throttle", !.on = r, !.s = requests[r][i].s]]
      BY <2>0 DEF Elements
    <2> DEFINE x == [Idle EXCEPT !.pc = "check", !.op = "throttle", !.on = r, !.s = requests[r][i].s]
    <2>2. x.sem = 0 /\ x.s = requests[r][i].s /\ x.pc = "check" /\ x.then = "idle" /\ x.on = r
      BY DEF Idle
    <2>3. requests[r][i].s # 0 /\ Age(next', requests[r][i].s) \in 1 .. Budget' + 1
      BY Zenon
    <2> HIDE DEF x
    <2>4. th' = [th EXCEPT ![t] = x]
      BY <2>1 DEF x
    <2> QED BY <2>2, <2>3, <2>4, KnowsMoves DEF Asking
  <1>3. CASE LockMutex(t)
    <2> DEFINE x == [th[t] EXCEPT !.pc = FirstStep(th[t].op)]
    <2>1. th' = [th EXCEPT ![t] = x]
      BY <1>3, ThreadFacts DEF LockMutex, Go
    <2>2. th[t].op \in OpNames \ {"throttle"}
      <3>1. th[t].pc = "lock"
        BY <1>3 DEF LockMutex, At
      <3> QED BY <3>1, ThreadFacts DEF RecOK, ThreadRec
    <2>3. FirstStep(th[t].op) \in {"lock", "sync", "render", "nonblock", "flush", "flushed", "request"}
      BY <2>2 DEF FirstStep, OpNames
    <2>4. x.pc = FirstStep(th[t].op) /\ x.s = th[t].s /\ x.sem = th[t].sem
      BY ThreadFacts DEF ThreadRec
    <2> HIDE DEF x
    <2> QED BY <2>1, <2>3, <2>4, KnowsMoves
  <1>4. CASE FlushOlr(t)
    <2> DEFINE x == [th[t] EXCEPT !.pc = "flushed"]
    <2>1. Return(t) \/ th' = [th EXCEPT ![t] = x]
      BY <1>4, ThreadFacts DEF FlushOlr, Go
    <2>2. x.pc = "flushed" /\ x.s = th[t].s /\ x.sem = th[t].sem
      BY ThreadFacts DEF ThreadRec
    <2> HIDE DEF x
    <2> QED BY <2>1, <2>2, KnowsMoves, KnowsReturn
  <1> QED BY <1>1, <1>2, <1>3, <1>4

\* A thread that stays where it is, or only goes on with its wait, knows what it knew.
LEMMA KnowsKeeps ==
    ASSUME GemAssumption, NEW y \in ThreadRec, Knows(y), NEW p, p = y.pc \/ (p \in Asking /\ y.pc \in Asking),
           Holds(y) => UNCHANGED <<requests, ring, lastRead, lastWrite>>,
           y.s # 0 => Age(next', y.s) \in 1 .. Budget' + 1,
           Waited(y) => Age(next', hws'[y.on]) <= Age(next', y.s)
    PROVE  Knows([y EXCEPT !.pc = p])'
  <1> DEFINE x == [y EXCEPT !.pc = p]
  <1>1. /\ x.pc = p /\ x.op = y.op /\ x.obj = y.obj /\ x.to = y.to /\ x.on = y.on /\ x.s = y.s
        /\ x.then = y.then /\ x.sem = y.sem
    BY DEF ThreadRec
  <1> HIDE DEF x
  <1>2. /\ Waited(x) <=> Waited(y)
        /\ Renders(x) <=> Renders(y)
        /\ Claims(x) <=> Claims(y)
        /\ x.pc = "access" <=> y.pc = "access"
        /\ x.pc \in Asking => y.pc \in Asking
    BY <1>1 DEF Asking, Waiting, Waited, Renders, Claims, Wraps, Dispatches
  <1>3. /\ Renders(y) => Holds(y)
        /\ Claims(y) => Holds(y)
        /\ y.pc = "access" => Holds(y)
    BY DEF Renders, Claims, Wraps, Dispatches, Holds, HoldPCs
  <1>4. x.sem = 0 /\ (x.s # 0 => Age(next', x.s) \in 1 .. Budget' + 1) /\ (x.pc \in Asking => x.on \in Rings /\ x.s # 0)
    BY <1>1, <1>2 DEF Knows
  <1>5. Waited(x) => x.on \in Rings /\ Age(next', hws'[x.on]) <= Age(next', x.s)
    BY <1>1, <1>2 DEF Knows
  <1>6. Renders(x) => /\ x.s # 0 /\ x.on = ring'[x.obj]
                      /\ x.op = "read" => x.s = lastWrite'[x.obj]
                      /\ x.op # "read" => /\ x.s = lastRead'[x.obj]
                                          /\ \E j \in DOMAIN requests'[x.on] : requests'[x.on][j].s = x.s
    BY <1>1, <1>2, <1>3 DEF Knows
  <1>7. Claims(x) => ring'[x.obj] \in {NoRing, x.to}
    BY <1>1, <1>2, <1>3 DEF Knows
  <1>8. x.pc = "access" => IF x.op = "read" THEN lastWrite'[x.obj] = 0 ELSE ring'[x.obj] = NoRing
    BY <1>1, <1>2, <1>3 DEF Knows
  <1>9. Knows(x)'
    BY <1>4, <1>5, <1>6, <1>7, <1>8, KnowsAll
  <1> QED BY <1>9 DEF x

\* A wait is over: the seqno has been reached.
LEMMA KnowsSuccess ==
    ASSUME GemAssumption, FewBatches, GemInv, Listing, WritesKnown, [Next]_vars, NEW t \in Threads, Knows(th[t]),
           th[t].pc \in Asking, Stays, Done(th[t].on, th[t].s), WaitSucceeds(t)
    PROVE  Knows(th[t])'
  <1> DEFINE y == th[t]
  <1>1. CASE y.then = "idle"
    BY <1>1, KnowsReturn DEF WaitSucceeds
  <1>2. CASE y.then # "idle"
    <2>0. PICK x : x = [y EXCEPT !.pc = y.then]
      OBVIOUS
    <2>1. th'[t] = x
      BY <1>2, <2>0, ThreadFacts DEF WaitSucceeds, Go
    <2>2. y \in ThreadRec /\ y.then \in {"rendered", "relock", "wrapped", "dispatch"}
      BY <1>2, ThreadFacts DEF RecOK
    <2>3. /\ x.pc = y.then /\ x.op = y.op /\ x.obj = y.obj /\ x.to = y.to /\ x.on = y.on /\ x.s = y.s
          /\ x.then = y.then /\ x.sem = y.sem
      BY <2>0, <2>2 DEF ThreadRec
    <2>4. /\ y.on \in Rings /\ y.s \in Seqnos \ {0} /\ Age(next, y.s) \in 1 .. Budget + 1
          /\ y.sem = 0 /\ Age(next', y.s) \in 1 .. Budget' + 1
      BY KnowsFacts DEF Knows
    <2>5. Age(next, hws[y.on]) <= Age(next, y.s)
      BY <2>4, DoneByAge
    <2>6. UNCHANGED <<next, hws, ring, lastRead, lastWrite, requests>>
      BY DEF Stays
    <2> HIDE DEF y
    <2>14. y.pc \in Asking
      BY DEF y
    <2>7. /\ Renders(x) => Renders(y)
          /\ Claims(x) => Claims(y)
          /\ x.pc \notin Asking /\ x.pc # "access"
      BY <2>2, <2>3, <2>14 DEF Renders, Claims, Wraps, Dispatches, Asking, Waiting
    <2>13. Knows(y)
      BY DEF y
    <2>8. Renders(y) => /\ y.on = ring[y.obj]
                        /\ y.op = "read" => y.s = lastWrite[y.obj]
                        /\ y.op # "read" => /\ y.s = lastRead[y.obj]
                                            /\ \E j \in DOMAIN requests[y.on] : requests[y.on][j].s = y.s
      BY <2>13 DEF Knows
    <2>9. Claims(y) => ring[y.obj] \in {NoRing, y.to}
      BY <2>13 DEF Knows
    <2>10. /\ Renders(x) => /\ x.s # 0 /\ x.on = ring'[x.obj]
                            /\ x.op = "read" => x.s = lastWrite'[x.obj]
                            /\ x.op # "read" => /\ x.s = lastRead'[x.obj]
                                                /\ \E j \in DOMAIN requests'[x.on] : requests'[x.on][j].s = x.s
           /\ Claims(x) => ring'[x.obj] \in {NoRing, x.to}
      BY <2>3, <2>4, <2>6, <2>7, <2>8, <2>9
    <2>11. x.sem = 0 /\ Age(next', x.s) \in 1 .. Budget' + 1 /\ x.on \in Rings /\ Age(next', hws'[x.on]) <= Age(next', x.s)
      BY <2>3, <2>4, <2>5, <2>6
    <2>12. Knows(x)'
      BY <2>7, <2>10, <2>11, KnowsAll
    <2> QED BY <2>1, <2>12, KnowsNext
  <1> QED BY <1>1, <1>2

\* The steps of a wait
LEMMA KnowsWaits ==
    ASSUME GemAssumption, FewBatches, GemInv, Listing, WritesKnown, [Next]_vars, NEW t \in Threads, Knows(th[t]),
           WaitCheck(t) \/ WaitCond(t) \/ WaitSleep(t) \/ WaitExpires(t) \/ WaitInterrupted(t)
    PROVE  Knows(th[t])'
  <1>1. Stays
    BY StayKinds
  <1>2. th[t].pc \in Asking
    BY DEF WaitCheck, WaitCond, WaitSleep, WaitExpires, WaitInterrupted, At, Asking, Waiting
  <1>3. ASSUME NEW p \in Asking, Go(t, p) PROVE Knows(th[t])'
    <2>1. PICK y : y = th[t]
      OBVIOUS
    <2>2. PICK x : x = [y EXCEPT !.pc = p]
      OBVIOUS
    <2>3. th'[t] = x
      BY <1>3, <2>1, <2>2, ThreadFacts DEF Go
    <2>4. /\ y \in ThreadRec /\ Knows(y) /\ y.pc \in Asking
          /\ y.s # 0 => Age(next', y.s) \in 1 .. Budget' + 1
      BY <1>2, <2>1, KnowsFacts, ThreadFacts
    <2>5. ~Waited(y)
      BY <2>4 DEF Waited, Asking, Waiting
    <2>6. Knows([y EXCEPT !.pc = p])'
      BY <1>1, <2>4, <2>5, KnowsKeeps DEF Stays
    <2> QED BY <2>2, <2>3, <2>6, KnowsNext
  <1>4. ASSUME WaitFails(t) PROVE Knows(th[t])'
    <2>1. PICK x : x = [th[t] EXCEPT !.pc = "relock", !.s = 0]
      OBVIOUS
    <2>2. Return(t) \/ th' = [th EXCEPT ![t] = x]
      BY <1>4, <2>1 DEF WaitFails, Goto
    <2>3. x.pc = "relock" /\ x.s = 0 /\ x.sem = 0
      BY <2>1, KnowsFacts, ThreadFacts DEF ThreadRec
    <2> QED BY <2>2, <2>3, KnowsMoves, KnowsReturn
  <1>5. ASSUME Done(th[t].on, th[t].s), WaitSucceeds(t) PROVE Knows(th[t])'
    BY <1>1, <1>2, <1>5, KnowsSuccess
  <1>6. CASE WaitCheck(t)
    BY <1>3, <1>5, <1>6 DEF WaitCheck, Asking, Waiting
  <1>7. CASE WaitCond(t)
    BY <1>3, <1>4, <1>5, <1>7 DEF WaitCond, Asking, Waiting
  <1>8. CASE WaitSleep(t) \/ WaitExpires(t)
    <2>1. Go(t, "asleep") \/ Go(t, "expired") \/ Go(t, "cond")
      BY <1>8 DEF WaitSleep, WaitExpires
    <2> QED BY <1>3, <2>1 DEF Asking, Waiting
  <1>9. CASE WaitInterrupted(t)
    BY <1>4, <1>9 DEF WaitInterrupted
  <1> QED BY <1>6, <1>7, <1>8, <1>9

\* The request of a seqno that is waited for exists once the lazy one is added.
LEMMA RequestThere ==
    ASSUME GemAssumption, GemInv, Listing, NEW o \in Objects, ring[o] # NoRing, CheckOlr(ring[o], lastRead[o])
    PROVE  \E j \in DOMAIN requests'[ring[o]] : requests'[ring[o]][j].s = lastRead[o]
  <1>1. /\ ring[o] \in Rings /\ requests \in [Rings -> Seq(Reqs)]
        /\ \E i \in DOMAIN active[ring[o]] : active[ring[o]][i] = o
    BY ActiveListed DEF GemInv, Sequencing
  <1>2. lastRead[o] = olr[ring[o]] \/ \E j \in DOMAIN requests[ring[o]] : requests[ring[o]][j].s = lastRead[o]
    <2>1. ListOK(next, olr[ring[o]], requests[ring[o]], active[ring[o]], lastRead)
      BY <1>1 DEF Listing
    <2>2. PICK i \in DOMAIN active[ring[o]] : active[ring[o]][i] = o
      BY <1>1
    <2> QED BY <2>1, <2>2 DEF ListOK
  <1>3. CASE lastRead[o] = olr[ring[o]]
    <2>1. requests' = [requests EXCEPT ![ring[o]] = Append(@, [s |-> olr[ring[o]], file |-> Nobody])]
      BY <1>3 DEF CheckOlr, AddRequest
    <2> DEFINE q == requests[ring[o]]
               e == [s |-> olr[ring[o]], file |-> Nobody]
    <2>2. requests'[ring[o]] = Append(q, e) /\ q \in Seq(Reqs) /\ e.s = lastRead[o]
      BY <1>1, <1>3, <2>1
    <2> HIDE DEF q, e
    <2>3. Len(q) + 1 \in DOMAIN Append(q, e) /\ Append(q, e)[Len(q) + 1] = e
      BY <2>2
    <2> QED BY <2>2, <2>3
  <1>4. CASE lastRead[o] # olr[ring[o]]
    BY <1>2, <1>4 DEF CheckOlr
  <1> QED BY <1>3, <1>4

\* i915_gem_object_wait_rendering, up to the sleep
LEMMA KnowsWaitRendering ==
    ASSUME GemAssumption, FewBatches, GemInv, Listing, WritesKnown, [Next]_vars, NEW t \in Threads, Knows(th[t]),
           WaitRendering(t)
    PROVE  Knows(th[t])'
  <1>1. PICK y : y = th[t]
    OBVIOUS
  <1>2. /\ y \in ThreadRec /\ RecOK(y) /\ y.pc = "render" /\ y.sem = 0 /\ y.s \in Seqnos
        /\ y.s # 0 => Age(next', y.s) \in 1 .. Budget' + 1
    BY <1>1, KnowsFacts, ThreadFacts DEF WaitRendering, At
  <1>3. y.obj \in Objects /\ UNCHANGED <<ring, lastRead, lastWrite, hws>>
    BY <1>2 DEF RecOK, Holds, HoldPCs, WaitRendering
  <1> DEFINE s == IF y.op = "read" THEN lastWrite[y.obj] ELSE lastRead[y.obj]
  <1>4. RenderSeqno(t) = s
    BY <1>1 DEF RenderSeqno
  <1>5. CASE s = 0
    <2>1. PICK x : x = [y EXCEPT !.pc = AfterRender(t)]
      OBVIOUS
    <2>2. th'[t] = x
      BY <1>1, <1>4, <1>5, <2>1, ThreadFacts DEF WaitRendering, Go
    <2>3. /\ x.pc = IF y.op = "exec" THEN "begin" ELSE "access"
          /\ x.op = y.op /\ x.obj = y.obj /\ x.to = y.to /\ x.s = y.s /\ x.sem = y.sem
      BY <1>1, <1>2, <2>1 DEF ThreadRec, AfterRender
    <2>4. IF y.op = "read" THEN lastWrite'[y.obj] = 0 ELSE ring'[y.obj] = NoRing
      BY <1>3, <1>5 DEF GemInv, Lazy
    <2>5. x.pc \notin Asking /\ ~Waited(x) /\ ~Renders(x)
      BY <2>3 DEF Asking, Waiting, Waited, Renders
    <2>6. Claims(x) => ring'[x.obj] \in {NoRing, x.to}
      BY <2>3, <2>4 DEF Claims
    <2>7. x.pc = "access" => IF x.op = "read" THEN lastWrite'[x.obj] = 0 ELSE ring'[x.obj] = NoRing
      BY <2>3, <2>4
    <2>8. Knows(x)'
      BY <1>2, <2>3, <2>5, <2>6, <2>7, KnowsAll
    <2> QED BY <2>2, <2>8, KnowsNext
  <1>6. CASE s # 0 /\ wedged
    BY <1>4, <1>6, KnowsReturn DEF WaitRendering, WaitSeqno
  <1>7. CASE s # 0 /\ ~wedged
    <2>1. CheckOlr(ring[y.obj], s)
      BY <1>1, <1>4, <1>7 DEF WaitRendering, WaitSeqno
    <2>2. ring[y.obj] \in Rings /\ ring[y.obj] # NoRing /\ Age(next', s) \in 1 .. Budget' + 1
      BY <1>3, <1>7, KnowsFacts DEF NoRing, Rings
    <2>3. PICK x : x = [y EXCEPT !.pc = "check", !.on = ring[y.obj], !.s = s, !.then = "rendered"]
      OBVIOUS
    <2>4. th'[t] = x
      BY <1>1, <1>4, <1>7, <2>3, ThreadFacts DEF WaitRendering, WaitSeqno, Goto
    <2>5. /\ x.pc = "check" /\ x.op = y.op /\ x.obj = y.obj /\ x.on = ring[y.obj] /\ x.s = s
          /\ x.then = "rendered" /\ x.sem = y.sem
      BY <1>2, <2>3 DEF ThreadRec
    <2>6. y.op # "read" => \E j \in DOMAIN requests'[ring[y.obj]] : requests'[ring[y.obj]][j].s = s
      BY <1>3, <2>1, <2>2, RequestThere
    <2>7. ~Waited(x) /\ ~Claims(x)
      BY <2>5 DEF Waited, Claims, Wraps, Dispatches
    <2>8. /\ x.s # 0 /\ x.on = ring'[x.obj]
          /\ x.op = "read" => x.s = lastWrite'[x.obj]
          /\ x.op # "read" => /\ x.s = lastRead'[x.obj]
                              /\ \E j \in DOMAIN requests'[x.on] : requests'[x.on][j].s = x.s
      BY <1>3, <1>7, <2>5, <2>6
    <2>9. Knows(x)'
      <3> HIDE DEF s
      <3> QED BY <1>2, <2>2, <2>5, <2>7, <2>8, KnowsAll
    <2> QED BY <2>4, <2>9, KnowsNext
  <1> QED BY <1>5, <1>6, <1>7

\* The wait is over: the object has retired, or its last write is done.
LEMMA KnowsRendered ==
    ASSUME GemAssumption, FewBatches, GemInv, Listing, WritesKnown, [Next]_vars, NEW t \in Threads, Knows(th[t]),
           Rendered(t)
    PROVE  Knows(th[t])'
  <1>1. PICK y : y = th[t]
    OBVIOUS
  <1>2. y \in ThreadRec /\ RecOK(y) /\ y.pc = "rendered" /\ y.sem = 0 /\ y.s \in Seqnos /\ Knows(y)
    BY <1>1, KnowsFacts, ThreadFacts DEF Rendered, At
  <1>3. y.obj \in Objects
    BY <1>2 DEF RecOK, Holds, HoldPCs
  <1>4. PICK x : x = [y EXCEPT !.pc = AfterRender(t), !.on = NoRing, !.s = 0, !.then = "idle"]
    OBVIOUS
  <1>5. th'[t] = x
    BY <1>1, <1>4, ThreadFacts DEF Rendered, Goto
  <1>6. /\ x.pc = IF y.op = "exec" THEN "begin" ELSE "access"
        /\ x.op = y.op /\ x.obj = y.obj /\ x.to = y.to /\ x.s = 0 /\ x.sem = y.sem
    BY <1>1, <1>2, <1>4 DEF ThreadRec, AfterRender
  <1> DEFINE o == y.obj
             W == IF y.s # 0 /\ lastWrite[o] # 0 /\ Passed(y.s, lastWrite[o]) THEN {o} ELSE {}
  <1>7. Settled({y.on}, W, o)
    <2>1. RetireObjects({y.on}, W)
      BY <1>1 DEF Rendered, FinishRendering, Retire
    <2> QED BY <1>3, <2>1, RetireSettles
  <1>8. /\ y.s # 0 /\ y.on = ring[o] /\ y.on \in Rings /\ Age(next, hws[y.on]) <= Age(next, y.s)
        /\ y.op = "read" => y.s = lastWrite[o]
        /\ y.op # "read" => /\ y.s = lastRead[o]
                            /\ \E j \in DOMAIN requests[y.on] : requests[y.on][j].s = y.s
    BY <1>2 DEF Knows, Renders, Waited
  <1>9. CASE y.op = "read"
    <2>1. Passed(y.s, lastWrite[o])
      <3>1. y.s - y.s = 0 /\ Mod \in Nat /\ Mod >= 6 /\ Mod \div 2 \in Nat /\ Mod = 2 * (Mod \div 2)
        BY <1>2, Room, HalfMod DEF Seqnos
      <3>2. 0 % Mod = 0
        BY <3>1, ModLow
      <3> QED BY <1>8, <1>9, <3>1, <3>2 DEF Passed
    <2>2. o \in W
      BY <1>8, <1>9, <2>1
    <2>3. lastWrite'[o] = 0
      <3> HIDE DEF W
      <3> QED BY <1>7, <2>2 DEF Settled
    <2>4. x.pc = "access" /\ ~Claims(x)
      BY <1>6, <1>9 DEF Claims
    <2>5. x.pc \notin Asking /\ ~Waited(x) /\ ~Renders(x)
      BY <2>4 DEF Asking, Waiting, Waited, Renders
    <2>6. Knows(x)'
      BY <1>2, <1>6, <1>9, <2>3, <2>4, <2>5, KnowsAll
    <2> QED BY <1>5, <2>6, KnowsNext
  <1>10. CASE y.op # "read"
    <2>1. requests[ring[o]] # <<>> /\ Age(next, hws[ring[o]]) <= Age(next, lastRead[o]) /\ ring[o] \in {y.on} \cap Rings
      BY <1>8, <1>10
    <2>2. ring'[o] = NoRing
      <3> HIDE DEF W, o
      <3> QED BY <1>7, <2>1 DEF Settled
    <2>3. x.pc \notin Asking /\ ~Waited(x) /\ ~Renders(x)
      BY <1>6 DEF Asking, Waiting, Waited, Renders
    <2>4. Claims(x) => ring'[x.obj] \in {NoRing, x.to}
      BY <1>6, <2>2
    <2>5. x.pc = "access" => IF x.op = "read" THEN lastWrite'[x.obj] = 0 ELSE ring'[x.obj] = NoRing
      BY <1>6, <1>10, <2>2
    <2>6. Knows(x)'
      BY <1>2, <1>6, <2>3, <2>4, <2>5, KnowsAll
    <2> QED BY <1>5, <2>6, KnowsNext
  <1> QED BY <1>9, <1>10

\* The wait without the mutex, and what follows it
LEMMA KnowsNonblocking ==
    ASSUME GemAssumption, FewBatches, GemInv, Listing, WritesKnown, [Next]_vars, NEW t \in Threads, Knows(th[t]),
           Nonblocking(t) \/ Relock(t)
    PROVE  Knows(th[t])'
  <1>1. th[t] \in ThreadRec /\ RecOK(th[t])
    BY ThreadFacts
  <1>2. CASE Relock(t)
    <2>1. PICK x : x = [th[t] EXCEPT !.pc = "render", !.on = NoRing, !.s = 0, !.then = "idle"]
      OBVIOUS
    <2>2. Return(t) \/ th' = [th EXCEPT ![t] = x]
      BY <1>2, <2>1 DEF Relock, Goto
    <2>3. x.pc = "render" /\ x.s = 0 /\ x.sem = 0
      BY <1>1, <2>1, KnowsFacts DEF ThreadRec
    <2> QED BY <2>2, <2>3, KnowsMoves, KnowsReturn
  <1>3. CASE Nonblocking(t)
    <2> DEFINE o == th[t].obj
               s == RenderSeqno(t)
    <2>1. o \in Objects
      BY <1>1, <1>3 DEF RecOK, Holds, HoldPCs, Nonblocking, At
    <2>2. CASE s = 0
      <3>1. PICK x : x = [th[t] EXCEPT !.pc = "render"]
        OBVIOUS
      <3>2. th' = [th EXCEPT ![t] = x]
        BY <1>3, <2>2, <3>1, ThreadFacts DEF Nonblocking, Go
      <3>3. x.pc = "render" /\ x.s = th[t].s /\ x.sem = 0
        BY <1>1, <3>1, KnowsFacts DEF ThreadRec
      <3> QED BY <3>2, <3>3, KnowsFacts, KnowsMoves
    <2>3. CASE s # 0 /\ wedged
      BY <1>3, <2>3, KnowsReturn DEF Nonblocking
    <2>4. CASE s # 0 /\ ~wedged
      <3>1. ring[o] \in Rings /\ Age(next', s) \in 1 .. Budget' + 1
        BY <2>1, <2>4, KnowsFacts DEF RenderSeqno, NoRing, Rings
      <3>2. PICK x : x = [th[t] EXCEPT !.pc = "check", !.on = ring[o], !.s = s, !.then = "relock"]
        OBVIOUS
      <3>3. th' = [th EXCEPT ![t] = x]
        BY <1>3, <2>4, <3>2 DEF Nonblocking, Goto
      <3>4. x.pc = "check" /\ x.on = ring[o] /\ x.s = s /\ x.then = "relock" /\ x.sem = 0
        BY <1>1, <3>2, KnowsFacts DEF ThreadRec
      <3> HIDE DEF s
      <3> QED BY <2>4, <3>1, <3>3, <3>4, KnowsMoves DEF Asking
    <2> QED BY <2>2, <2>3, <2>4
  <1> QED BY <1>2, <1>3

\* A thread that claims its object moves on.
LEMMA KnowsClaims ==
    ASSUME GemAssumption, GemInv, NEW t \in Threads, NEW x, th'[t] = x,
           x.sem = 0, x.s # 0 => Age(next', x.s) \in 1 .. Budget' + 1,
           \/ x.pc \in {"begin", "wrap", "wrapped", "dispatch"}
           \/ x.pc = "check" /\ x.then \in {"wrapped", "dispatch"} /\ x.on \in Rings /\ x.s # 0,
           ring'[x.obj] \in {NoRing, x.to}
    PROVE  Knows(th[t])'
  <1>1. /\ ~Waited(x) /\ ~Renders(x) /\ x.pc # "access"
        /\ x.pc \in Asking => x.on \in Rings /\ x.s # 0
    BY DEF Asking, Waiting, Waited, Renders
  <1> QED BY <1>1, KnowsMost, KnowsNext

\* What the retiring leaves an object with: its ring, or none
LEMMA RetireRing ==
    ASSUME GemAssumption, FewBatches, GemInv, Listing, NEW R, NEW W, RetireObjects(R, W), NEW o \in Objects
    PROVE  ring'[o] \in {ring[o], NoRing}
  BY RetireSettles DEF Settled

\* i915_gem_object_flush_active retires requests before it looks at the object.
LEMMA KnowsFlush ==
    ASSUME GemAssumption, FewBatches, GemInv, Listing, WritesKnown, [Next]_vars, NEW t \in Threads, Knows(th[t]),
           FlushRetire(t)
    PROVE  Knows(th[t])'
  <1>1. th[t] \in ThreadRec /\ RecOK(th[t]) /\ th[t].pc = "flushed"
    BY ThreadFacts DEF FlushRetire, At
  <1> DEFINE o == th[t].obj
  <1>2. o \in Objects /\ th[t].then = "idle"
    BY <1>1 DEF RecOK, Holds, HoldPCs
  <1>3. CASE ring'[o] = NoRing
    <2>1. th'[t] = Idle
      BY <1>3, ThreadFacts DEF FlushRetire, Goto
    <2> QED BY <2>1, KnowsIdle, KnowsNext
  <1>4. CASE ring'[o] # NoRing
    <2>1. ring[o] # NoRing
      <3>1. ring'[o] \in {ring[o], NoRing}
        BY <1>2, RetireRing DEF FlushRetire, Retire
      <3> QED BY <1>4, <3>1
    <2>2. ring[o] \in Rings /\ lastRead[o] # 0 /\ Age(next', lastRead[o]) \in 1 .. Budget' + 1
      BY <1>2, <2>1, KnowsFacts
    <2>3. PICK x : x = [th[t] EXCEPT !.pc = "check", !.on = ring[o], !.s = lastRead[o]]
      OBVIOUS
    <2>4. th' = [th EXCEPT ![t] = x]
      BY <1>4, <2>3 DEF FlushRetire, Goto
    <2>5. x.pc = "check" /\ x.on = ring[o] /\ x.s = lastRead[o] /\ x.then = "idle" /\ x.sem = 0
      BY <1>1, <1>2, <2>3, KnowsFacts DEF ThreadRec
    <2> QED BY <2>2, <2>4, <2>5, KnowsMoves DEF Asking
  <1> QED BY <1>3, <1>4

\* Where the rings do not signal each other, an execbuffer waits for its object.
LEMMA KnowsSync ==
    ASSUME GemAssumption, FewBatches, GemInv, ListInv, WritesKnown, Plain, [Next]_vars, NEW t \in Threads, Knows(th[t]),
           ObjectSync(t)
    PROVE  Knows(th[t])'
  <1>0. Listing /\ semaphores \in SemaphoreModes
    BY DEF ListInv, Typing
  <1>1. th[t] \in ThreadRec /\ RecOK(th[t]) /\ th[t].pc = "sync"
    BY ThreadFacts DEF ObjectSync, At
  <1> DEFINE o == th[t].obj
  <1>2. o \in Objects /\ th[t].to \in Rings /\ ring[o] \in Rings \cup {NoRing} /\ ring' = ring
    BY <1>1 DEF RecOK, Holds, HoldPCs, GemInv, Lazy, ObjectSync
  <1>3. CASE ring[o] \in {NoRing, th[t].to} /\ Go(t, "begin")
    <2>1. PICK x : x = [th[t] EXCEPT !.pc = "begin"]
      OBVIOUS
    <2>2. th'[t] = x
      BY <1>3, <2>1, ThreadFacts DEF Go
    <2>3. x.pc = "begin" /\ x.obj = o /\ x.to = th[t].to /\ x.s = th[t].s /\ x.sem = 0
      BY <1>0, <1>1, <2>1, KnowsFacts DEF ThreadRec
    <2> QED BY <1>0, <1>2, <1>3, <2>2, <2>3, KnowsFacts, KnowsClaims
  <1>4. CASE Go(t, "render")
    <2>1. PICK x : x = [th[t] EXCEPT !.pc = "render"]
      OBVIOUS
    <2>2. th' = [th EXCEPT ![t] = x]
      BY <1>4, <2>1 DEF Go
    <2>3. x.pc = "render" /\ x.s = th[t].s /\ x.sem = 0
      BY <1>0, <1>1, <2>1, KnowsFacts DEF ThreadRec
    <2> QED BY <1>0, <2>2, <2>3, KnowsFacts, KnowsMoves
  <1>5. ~(ring[o] \notin {NoRing, th[t].to} /\ semaphores)
    <2>1. CASE NumRings = 1
      BY <1>2, <2>1 DEF Rings
    <2>2. CASE TRUE \notin SemaphoreModes
      <3>1. semaphores \in BOOLEAN
        BY <1>0 DEF GemAssumption
      <3>2. semaphores # TRUE
        BY <1>0, <2>2
      <3> QED BY <3>1, <3>2
    <2> QED BY <2>1, <2>2 DEF Plain
  <1> QED BY <1>3, <1>4, <1>5 DEF ObjectSync

\* What the execbuffer claims stays its own while its ring access goes on.
LEMMA KnowsRing ==
    ASSUME GemAssumption, FewBatches, GemInv, Listing, WritesKnown, [Next]_vars, NEW t \in Threads, Knows(th[t]),
           RingBegin(t) \/ IdleRing(t) \/ Wrapped(t) \/ WaitForSpace(t)
    PROVE  Knows(th[t])'
  <1>1. PICK y : y = th[t]
    OBVIOUS
  <1>2. /\ y \in ThreadRec /\ RecOK(y) /\ y.pc \in {"begin", "wrap", "wrapped", "dispatch"} /\ y.sem = 0
        /\ y.s # 0 => Age(next', y.s) \in 1 .. Budget' + 1
    BY <1>1, ThreadFacts, KnowsFacts DEF RingBegin, IdleRing, Wrapped, WaitForSpace, At
  <1>3. Claims(y) /\ y.to \in Rings /\ y.obj \in Objects
    BY <1>2 DEF RecOK, Claims, Wraps, Dispatches, Holds, HoldPCs
  <1>4. ring[y.obj] \in {NoRing, y.to}
    BY <1>1, <1>3 DEF Knows
  <1>5. ASSUME NEW p \in {"begin", "wrap", "wrapped", "dispatch"}, NEW n, NEW s \in {0, y.s}, NEW then,
               th'[t] = [y EXCEPT !.pc = p, !.on = n, !.s = s, !.then = then], ring'[y.obj] \in {NoRing, y.to}
        PROVE  Knows(th[t])'
    <2>1. PICK x : x = [y EXCEPT !.pc = p, !.on = n, !.s = s, !.then = then]
      OBVIOUS
    <2>2. x.pc = p /\ x.obj = y.obj /\ x.to = y.to /\ x.s = s /\ x.sem = 0
      BY <1>2, <2>1 DEF ThreadRec
    <2> QED BY <1>2, <1>5, <2>1, <2>2, KnowsClaims
  <1>6. ASSUME NEW r \in Rings, NEW i \in DOMAIN requests[r], NEW then \in {"wrapped", "dispatch"},
               WaitSeqno(t, r, requests[r][i].s, then), ring' = ring
        PROVE  Knows(th[t])'
    <2>1. CASE wedged
      BY <1>6, <2>1, KnowsReturn DEF WaitSeqno
    <2>2. CASE ~wedged
      <3>1. PICK x : x = [y EXCEPT !.pc = "check", !.on = r, !.s = requests[r][i].s, !.then = then]
        OBVIOUS
      <3>2. th'[t] = x
        BY <1>1, <1>6, <2>2, <3>1, ThreadFacts DEF WaitSeqno, Goto
      <3>3. /\ x.pc = "check" /\ x.obj = y.obj /\ x.to = y.to /\ x.s = requests[r][i].s /\ x.sem = 0
            /\ x.on = r /\ x.then = then
        BY <1>2, <3>1 DEF ThreadRec
      <3>4. requests[r][i].s # 0 /\ Age(next', requests[r][i].s) \in 1 .. Budget' + 1
        BY KnowsFacts, Zenon
      <3> QED BY <1>4, <1>6, <3>2, <3>3, <3>4, KnowsClaims
    <2> QED BY <2>1, <2>2
  <1>7. ASSUME NEW p \in {"begin", "wrap", "wrapped", "dispatch"}, th'[t] = [y EXCEPT !.pc = p], ring' = ring
        PROVE  Knows(th[t])'
    <2>1. PICK x : x = [y EXCEPT !.pc = p]
      OBVIOUS
    <2>2. x.pc = p /\ x.obj = y.obj /\ x.to = y.to /\ x.s = y.s /\ x.sem = 0
      BY <1>2, <2>1 DEF ThreadRec
    <2> QED BY <1>2, <1>4, <1>7, <2>1, <2>2, KnowsClaims
  <1>8. CASE RingBegin(t)
    <2>1. \/ Return(t)
          \/ th' = [th EXCEPT ![t].pc = "dispatch"]
          \/ th' = [th EXCEPT ![t] = [th[t] EXCEPT !.pc = "wrap", !.on = 1]]
      BY <1>8 DEF RingBegin, Go, Goto
    <2>2. ring' = ring
      BY <1>8 DEF RingBegin, gemVars
    <2>3. CASE th' = [th EXCEPT ![t].pc = "dispatch"]
      <3>1. th'[t] = [y EXCEPT !.pc = "dispatch"]
        BY <1>1, <2>3, ThreadFacts
      <3> QED BY <1>7, <2>2, <3>1
    <2>4. CASE th' = [th EXCEPT ![t] = [th[t] EXCEPT !.pc = "wrap", !.on = 1]]
      <3>1. PICK n : n = 1
        OBVIOUS
      <3>2. th'[t] = [y EXCEPT !.pc = "wrap", !.on = n, !.s = y.s, !.then = y.then]
        BY <1>1, <1>2, <2>4, <3>1, ThreadFacts DEF ThreadRec
      <3>3. ring'[y.obj] \in {NoRing, y.to} /\ y.s \in {0, y.s}
        BY <1>4, <2>2
      <3> QED BY <1>5, <3>2, <3>3
    <2> QED BY <2>1, <2>3, <2>4, KnowsReturn
  <1>9. CASE IdleRing(t)
    <2>1. ring' = ring /\ y.on \in Rings /\ y.pc = "wrap"
      BY <1>1, <1>2, <1>9 DEF IdleRing, RecOK, Wraps, At
    <2>2. \/ Return(t) \/ th' = th
          \/ th' = [th EXCEPT ![t].pc = "wrapped"]
          \/ requests[y.on] # <<>> /\ WaitSeqno(t, y.on, requests[y.on][Len(requests[y.on])].s, "wrapped")
      BY <1>1, <1>9 DEF IdleRing, Go
    <2>3. CASE th' = th
      <3>1. th'[t] = [y EXCEPT !.pc = "wrap"]
        BY <1>1, <1>2, <2>1, <2>3 DEF ThreadRec
      <3> QED BY <1>7, <2>1, <3>1
    <2>4. CASE th' = [th EXCEPT ![t].pc = "wrapped"]
      <3>1. th'[t] = [y EXCEPT !.pc = "wrapped"]
        BY <1>1, <2>4, ThreadFacts
      <3> QED BY <1>7, <2>1, <3>1
    <2>5. CASE requests[y.on] # <<>> /\ WaitSeqno(t, y.on, requests[y.on][Len(requests[y.on])].s, "wrapped")
      <3>1. requests[y.on] \in Seq(Reqs)
        BY <2>1 DEF GemInv, Sequencing
      <3>2. Len(requests[y.on]) \in DOMAIN requests[y.on]
        BY <2>5, <3>1
      <3> QED BY <1>6, <2>1, <2>5, <3>2
    <2> QED BY <2>2, <2>3, <2>4, <2>5, KnowsReturn
  <1>10. CASE Wrapped(t)
    <2>1. CASE ~LastRing(th[t].on)
      <3>1. ring' = ring /\ th' = [th EXCEPT ![t] = [th[t] EXCEPT !.pc = "wrap", !.on = @ + 1]]
        BY <1>10, <2>1 DEF Wrapped, Goto, gemVars
      <3>2. th'[t] = [y EXCEPT !.pc = "wrap", !.on = y.on + 1, !.s = y.s, !.then = y.then]
        BY <1>1, <1>2, <3>1, ThreadFacts DEF ThreadRec
      <3> QED BY <1>4, <1>5, <3>1, <3>2
    <2>2. CASE LastRing(th[t].on)
      <3>1. /\ RetireObjects(Rings, {})
            /\ th' = [th EXCEPT ![t] = [th[t] EXCEPT !.pc = "begin", !.on = NoRing, !.s = 0, !.then = "idle"]]
        BY <1>10, <2>2 DEF Wrapped, Goto, Retire
      <3>2. ring'[y.obj] \in {NoRing, y.to}
        BY <1>3, <1>4, <3>1, RetireRing
      <3>3. th'[t] = [y EXCEPT !.pc = "begin", !.on = NoRing, !.s = 0, !.then = "idle"]
        BY <1>1, <3>1, ThreadFacts
      <3> QED BY <1>5, <3>2, <3>3
    <2> QED BY <2>1, <2>2
  <1>11. CASE WaitForSpace(t)
    <2>1. y.pc = "dispatch"
      BY <1>1, <1>11 DEF WaitForSpace, At
    <2>2. CASE Remaining({y.to}) # requests
      <3>1. /\ RetireObjects({y.to}, {})
            /\ th' = [th EXCEPT ![t] = [th[t] EXCEPT !.on = NoRing, !.s = 0, !.then = "idle"]]
        BY <1>1, <1>11, <2>2 DEF WaitForSpace, Goto, Retire
      <3>2. ring'[y.obj] \in {NoRing, y.to}
        BY <1>3, <1>4, <3>1, RetireRing
      <3>3. th'[t] = [y EXCEPT !.pc = "dispatch", !.on = NoRing, !.s = 0, !.then = "idle"]
        BY <1>1, <1>2, <2>1, <3>1, ThreadFacts DEF ThreadRec
      <3> QED BY <1>5, <3>2, <3>3
    <2>3. CASE Remaining({y.to}) = requests
      <3>1. /\ WaitSeqno(t, y.to, requests[y.to][1].s, "dispatch") /\ ring' = ring
            /\ Len(requests[y.to]) >= RingRequests
        BY <1>1, <1>11, <2>3 DEF WaitForSpace
      <3>2. requests[y.to] \in Seq(Reqs) /\ RingRequests \in Nat \ {0}
        BY <1>3 DEF GemInv, Sequencing, GemAssumption
      <3>3. 1 \in DOMAIN requests[y.to]
        BY <3>1, <3>2
      <3> QED BY <1>3, <1>6, <3>1, <3>3
    <2> QED BY <2>2, <2>3
  <1> QED BY <1>8, <1>9, <1>10, <1>11

\* An ioctl ends, or its batch is dispatched.
LEMMA KnowsEnds ==
    ASSUME GemAssumption, FewBatches, GemInv, Listing, WritesKnown, Plain, [Next]_vars, NEW t \in Threads, Knows(th[t]),
           Access(t) \/ Request(t) \/ AddFails(t) \/ Dispatch(t)
    PROVE  Knows(th[t])'
  <1>1. CASE Access(t) \/ Request(t) \/ AddFails(t)
    BY <1>1, KnowsReturn DEF Access, Request, AddFails
  <1>2. CASE Dispatch(t)
    <2>1. PICK x : x = [th[t] EXCEPT !.pc = "request", !.from = NoRing, !.sem = 0]
      OBVIOUS
    <2>2. Return(t) \/ th' = [th EXCEPT ![t] = x]
      BY <1>2, <2>1, Zenon DEF Dispatch, Goto
    <2>3. x.pc = "request" /\ x.s = th[t].s /\ x.sem = 0
      BY <2>1, ThreadFacts DEF ThreadRec
    <2> QED BY <2>2, <2>3, KnowsFacts, KnowsMoves, KnowsReturn
  <1> QED BY <1>1, <1>2

\* The status page of a ring only goes forward.
LEMMA StillDone ==
    ASSUME GemAssumption, FewBatches, GemInv, [Next]_vars, NEW r \in Rings, NEW s \in Seqnos,
           Age(next, s) \in 1 .. Budget + 1, Age(next, hws[r]) <= Age(next, s)
    PROVE  Age(next', hws'[r]) <= Age(next', s)
  <1>1. hws \in [Rings -> Seqnos] /\ RingOK(next, Budget, olr[r], requests[r], hw[r], hws[r]) /\ next \in Seqnos
    BY DEF GemInv, Sequencing
  <1>2. hws[r] \in Seqnos /\ Age(next, hws[r]) \in 1 .. Budget + 1
    BY <1>1 DEF RingOK
  <1>3. CASE hws' = hws
    BY <1>2, <1>3, AgeOrder
  <1>4. ASSUME NEW p \in Rings, Execute(p) PROVE Age(next', hws'[r]) <= Age(next', s)
    <2>1. next' = next
      BY <1>4 DEF Execute, seqVars
    <2>2. hws' = hws \/ (Crumb(hw[p][1]) /\ hws' = [hws EXCEPT ![p] = hw[p][1].s])
      BY <1>4 DEF Execute, Head1, Crumb
    <2>3. CASE p = r /\ Crumb(hw[p][1]) /\ hws' = [hws EXCEPT ![p] = hw[p][1].s]
      <3>1. 1 \in DOMAIN hw[r]
        <4>1. hw[r] \in Seq(Commands) /\ hw[r] # <<>>
          BY <1>4, <2>3 DEF Execute, GemInv, Sequencing
        <4> QED BY <4>1
      <3>2. Age(next, hw[r][1].s) \in 1 .. Age(next, hws[r]) - 1
        BY <1>1, <2>3, <3>1 DEF RingOK
      <3>3. hws'[r] = hw[r][1].s
        BY <1>1, <2>3
      <3>4. Age(next, s) \in Int /\ Age(next, hws[r]) \in Int
        BY <1>2
      <3> QED BY <2>1, <3>2, <3>3, <3>4
    <2>4. CASE hws'[r] = hws[r]
      BY <2>1, <2>4
    <2> QED BY <1>1, <2>2, <2>3, <2>4
  <1>5. Stays \/ Adds \/ Takes \/ Retires \/ RetireWork \/ ErrorWork \/ (\E t \in Threads : Dispatch(t)) => hws' = hws
    BY Zenon DEF Stays, Adds, Takes, Retires, RetireWork, ErrorWork, Dispatch, gpuVars
  <1> QED BY <1>3, <1>4, <1>5, Kinds

\* What a thread does, it does to itself, and to the objects only with the mutex.
LEMMA ThreadAlone ==
    ASSUME GemAssumption, FewBatches, GemInv, NEW t \in Threads,
           Start(t) \/ Throttle(t) \/ Step(t) \/ WaitExpires(t) \/ WaitInterrupted(t)
    PROVE  /\ \A u \in Threads \ {t} : th'[u] = th[u]
           /\ Stays \/ mutex \in {t, Nobody}
  <1>1. th \in [Threads -> ThreadRec]
    BY ThreadFacts
  <1>2. ASSUME Return(t) \/ (\E p : Go(t, p)) \/ (\E x : Goto(t, x)) \/ UNCHANGED th
        PROVE  \A u \in Threads \ {t} : th'[u] = th[u]
    BY <1>1, <1>2 DEF Return, Go, Goto
  <1>3. Return(t) \/ (\E p : Go(t, p)) \/ (\E x : Goto(t, x)) \/ UNCHANGED th
    <2>1. CASE Start(t) \/ Throttle(t) \/ LockMutex(t) \/ Access(t) \/ WaitExpires(t) \/ WaitSleep(t)
      BY <2>1, Zenon DEF Start, Throttle, LockMutex, Access, WaitExpires, WaitSleep
    <2>2. CASE WaitCheck(t) \/ WaitCond(t) \/ WaitInterrupted(t)
      BY <2>2 DEF WaitCheck, WaitCond, WaitInterrupted, WaitFails, WaitSucceeds
    <2>3. CASE WaitRendering(t) \/ Nonblocking(t) \/ FlushOlr(t) \/ IdleRing(t) \/ WaitForSpace(t)
      BY <2>3 DEF WaitRendering, Nonblocking, FlushOlr, IdleRing, WaitForSpace, WaitSeqno
    <2>4. CASE \/ Rendered(t) \/ Relock(t) \/ FlushRetire(t) \/ ObjectSync(t) \/ RingBegin(t) \/ Wrapped(t) \/ Request(t)
               \/ AddFails(t)
      BY <2>4 DEF Rendered, Relock, FlushRetire, ObjectSync, RingBegin, Wrapped, Request, AddFails
    <2>5. CASE Dispatch(t)
      BY <2>5, Zenon DEF Dispatch
    <2> QED BY <2>1, <2>2, <2>3, <2>4, <2>5 DEF Step
  <1>4. CASE \/ Start(t) \/ Throttle(t) \/ LockMutex(t) \/ Access(t)
             \/ WaitCheck(t) \/ WaitCond(t) \/ WaitSleep(t) \/ WaitExpires(t) \/ WaitInterrupted(t)
    BY <1>2, <1>3, <1>4, StayKinds
  <1>5. CASE \/ WaitRendering(t) \/ Rendered(t) \/ Nonblocking(t) \/ FlushOlr(t) \/ FlushRetire(t)
             \/ ObjectSync(t) \/ RingBegin(t) \/ IdleRing(t) \/ Wrapped(t) \/ WaitForSpace(t) \/ Dispatch(t) \/ Request(t)
    <2>1. Holds(th[t])
      BY <1>5, Zenon DEF WaitRendering, Rendered, Nonblocking, FlushOlr, FlushRetire, ObjectSync, RingBegin, IdleRing, Wrapped,
         WaitForSpace, Dispatch, Request, At, Holds, HoldPCs
    <2> QED BY <1>2, <1>3, <2>1, ThreadFacts
  <1>6. CASE Relock(t)
    BY <1>2, <1>3, <1>6 DEF Relock
  <1>7. CASE AddFails(t)
    BY <1>2, <1>3, <1>7, StayKinds
  <1> QED BY <1>4, <1>5, <1>6, <1>7 DEF Step

\* A thread that does nothing itself, but may be woken, knows what it knew.
LEMMA KnowsOther ==
    ASSUME GemAssumption, FewBatches, GemInv, Listing, WritesKnown, [Next]_vars, NEW u \in Threads, Knows(th[u]),
           \/ th'[u] = th[u]
           \/ th[u].pc \in Waiting /\ \E p \in Waiting : th'[u] = [th[u] EXCEPT !.pc = p],
           Holds(th[u]) => UNCHANGED <<requests, ring, lastRead, lastWrite>>
    PROVE  Knows(th[u])'
  <1>1. PICK y : y = th[u]
    OBVIOUS
  <1>2. /\ y \in ThreadRec /\ Knows(y) /\ y.s \in Seqnos
        /\ y.s # 0 => Age(next, y.s) \in 1 .. Budget + 1 /\ Age(next', y.s) \in 1 .. Budget' + 1
    BY <1>1, ThreadFacts, KnowsFacts
  <1>3. Waited(y) => Age(next', hws'[y.on]) <= Age(next', y.s)
    <2>1. ASSUME Waited(y) PROVE y.s # 0 /\ y.on \in Rings /\ Age(next, hws[y.on]) <= Age(next, y.s)
      BY <1>2, <2>1 DEF Knows, Waited, Renders
    <2> QED BY <1>2, <2>1, StillDone
  <1>4. PICK p : (p = y.pc \/ (p \in Asking /\ y.pc \in Asking)) /\ th'[u] = [y EXCEPT !.pc = p]
    <2>1. CASE th'[u] = th[u]
      <3>1. th'[u] = [y EXCEPT !.pc = y.pc]
        BY <1>1, <1>2, <2>1 DEF ThreadRec
      <3> QED BY <3>1
    <2>2. ASSUME th[u].pc \in Waiting, NEW q \in Waiting, th'[u] = [th[u] EXCEPT !.pc = q]
          PROVE  q \in Asking /\ y.pc \in Asking /\ th'[u] = [y EXCEPT !.pc = q]
      BY <1>1, <2>2 DEF Asking
    <2> QED BY <2>1, <2>2
  <1>5. Knows([y EXCEPT !.pc = p])'
    BY <1>1, <1>2, <1>3, <1>4, KnowsKeeps
  <1>6. PICK x : x = [y EXCEPT !.pc = p]
    OBVIOUS
  <1> QED BY <1>4, <1>5, <1>6, KnowsNext

\* What an interrupt wakes goes on with its wait.
LEMMA WokenIs ==
    ASSUME GemAssumption, GemInv, NEW R, th' = Woken(R), NEW u \in Threads
    PROVE  \/ th'[u] = th[u]
           \/ th[u].pc \in Waiting /\ \E p \in Waiting : th'[u] = [th[u] EXCEPT !.pc = p]
  BY DEF Woken, At, Waiting

\* Every step leaves every thread what it relies on.
LEMMA KnowsOK ==
    ASSUME GemAssumption, FewBatches, GemInv, ListInv, UseInv, Plain, [Next]_vars
    PROVE  \A u \in Threads : Knows(th[u])'
  <1>1. Listing /\ WritesKnown /\ \A u \in Threads : Knows(th[u])
    BY DEF ListInv, UseInv
  <1>2. \A u \in Threads : Holds(th[u]) => mutex = u /\ u # Nobody
    BY ThreadFacts
  <1>3. ASSUME NEW t \in Threads, Start(t) \/ Throttle(t) \/ Step(t) \/ WaitExpires(t) \/ WaitInterrupted(t),
               NEW u \in Threads
        PROVE  Knows(th[u])'
    <2>1. CASE u = t
      BY <1>1, <1>3, <2>1, KnowsStarts, KnowsWaits, KnowsWaitRendering, KnowsRendered, KnowsNonblocking, KnowsFlush, KnowsSync,
         KnowsRing, KnowsEnds DEF Step
    <2>2. CASE u # t
      <3>1. th'[u] = th[u] /\ (Stays \/ mutex \in {t, Nobody})
        BY <1>3, <2>2, ThreadAlone
      <3>2. Holds(th[u]) => UNCHANGED <<requests, ring, lastRead, lastWrite>>
        BY <1>2, <2>2, <3>1 DEF Stays
      <3> QED BY <1>1, <3>1, <3>2, KnowsOther
    <2> QED BY <2>1, <2>2
  <1>4. CASE \/ \E r \in Rings : Execute(r) \/ Hang(r) \/ NotifyRing(r)
             \/ RetireWork \/ HangcheckElapsed \/ ErrorWork \/ Unwedge \/ CompleteAll \/ UNCHANGED vars
    <2>1. th' = th \/ \E R : th' = Woken(R)
      <3>1. CASE \E r \in Rings : Execute(r) \/ Hang(r) \/ NotifyRing(r)
        BY <3>1, Zenon DEF Execute, Hang, NotifyRing
      <3>2. CASE RetireWork \/ ErrorWork \/ Unwedge \/ CompleteAll \/ UNCHANGED vars
        BY <3>2 DEF RetireWork, ErrorWork, Unwedge, CompleteAll, vars
      <3>3. CASE HangcheckElapsed
        <4>1. ASSUME NEW k, NEW R, HangcheckHung(k, Woken(R)) PROVE \E Q : th' = Woken(Q)
          BY <4>1, Zenon DEF HangcheckHung
        <4>2. \/ th' = th
              \/ \E k \in BOOLEAN : \E R : HangcheckHung(k, Woken(R))
              \/ \E R : th' = Woken(R)
          BY <3>3, Zenon DEF HangcheckElapsed
        <4> QED BY <4>1, <4>2, Zenon
      <3> QED BY <1>4, <3>1, <3>2, <3>3
    <2>2. (\E u \in Threads : mutex = u /\ u # Nobody) => UNCHANGED <<requests, ring, lastRead, lastWrite>>
      <3>1. CASE (\E r \in Rings : Hang(r) \/ NotifyRing(r)) \/ HangcheckElapsed \/ Unwedge \/ CompleteAll \/ UNCHANGED vars
        BY <3>1, StayKinds DEF Stays
      <3>2. CASE (\E r \in Rings : Execute(r)) \/ RetireWork \/ ErrorWork
        BY <3>2 DEF Execute, RetireWork, ErrorWork, gemVars
      <3> QED BY <1>4, <3>1, <3>2
    <2>3. ASSUME NEW u \in Threads PROVE Knows(th[u])'
      <3>1. \/ th'[u] = th[u]
            \/ th[u].pc \in Waiting /\ \E p \in Waiting : th'[u] = [th[u] EXCEPT !.pc = p]
        BY <2>1, WokenIs
      <3>2. Holds(th[u]) => UNCHANGED <<requests, ring, lastRead, lastWrite>>
        BY <1>2, <2>2
      <3> QED BY <1>1, <3>1, <3>2, KnowsOther
    <2> QED BY <2>3
  <1> QED BY <1>3, <1>4 DEF Next

\* Every step keeps the invariant of the batches, the seqnos and the threads.
LEMMA UseInvOK ==
    ASSUME GemAssumption, FewBatches, GemInv, ListInv, UseInv, Plain, [Next]_vars PROVE UseInv'
  BY UsingOK, WritesKnownOK, KnowsOK DEF UseInv, ListInv

\* Nothing is to execute at the start.
LEMMA UseInitOK == ASSUME GemAssumption, Init PROVE UseInv
  <1>1. \A r \in Rings : hw[r] = <<>> /\ DOMAIN hw[r] = {}
    BY DEF Init
  <1>2. Using
    BY <1>1 DEF Using, UseOK, WriteOK, Apart, Init
  <1>3. WritesKnown
    BY DEF WritesKnown, Init
  <1>4. Knows(Idle)
    BY DEF Knows, Idle, Waited, Renders, Claims, Wraps, Dispatches, Asking, Waiting
  <1>5. \A t \in Threads : th[t] = Idle
    BY DEF Init
  <1> QED BY <1>2, <1>3, <1>4, <1>5 DEF UseInv

-----------------------------------------------------------------------------
(* What follows from the invariant                                         *)

\* The lists bring the types and the request of each active object.
LEMMA ListSafe == ASSUME GemAssumption, FewBatches, GemInv, ListInv PROVE TypeOK /\ ActiveTracked
  <1>1. ActiveTracked
    <2>1. ASSUME NEW o \in Objects, ring[o] # NoRing
          PROVE  lastRead[o] = olr[ring[o]] \/ \E q \in Elements(requests[ring[o]]) : q.s = lastRead[o]
      <3>1. ring[o] \in Rings /\ \E i \in DOMAIN active[ring[o]] : active[ring[o]][i] = o
        BY <2>1, ActiveListed DEF ListInv
      <3>2. ListOK(next, olr[ring[o]], requests[ring[o]], active[ring[o]], lastRead)
        BY <3>1 DEF ListInv, Listing
      <3>3. lastRead[o] = olr[ring[o]] \/ \E j \in DOMAIN requests[ring[o]] : requests[ring[o]][j].s = lastRead[o]
        BY <3>1, <3>2 DEF ListOK
      <3> QED BY <3>3 DEF Elements
    <2> QED BY <2>1 DEF ActiveTracked
  <1>2. TypeOK
    <2>1. th \in [Threads -> ThreadRec] /\ batches \in 0 .. MaxBatches
      BY DEF GemInv, Threading, Budgeting
    <2>2. /\ next \in Seqnos /\ hws \in [Rings -> Seqnos] /\ hw \in [Rings -> Seq(Commands)]
          /\ requests \in [Rings -> Seq([s : Seqnos \ {0}, file : Threads \cup {Nobody}])]
      BY DEF GemInv, Sequencing, Reqs
    <2>3. semaphores \in BOOLEAN
      BY DEF ListInv, Typing, GemAssumption
    <2> QED BY <2>1, <2>2, <2>3 DEF TypeOK, GemInv, Lazy, Works, ListInv, Listing, Typing, ThreadRec
  <1> QED BY <1>1, <1>2

\* The invariant keeps rings apart, and on one ring the CPU away from the GPU.
LEMMA UseSafe ==
    ASSUME GemAssumption, FewBatches, Plain, GemInv, ListInv, UseInv PROVE RingsApart /\ (NumRings = 1 => ActivitySafe)
  <1>1. Using /\ \A t \in Threads : Knows(th[t])
    BY DEF UseInv
  <1>2. ASSUME NEW o \in Objects, ~wedged, Used(o) PROVE ring[o] # NoRing
    <2>1. PICK r \in Rings : \E i \in DOMAIN hw[r] : IsBatch(hw[r][i]) /\ hw[r][i].obj = o
      BY <1>2 DEF Used, Elements, IsBatch
    <2>2. ring[o] = r
      BY <1>1, <1>2, <2>1, BatchYoung DEF Certain
    <2> QED BY <2>1, <2>2 DEF Rings, NoRing
  <1>3. ASSUME NEW o \in Objects, ~wedged, Written(o), NumRings = 1 PROVE lastWrite[o] # 0
    <2>1. PICK r \in Rings : \E i \in DOMAIN hw[r] : IsBatch(hw[r][i]) /\ hw[r][i].obj = o /\ hw[r][i].write
      BY <1>3 DEF Written, Elements, IsBatch
    <2> QED BY <1>1, <1>3, <2>1, BatchYoung DEF Certain
  <1>4. InactiveUnused
    BY <1>2 DEF InactiveUnused
  <1>5. RenderOrder
    <2>1. ASSUME NEW p \in Rings, NEW q \in Rings, NEW o \in Objects, p # q, hw[p] # <<>>, hw[q] # <<>>,
                 \A r \in {p, q} : Head1(r).cmd = "batch" /\ Head1(r).obj = o
          PROVE  FALSE
      <3>1. hw[p] \in Seq(Commands) /\ hw[q] \in Seq(Commands)
        BY DEF GemInv, Sequencing
      <3>2. 1 \in DOMAIN hw[p] /\ 1 \in DOMAIN hw[q]
        BY <2>1, <3>1
      <3> QED BY <1>1, <2>1, <3>2 DEF Using, Apart, IsBatch, Head1
    <2> QED BY <2>1 DEF RenderOrder
  <1>6. AccessSafe \/ NumRings # 1
    <2>1. ASSUME NEW t \in Threads, At(t, "access"), ~wedged, NumRings = 1
          PROVE  IF th[t].op = "read" THEN ~Written(th[t].obj) ELSE ~Used(th[t].obj)
      <3>1. th[t].pc = "access" /\ th[t].obj \in Objects
        BY <2>1, ThreadFacts DEF At, RecOK, Holds, HoldPCs
      <3>2. IF th[t].op = "read" THEN lastWrite[th[t].obj] = 0 ELSE ring[th[t].obj] = NoRing
        BY <1>1, <3>1 DEF Knows
      <3> QED BY <1>2, <1>3, <2>1, <3>1, <3>2
    <2> QED BY <2>1 DEF AccessSafe
  <1>7. NumRings = 1 => WriteTracked
    BY <1>3 DEF WriteTracked
  <1>8. TypeOK /\ ActiveTracked
    BY ListSafe
  <1> QED BY <1>4, <1>5, <1>6, <1>7, <1>8 DEF RingsApart, ActivitySafe, ActivityTracked

-----------------------------------------------------------------------------
(* The theorems                                                            *)

\* With fewer execbuffers than half the seqnos, the lists, the seqnos and the
\* threads fit together at every step.
THEOREM GemInvariant == ASSUME GemAssumption, FewBatches PROVE Spec => []GemInv
  <1>1. Init => GemInv
    BY InitOK
  <1>2. GemInv /\ [Next]_vars => GemInv'
    BY NextOK
  <1> QED BY <1>1, <1>2, PTL DEF Spec

\* A reset leaves no request that nobody completes and no wedged GPU that
\* nobody will reset.
THEOREM ResetIsSafe == ASSUME GemAssumption, FewBatches PROVE Spec => []ResetSafe
  <1>1. GemInv => ResetSafe
    BY InvSafe
  <1> QED BY <1>1, GemInvariant, PTL

\* The lists of objects and requests fit together at every step: the oldest object
\* first, each with the request that will retire it.
THEOREM ListInvariant == ASSUME GemAssumption, FewBatches PROVE Spec => []ListInv
  <1>1. Init => ListInv
    BY ListInitOK
  <1>2. GemInv /\ ListInv /\ [Next]_vars => ListInv'
    BY ListingOK, TypingOK DEF ListInv
  <1> QED BY <1>1, <1>2, GemInvariant, PTL DEF Spec

\* Types are kept, and every active object has a request, or a lazy one, that
\* will retire it, on any number of rings.
THEOREM ActivesTracked == ASSUME GemAssumption, FewBatches PROVE Spec => [](TypeOK /\ ActiveTracked)
  <1>1. GemInv /\ ListInv => TypeOK /\ ActiveTracked
    BY ListSafe
  <1> QED BY <1>1, GemInvariant, ListInvariant, PTL

\* Where the rings do not signal each other, what the GPU is still to execute
\* is guarded by seqnos that its objects have.
THEOREM UseInvariant == ASSUME GemAssumption, FewBatches, Plain PROVE Spec => []UseInv
  <1>1. Init => UseInv
    BY UseInitOK
  <1>2. GemInv /\ ListInv /\ UseInv /\ [Next]_vars => UseInv'
    BY UseInvOK
  <1> QED BY <1>1, <1>2, GemInvariant, ListInvariant, PTL DEF Spec

\* Where the rings do not signal each other, an inactive object is unused and
\* no two rings are at batches of one object.
THEOREM RingsStayApart == ASSUME GemAssumption, FewBatches, Plain PROVE Spec => []RingsApart
  <1>1. GemInv /\ ListInv /\ UseInv => RingsApart
    BY UseSafe
  <1> QED BY <1>1, GemInvariant, ListInvariant, UseInvariant, PTL

\* On a GPU with one ring the CPU gets an object when the GPU has done with it,
\* and until then its last write and the request that will retire it are known.
THEOREM ActivityIsSafe ==
    ASSUME GemAssumption, FewBatches, ~Cliprects, NumRings = 1 PROVE Spec => []ActivitySafe
  <1>1. Plain
    BY DEF Plain
  <1>2. GemInv /\ ListInv /\ UseInv => ActivitySafe
    BY <1>1, UseSafe
  <1> QED BY <1>1, <1>2, GemInvariant, ListInvariant, UseInvariant, PTL
=============================================================================
