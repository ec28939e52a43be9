---------------------------- MODULE DrmGemProofs ----------------------------
(***************************************************************************)
(* Theorems about DrmGem, for any number of files, threads, objects,       *)
(* handles and names, where no two threads make ioctls on one file.        *)
(* Without that the code does free objects that are in use: two threads of *)
(* one file race drm_gem_flink_ioctl against drm_gem_close_ioctl.          *)
(***************************************************************************)
EXTENDS DrmGem, FiniteSetTheorems, WellFoundedInduction, TLAPS

OneThreadEach == \A t, u \in Threads : FileOf[t] = FileOf[u] => t = u

Work1 == {"insert", "reference", "unref", "unname", "flink", "pager"}
Owners == Work1 \cup {"nameref", "named"}

\* The references that a thread owns of an object, and the counted handles it
\* has taken out of a table less those it has put in uncounted.
OwnAt(l)  == IF l = "nameref" THEN 2 ELSE IF l \in Work1 THEN 1 ELSE 0
OweAt(l)  == IF l \in {"unhandle", "count"} THEN 1 ELSE IF l = "reference" THEN -1 ELSE 0
Weight(r, o) == IF r.obj = o THEN OwnAt(r.pc) ELSE 0
Owing(r, o)  == IF r.obj = o THEN OweAt(r.pc) ELSE 0

Num(S, o) == Cardinality(ThreadsAt(S, o))
Own(o)    == Num(Owners, o) + Num({"nameref"}, o) - Num({"named"}, o)
Owed(o)   == Num({"unhandle", "count"}, o) - Num({"reference"}, o)
NumHandlesOf(o) == Cardinality(HandlesOf(o))

---------------------------------------------------------------------------
\* What a thread works on; only handles that have been counted are dropped.
WellPlaced(r) ==
    /\ r.pc \in {"idle", "release"} <=> r.obj = NoObject
    /\ r.pc = "insert" => r.after \in {"created", "opened"}
    /\ r.pc \in {"unhandle", "count", "unname", "nameref", "pager"} => r.after # "opened"
Places == \A t \in Threads : WellPlaced(th[t])

\* A thread that put a handle in, or that goes by one to name the object, has it
\* kept by the table: nobody else makes ioctls on its file.
Keeps(t) == \/ th[t].pc \in {"reference", "size", "flink", "named"}
            \/ th[t].pc = "unref" /\ th[t].after = "opened"
KeptBy(t) == Keeps(t) => \E h \in Handles : table[FileOf[t]][h] = Obj(t)
Kept == \A t \in Threads : KeptBy(t)

\* An object that is being created is its creator's alone.
Creating(t) == th[t].pc = "insert" /\ th[t].after = "created"
FreshAt(t) == Creating(t) =>
    /\ hcount[Obj(t)] = 0 /\ mapped[Obj(t)] = 0 /\ name[Obj(t)] = NoName /\ ~onMap[Obj(t)]
    /\ \A f \in Files, h \in Handles : table[f][h] # Obj(t)
    /\ \A u \in Threads : Obj(u) = Obj(t) => u = t
Fresh == \A t \in Threads : FreshAt(t)

Types ==
    /\ live \in [Objects -> BOOLEAN] /\ ref \in [Objects -> Int]
    /\ hcount \in [Objects -> Int] /\ name \in [Objects -> Names \cup {NoName}]
    /\ onMap \in [Objects -> BOOLEAN] /\ mapped \in [Objects -> {0, 1}]
    /\ table \in [Files -> [Handles -> Objects \cup {NoObject}]]
    /\ names \in [Names -> Objects \cup {NoObject}]
    /\ opened \in [Files -> BOOLEAN]
    /\ th \in [Threads -> [pc : PCs, obj : Objects \cup {NoObject},
                           after : {"idle", "created", "opened", "release"}]]

\* RefsCounted and HandlesCounted, in terms of what the threads own and owe.
Balanced(o) ==
    /\ ref[o] = hcount[o] + mapped[o] + One(name[o] # NoName) + Own(o)
    /\ hcount[o] = NumHandlesOf(o) + Owed(o)
Accounts == \A o \in Objects : live[o] => Balanced(o)

\* A name goes with the last handle, and is in the table as long as it is there.
NameGoes(o)   == name[o] # NoName => hcount[o] > 0 \/ \E t \in Threads : th[t].pc = "unname" /\ Obj(t) = o
NameAgrees(o) == \A n \in Names : names[n] = o <=> name[o] = n

Untouched(o) ==
    /\ HandlesOf(o) = {} /\ ThreadsAt(PCs, o) = {}
    /\ \A n \in Names : names[n] # o
    /\ ~onMap[o] /\ mapped[o] = 0

Sound(o) == IF live[o] THEN ref[o] # 0 /\ Balanced(o) /\ NameGoes(o) /\ NameAgrees(o) ELSE Untouched(o)

GemInv == TypeOK /\ Places /\ Kept /\ Fresh /\ \A o \in Objects : Sound(o)

---------------------------------------------------------------------------
(* Counting                                                                *)

\* The sets that are counted are finite.
LEMMA ThreadsAtFinite ==
    ASSUME NEW S, NEW o
    PROVE  IsFiniteSet(ThreadsAt(S, o)) /\ Num(S, o) \in Nat
  BY GemAssumption, FS_Subset, FS_CardinalityType DEF GemAssumption, ThreadsAt, Num

LEMMA HandlesOfFinite == ASSUME NEW o PROVE IsFiniteSet(HandlesOf(o)) /\ NumHandlesOf(o) \in Nat
  <1>1. IsFiniteSet(Files \X Handles)
    <2>1. IsFiniteSet(Handles)
      BY GemAssumption, FS_Interval DEF GemAssumption, Handles
    <2> QED BY <2>1, GemAssumption, FS_Product DEF GemAssumption
  <1>2. HandlesOf(o) \in SUBSET (Files \X Handles)
    BY DEF HandlesOf
  <1> QED BY <1>1, <1>2, FS_Subset, FS_CardinalityType DEF NumHandlesOf

\* A thread that moves is counted where it goes and no longer where it was.
In(S, r, o) == IF r.pc \in S /\ r.obj = o THEN 1 ELSE 0
LEMMA MoveCount ==
    ASSUME Types, NEW S, NEW o, NEW t \in Threads, NEW r, th' = [th EXCEPT ![t] = r]
    PROVE  Num(S, o)' = Num(S, o) - In(S, th[t], o) + In(S, r, o)
  <1> DEFINE rest == ThreadsAt(S, o) \ {t}
  <1>1. IsFiniteSet(ThreadsAt(S, o)) /\ Num(S, o) \in Nat
    BY ThreadsAtFinite
  <1>2. IsFiniteSet(rest) /\ Cardinality(rest) = Num(S, o) - In(S, th[t], o)
    <2>1. In(S, th[t], o) = IF t \in ThreadsAt(S, o) THEN 1 ELSE 0
      BY DEF ThreadsAt, In, Obj
    <2> QED BY <1>1, <2>1, FS_RemoveElement DEF Num
  <1>3. ThreadsAt(S, o)' = IF In(S, r, o) = 1 THEN rest \cup {t} ELSE rest
    BY DEF ThreadsAt, In, Types, Obj
  <1>4. t \notin rest
    OBVIOUS
  <1> HIDE DEF rest
  <1>5. Cardinality(rest \cup {t}) = Cardinality(rest) + 1
    BY <1>2, <1>4, FS_AddElement
  <1> QED BY <1>1, <1>2, <1>3, <1>5 DEF Num, In

\* What the threads own and owe changes by what the one that moves does.
LEMMA MoveWeights ==
    ASSUME Types, NEW t \in Threads, NEW r \in [pc : PCs, obj : Objects \cup {NoObject}, after : {"idle", "created", "opened", "release"}], th' = [th EXCEPT ![t] = r], NEW o
    PROVE  /\ Own(o)' = Own(o) - Weight(th[t], o) + Weight(r, o)
           /\ Owed(o)' = Owed(o) - Owing(th[t], o) + Owing(r, o)
  <1>1. \A S : Num(S, o)' = Num(S, o) - In(S, th[t], o) + In(S, r, o) /\ Num(S, o) \in Nat
    BY MoveCount, ThreadsAtFinite
  <1>2. \A q : In(Owners, q, o) + In({"nameref"}, q, o) - In({"named"}, q, o) = Weight(q, o)
    BY DEF In, Weight, OwnAt, Owners, Work1
  <1>3. \A q : In({"unhandle", "count"}, q, o) - In({"reference"}, q, o) = Owing(q, o)
    BY DEF In, Owing, OweAt
  <1>4. \A S, q : In(S, q, o) \in {0, 1}
    BY DEF In
  <1> QED BY <1>1, <1>2, <1>3, <1>4 DEF Own, Owed

\* A handle is one less, or one more.
LEMMA LosesHandle ==
    ASSUME Types, NEW o, o # NoObject, NEW f \in Files, NEW h \in Handles, table[f][h] = o,
           table' = [table EXCEPT ![f][h] = NoObject]
    PROVE  NumHandlesOf(o)' = NumHandlesOf(o) - 1
  <1>1. IsFiniteSet(HandlesOf(o)) /\ <<f, h>> \in HandlesOf(o)
    BY HandlesOfFinite DEF HandlesOf
  <1>2. HandlesOf(o)' = HandlesOf(o) \ {<<f, h>>}
    BY DEF HandlesOf, Types
  <1>3. Cardinality(HandlesOf(o) \ {<<f, h>>}) = Cardinality(HandlesOf(o)) - 1
    BY <1>1, FS_RemoveElement
  <1> QED BY <1>2, <1>3 DEF NumHandlesOf

LEMMA GainsHandle ==
    ASSUME Types, NEW o, o # NoObject, NEW f \in Files, NEW h \in Handles, table[f][h] = NoObject,
           table' = [table EXCEPT ![f][h] = o]
    PROVE  NumHandlesOf(o)' = NumHandlesOf(o) + 1
  <1>1. IsFiniteSet(HandlesOf(o)) /\ <<f, h>> \notin HandlesOf(o)
    BY HandlesOfFinite DEF HandlesOf
  <1>2. HandlesOf(o)' = HandlesOf(o) \cup {<<f, h>>}
    BY DEF HandlesOf, Types
  <1>3. Cardinality(HandlesOf(o) \cup {<<f, h>>}) = Cardinality(HandlesOf(o)) + 1
    BY <1>1, FS_AddElement
  <1> QED BY <1>2, <1>3 DEF NumHandlesOf

\* Disjoint sets are counted apart.
LEMMA DisjointCount ==
    ASSUME NEW S, IsFiniteSet(S), NEW T, IsFiniteSet(T), S \cap T = {}
    PROVE  Cardinality(S \cup T) = Cardinality(S) + Cardinality(T)
  <1>1. Cardinality(S \cup T) = Cardinality(S) + Cardinality(T) - Cardinality(S \cap T)
    BY FS_Union
  <1>2. Cardinality(S \cap T) = 0
    BY FS_EmptySet
  <1>3. Cardinality(S) \in Nat /\ Cardinality(T) \in Nat
    BY FS_CardinalityType
  <1> QED BY <1>1, <1>2, <1>3

\* What the threads own is at least what each of them does.
LEMMA OwnSplit ==
    ASSUME NEW o
    PROVE  Own(o) = Num(Work1, o) + 2 * Num({"nameref"}, o)
  <1> DEFINE A == ThreadsAt(Work1, o)
             B == ThreadsAt({"nameref"}, o)
             C == ThreadsAt({"named"}, o)
  <1>1. IsFiniteSet(A) /\ IsFiniteSet(B) /\ IsFiniteSet(C) /\ Cardinality(A) \in Nat
        /\ Cardinality(B) \in Nat /\ Cardinality(C) \in Nat
    BY ThreadsAtFinite DEF Num
  <1>2. ThreadsAt(Owners, o) = (A \cup B) \cup C /\ A \cap B = {} /\ (A \cup B) \cap C = {}
    BY DEF ThreadsAt, Owners, Work1
  <1> HIDE DEF A, B, C
  <1>3. Cardinality(A \cup B) = Cardinality(A) + Cardinality(B) /\ IsFiniteSet(A \cup B)
    BY <1>1, <1>2, DisjointCount, FS_Union
  <1>4. Cardinality((A \cup B) \cup C) = Cardinality(A \cup B) + Cardinality(C)
    BY <1>1, <1>2, <1>3, DisjointCount
  <1> QED BY <1>1, <1>2, <1>3, <1>4 DEF Own, Num, A, B, C

\* A thread's part of what is owned, and when it is all there is.
LEMMA OwnAtLeast ==
    ASSUME Types, NEW o, NEW t \in Threads
    PROVE  /\ Own(o) \in Nat /\ Own(o) >= Weight(th[t], o)
           /\ Own(o) = Weight(th[t], o) => \A u \in Threads : u # t => Weight(th[u], o) = 0
  <1>1. Own(o) = Num(Work1, o) + 2 * Num({"nameref"}, o)
    BY OwnSplit
  <1>2. \A S : IsFiniteSet(ThreadsAt(S, o)) /\ Num(S, o) \in Nat
    BY ThreadsAtFinite
  <1>3. \A S : t \in ThreadsAt(S, o) =>
           Num(S, o) >= 1 /\ (Num(S, o) = 1 => \A u \in ThreadsAt(S, o) : u = t)
    <2> SUFFICES ASSUME NEW S, t \in ThreadsAt(S, o)
                 PROVE  Num(S, o) >= 1 /\ (Num(S, o) = 1 => \A u \in ThreadsAt(S, o) : u = t)
      OBVIOUS
    <2>1. Num(S, o) # 0
      BY <1>2, FS_EmptySet DEF Num
    <2>2. Num(S, o) = 1 => \E x : ThreadsAt(S, o) = {x}
      BY <1>2, FS_Singleton DEF Num
    <2> QED BY <1>2, <2>1, <2>2
  <1>4. \A S : Num(S, o) = 0 => ThreadsAt(S, o) = {}
    BY <1>2, FS_EmptySet DEF Num
  <1>5. \A u \in Threads : Weight(th[u], o) = IF u \in ThreadsAt({"nameref"}, o) THEN 2
                                              ELSE IF u \in ThreadsAt(Work1, o) THEN 1 ELSE 0
    BY DEF Weight, OwnAt, ThreadsAt, Work1, Obj
  <1>6. ~(t \in ThreadsAt({"nameref"}, o) /\ t \in ThreadsAt(Work1, o))
    BY DEF ThreadsAt, Work1
  <1>7. Num(Work1, o) \in Nat /\ Num({"nameref"}, o) \in Nat
    BY <1>2
  <1>8. CASE t \in ThreadsAt({"nameref"}, o)
    BY <1>1, <1>3, <1>4, <1>5, <1>6, <1>7, <1>8
  <1>9. CASE t \in ThreadsAt(Work1, o)
    BY <1>1, <1>3, <1>4, <1>5, <1>6, <1>7, <1>9
  <1>10. CASE t \notin ThreadsAt({"nameref"}, o) /\ t \notin ThreadsAt(Work1, o)
    BY <1>1, <1>4, <1>5, <1>7, <1>10
  <1> QED BY <1>8, <1>9, <1>10

---------------------------------------------------------------------------
(* What the counts say of an object                                        *)

Records == [pc : PCs, obj : Objects \cup {NoObject}, after : {"idle", "created", "opened", "release"}]

\* The run's two properties, as equations over what is owned and owed.
LEMMA CountsBalanced ==
    ASSUME Types PROVE RefsCounted /\ HandlesCounted <=> Accounts
  <1>1. \A S, o : Num(S, o) \in Nat
    BY ThreadsAtFinite
  <1>2. \A o : NumHandlesOf(o) \in Nat
    BY HandlesOfFinite
  <1>3. \A o \in Objects : hcount[o] \in Int /\ ref[o] \in Int /\ mapped[o] \in Int
    BY DEF Types
  <1>4. \A b : One(b) \in Int
    BY DEF One
  <1>5. RefsCounted <=> \A o \in Objects : live[o] =>
            ref[o] = hcount[o] + mapped[o] + One(name[o] # NoName) + Num(Owners, o)
                     + Num({"nameref"}, o) - Num({"named"}, o)
    <2>1. Owners = {"insert", "reference", "unref", "unname", "nameref", "flink", "named", "pager"}
      BY DEF Owners, Work1
    <2> QED BY <2>1 DEF RefsCounted, Num
  <1>6. HandlesCounted <=> \A o \in Objects : live[o] =>
            hcount[o] + Num({"reference"}, o) = NumHandlesOf(o) + Num({"unhandle", "count"}, o)
    BY DEF HandlesCounted, Num, NumHandlesOf
  <1>7. ASSUME NEW o \in Objects
        PROVE  Balanced(o) <=>
                 /\ ref[o] = hcount[o] + mapped[o] + One(name[o] # NoName) + Num(Owners, o)
                              + Num({"nameref"}, o) - Num({"named"}, o)
                 /\ hcount[o] + Num({"reference"}, o) = NumHandlesOf(o) + Num({"unhandle", "count"}, o)
    <2>1. One(name[o] # NoName) \in Int /\ NumHandlesOf(o) \in Nat /\ hcount[o] \in Int /\ ref[o] \in Int
          /\ mapped[o] \in Int
      BY <1>2, <1>3, <1>4
    <2>2. Num(Owners, o) \in Nat /\ Num({"nameref"}, o) \in Nat /\ Num({"named"}, o) \in Nat
          /\ Num({"reference"}, o) \in Nat /\ Num({"unhandle", "count"}, o) \in Nat
      BY <1>1
    <2> QED BY <2>1, <2>2 DEF Balanced, Own, Owed
  <1> QED BY <1>5, <1>6, <1>7 DEF Accounts

\* Handles that threads of different files keep are different handles.
LEMMA KeepersCount ==
    ASSUME OneThreadEach, Types, Kept, NEW o, NEW K \in SUBSET Threads,
           \A t \in K : Keeps(t) /\ Obj(t) = o
    PROVE  IsFiniteSet(K) /\ Cardinality(K) <= NumHandlesOf(o)
  <1> DEFINE g == [t \in K |-> <<FileOf[t], CHOOSE h \in Handles : table[FileOf[t]][h] = Obj(t)>>]
  <1>1. \A t \in K : g[t] \in HandlesOf(o) /\ g[t][1] = FileOf[t]
    BY GemAssumption DEF GemAssumption, Kept, KeptBy, HandlesOf
  <1>2. \A t, u \in K : g[t] = g[u] => t = u
    BY <1>1 DEF OneThreadEach
  <1>3. g \in [K -> HandlesOf(o)]
    BY <1>1
  <1> HIDE DEF g
  <1>4. g \in Injection(K, HandlesOf(o))
    BY <1>2, <1>3 DEF Injection, IsInjective
  <1> QED BY <1>4, HandlesOfFinite, FS_Injection DEF NumHandlesOf

\* A thread that keeps a counted handle is another than those whose handles are
\* not counted yet.
LEMMA KeeperCounted ==
    ASSUME OneThreadEach, Types, Kept, NEW o
    PROVE  /\ Num({"reference"}, o) <= NumHandlesOf(o)
           /\ \A t \in Threads : Keeps(t) /\ Obj(t) = o /\ th[t].pc # "reference"
                 => Num({"reference"}, o) + 1 <= NumHandlesOf(o)
  <1> DEFINE R == ThreadsAt({"reference"}, o)
  <1>1. \A u \in R : Keeps(u) /\ Obj(u) = o /\ th[u].pc = "reference" /\ u \in Threads
    BY DEF ThreadsAt, Keeps
  <1>2. IsFiniteSet(R)
    BY ThreadsAtFinite
  <1> HIDE DEF R
  <1>3. Cardinality(R) <= NumHandlesOf(o)
    BY <1>1, KeepersCount
  <1>4. ASSUME NEW t \in Threads, Keeps(t), Obj(t) = o, th[t].pc # "reference"
        PROVE  Cardinality(R) + 1 <= NumHandlesOf(o)
    <2>1. Cardinality(R \cup {t}) <= NumHandlesOf(o)
      BY <1>1, <1>4, KeepersCount
    <2>2. t \notin R
      BY <1>1, <1>4
    <2> QED BY <1>2, <2>1, <2>2, FS_AddElement
  <1> QED BY <1>3, <1>4 DEF R, Num

\* A handle on its way out is owed.
LEMMA OwedAtLeast ==
    ASSUME NEW o, NEW t \in Threads, Obj(t) = o, th[t].pc \in {"unhandle", "count"}
    PROVE  Num({"unhandle", "count"}, o) >= 1
  <1>1. t \in ThreadsAt({"unhandle", "count"}, o)
    BY DEF ThreadsAt
  <1> QED BY <1>1, ThreadsAtFinite, FS_EmptySet DEF Num

\* With no counted handle there is no thread that keeps one, none that drops
\* one, and every handle there is is on its way to be counted.
LEMMA NoCount ==
    ASSUME OneThreadEach, Types, Kept, NEW o, Balanced(o), hcount[o] \in Int
    PROVE  /\ hcount[o] >= 0
           /\ hcount[o] = 0 => \A t \in Threads : Obj(t) = o =>
                 /\ Keeps(t) => th[t].pc = "reference"
                 /\ th[t].pc \notin {"unhandle", "count"}
           /\ hcount[o] = 0 /\ ThreadsAt({"reference"}, o) = {} => HandlesOf(o) = {}
  <1>1. \A S : Num(S, o) \in Nat
    BY ThreadsAtFinite
  <1>2. IsFiniteSet(HandlesOf(o)) /\ NumHandlesOf(o) \in Nat
    BY HandlesOfFinite
  <1>3. Num({"reference"}, o) <= NumHandlesOf(o)
    BY KeeperCounted
  <1>4. hcount[o] = NumHandlesOf(o) + Num({"unhandle", "count"}, o) - Num({"reference"}, o)
    BY <1>1, <1>2 DEF Balanced, Owed
  <1>5. ASSUME hcount[o] = 0, NEW t \in Threads, Obj(t) = o
        PROVE  (Keeps(t) => th[t].pc = "reference") /\ th[t].pc \notin {"unhandle", "count"}
    <2>1. Num({"unhandle", "count"}, o) = 0 /\ NumHandlesOf(o) = Num({"reference"}, o)
      BY <1>1, <1>2, <1>3, <1>4, <1>5
    <2>2. th[t].pc \notin {"unhandle", "count"}
      BY <1>5, <2>1, OwedAtLeast
    <2>3. Keeps(t) => th[t].pc = "reference"
      BY <1>1, <1>2, <1>5, <2>1, KeeperCounted
    <2> QED BY <2>2, <2>3
  <1>6. ASSUME hcount[o] = 0, ThreadsAt({"reference"}, o) = {} PROVE HandlesOf(o) = {}
    <2>1. Num({"reference"}, o) = 0
      BY <1>6, FS_EmptySet DEF Num
    <2>2. NumHandlesOf(o) = 0
      BY <1>1, <1>2, <1>3, <1>4, <1>6, <2>1
    <2> QED BY <1>2, <2>2, FS_EmptySet DEF NumHandlesOf
  <1> QED BY <1>1, <1>2, <1>3, <1>4, <1>5, <1>6

---------------------------------------------------------------------------
(* The steps                                                               *)

\* The amounts of an object are numbers.
LEMMA Amounts ==
    ASSUME Types, NEW o \in Objects
    PROVE  /\ ref[o] \in Int /\ hcount[o] \in Int /\ mapped[o] \in {0, 1} /\ One(name[o] # NoName) \in {0, 1}
           /\ (One(name[o] # NoName) = 0 <=> name[o] = NoName)
           /\ Own(o) \in Nat /\ Owed(o) \in Int /\ NumHandlesOf(o) \in Nat
  <1>1. Own(o) \in Nat
    BY OwnSplit, ThreadsAtFinite
  <1> QED BY <1>1, ThreadsAtFinite, HandlesOfFinite DEF Types, One, Owed

\* What holds of an object that a handle, a name, an offset, a mapping or a
\* thread leads to.
LEMMA Reached ==
    ASSUME GemInv, NEW o \in Objects,
           \/ \E f \in Files, h \in Handles : table[f][h] = o
           \/ \E n \in Names : names[n] = o
           \/ onMap[o] \/ mapped[o] # 0
           \/ \E t \in Threads : Obj(t) = o
    PROVE  /\ live[o] /\ Balanced(o) /\ NameGoes(o) /\ NameAgrees(o)
           /\ ref[o] \in Nat /\ ref[o] # 0 /\ hcount[o] \in Nat
  <1>1. Types
    BY DEF GemInv, TypeOK, Types
  <1>2. ASSUME NEW t \in Threads, Obj(t) = o PROVE ThreadsAt(PCs, o) # {}
    <2>1. t \in ThreadsAt(PCs, o)
      BY <1>1, <1>2 DEF ThreadsAt, Types
    <2> QED BY <2>1
  <1>3. ASSUME NEW f \in Files, NEW h \in Handles, table[f][h] = o PROVE HandlesOf(o) # {}
    <2>1. <<f, h>> \in HandlesOf(o)
      BY <1>3 DEF HandlesOf
    <2> QED BY <2>1
  <1>4. live[o]
    BY <1>2, <1>3 DEF GemInv, Sound, Untouched
  <1> QED BY <1>4 DEF GemInv, Sound, TypeOK

\* What every proof below uses of the invariant.
LEMMA Facts ==
    ASSUME GemInv
    PROVE  /\ Types /\ Kept /\ Places
           /\ \A t \in Threads : th[t] \in Records /\ WellPlaced(th[t])
           /\ \A t \in Threads : th[t].pc \notin {"idle", "release"} => Obj(t) \in Objects
  <1>1. Types
    BY DEF GemInv, TypeOK, Types
  <1> QED BY <1>1 DEF GemInv, Types, Records, Places, WellPlaced, Obj

\* Only what leads to an object that is not being created is there for others.
LEMMA NobodyCreates ==
    ASSUME GemInv, NEW o \in Objects, NEW u \in Threads, Creating(u), Obj(u) = o
    PROVE  /\ \A f \in Files, h \in Handles : table[f][h] # o
           /\ \A n \in Names : names[n] # o
           /\ ~onMap[o] /\ mapped[o] = 0 /\ \A t \in Threads : Obj(t) = o => t = u
  <1>1. name[o] = NoName
    BY DEF GemInv, Fresh, FreshAt
  <1>2. NameAgrees(o)
    BY Reached
  <1>3. \A n \in Names : names[n] # o
    BY <1>1, <1>2, GemAssumption DEF NameAgrees, NoName, Names, GemAssumption
  <1> QED BY <1>3 DEF GemInv, Fresh, FreshAt

\* A step touches one object.
Touches(o) ==
    /\ \A p \in Objects \ {o} :
          /\ live'[p] = live[p] /\ ref'[p] = ref[p] /\ hcount'[p] = hcount[p] /\ mapped'[p] = mapped[p]
          /\ name'[p] = name[p] /\ onMap'[p] = onMap[p]
    /\ \A f \in Files, h \in Handles :
          table'[f][h] = table[f][h] \/ (table[f][h] \in {o, NoObject} /\ table'[f][h] \in {o, NoObject})
    /\ \A n \in Names :
          names'[n] = names[n] \/ (names[n] \in {o, NoObject} /\ names'[n] \in {o, NoObject})
    /\ \A u \in Threads :
          th'[u] = th[u] \/ (Obj(u) \in {o, NoObject} /\ Obj(u)' \in {o, NoObject})

\* The others are as they were.
LEMMA OthersSound ==
    ASSUME GemInv, NEW o, Touches(o), NEW p \in Objects \ {o}
    PROVE  Sound(p)'
  <1>1. p # NoObject
    BY GemAssumption DEF GemAssumption
  <1>2. HandlesOf(p)' = HandlesOf(p) /\ NumHandlesOf(p)' = NumHandlesOf(p)
    <2>1. \A f \in Files, h \in Handles : table'[f][h] = p <=> table[f][h] = p
      BY <1>1 DEF Touches
    <2> QED BY <2>1 DEF HandlesOf, NumHandlesOf
  <1>3. \A n \in Names : names'[n] = p <=> names[n] = p
    BY <1>1 DEF Touches
  <1>4. \A u \in Threads : (Obj(u)' = p <=> Obj(u) = p) /\ (Obj(u) = p => th'[u] = th[u])
    <2> SUFFICES ASSUME NEW u \in Threads
                 PROVE  (Obj(u)' = p <=> Obj(u) = p) /\ (Obj(u) = p => th'[u] = th[u])
      OBVIOUS
    <2>1. CASE th'[u] = th[u]
      BY <2>1 DEF Obj
    <2>2. CASE Obj(u) \in {o, NoObject} /\ Obj(u)' \in {o, NoObject}
      BY <1>1, <2>2
    <2> QED BY <2>1, <2>2 DEF Touches
  <1>5. \A S : ThreadsAt(S, p)' = ThreadsAt(S, p) /\ Num(S, p)' = Num(S, p)
    BY <1>4 DEF ThreadsAt, Num
  <1>6. Own(p)' = Own(p) /\ Owed(p)' = Owed(p)
    BY <1>5 DEF Own, Owed
  <1>7. /\ live'[p] = live[p] /\ ref'[p] = ref[p] /\ hcount'[p] = hcount[p] /\ mapped'[p] = mapped[p]
        /\ name'[p] = name[p] /\ onMap'[p] = onMap[p]
    BY DEF Touches
  <1>8. Sound(p)
    BY DEF GemInv
  <1>9. Balanced(p)' <=> Balanced(p)
    BY <1>2, <1>6, <1>7 DEF Balanced
  <1>10. NameGoes(p)' <=> NameGoes(p)
    BY <1>4, <1>7 DEF NameGoes
  <1>11. NameAgrees(p)' <=> NameAgrees(p)
    BY <1>3, <1>7 DEF NameAgrees
  <1>12. Untouched(p)' <=> Untouched(p)
    BY <1>2, <1>3, <1>5, <1>7 DEF Untouched
  <1> QED BY <1>7, <1>8, <1>9, <1>10, <1>11, <1>12 DEF Sound

\* So are the threads that do not move.
LEMMA OthersKept ==
    ASSUME GemInv, NEW o, Touches(o), NEW u \in Threads, th'[u] = th[u],
           table'[FileOf[u]] = table[FileOf[u]], Creating(u) => Obj(u) # o
    PROVE  KeptBy(u)' /\ FreshAt(u)'
  <1>1. KeptBy(u)'
    BY DEF GemInv, Kept, KeptBy, Keeps, Obj
  <1>2. ASSUME Creating(u) PROVE FreshAt(u)'
    <2>1. PICK p \in Objects : Obj(u) = p
      BY <1>2, Facts DEF Creating
    <2>2. p # o /\ p # NoObject /\ Obj(u)' = p
      BY <1>2, <2>1, GemAssumption DEF GemAssumption, Obj
    <2>3. FreshAt(u)
      BY DEF GemInv, Fresh
    <2>4. hcount'[p] = 0 /\ mapped'[p] = 0 /\ name'[p] = NoName /\ ~onMap'[p]
      BY <1>2, <2>1, <2>2, <2>3 DEF Touches, FreshAt
    <2>5. \A f \in Files, h \in Handles : table'[f][h] # p
      BY <1>2, <2>1, <2>2, <2>3 DEF Touches, FreshAt
    <2>6. \A v \in Threads : Obj(v)' = p => v = u
      BY <1>2, <2>1, <2>2, <2>3 DEF Touches, FreshAt, Obj
    <2> QED BY <2>2, <2>4, <2>5, <2>6 DEF FreshAt
  <1>3. ASSUME ~Creating(u) PROVE FreshAt(u)'
    BY <1>3 DEF FreshAt, Creating
  <1> QED BY <1>1, <1>2, <1>3

\* A thread moves.
LEMMA Moves ==
    ASSUME GemInv, NEW t \in Threads, NEW r \in Records, th' = [th EXCEPT ![t] = r], WellPlaced(r)
    PROVE  /\ th' \in [Threads -> Records] /\ Places'
           /\ \A u \in Threads : th'[u] = IF u = t THEN r ELSE th[u]
           /\ \A o : Own(o)' = Own(o) - Weight(th[t], o) + Weight(r, o)
           /\ \A o : Owed(o)' = Owed(o) - Owing(th[t], o) + Owing(r, o)
  <1>1. Types
    BY Facts
  <1>2. th' \in [Threads -> Records] /\ \A u \in Threads : th'[u] = IF u = t THEN r ELSE th[u]
    BY <1>1 DEF Types, Records
  <1>3. Places'
    BY <1>2 DEF GemInv, Places
  <1>4. \A o : Own(o)' = Own(o) - Weight(th[t], o) + Weight(r, o) /\ Owed(o)' = Owed(o) - Owing(th[t], o) + Owing(r, o)
    BY <1>1, MoveWeights DEF Records
  <1> QED BY <1>2, <1>3, <1>4

\* A step of a thread, and what is left to show of it.
ThreadTouches(t, r, o) ==
    /\ th' = [th EXCEPT ![t] = r] /\ WellPlaced(r)
    /\ Obj(t) \in {o, NoObject} /\ r.obj \in {o, NoObject}
    /\ \A f \in Files \ {FileOf[t]} : table'[f] = table[f]
    /\ \A u \in Threads \ {t} : Creating(u) => Obj(u) # o
    /\ \A p \in Objects \ {o} :
          /\ live'[p] = live[p] /\ ref'[p] = ref[p] /\ hcount'[p] = hcount[p] /\ mapped'[p] = mapped[p]
          /\ name'[p] = name[p] /\ onMap'[p] = onMap[p]
    /\ \A f \in Files, h \in Handles :
          table'[f][h] = table[f][h] \/ (table[f][h] \in {o, NoObject} /\ table'[f][h] \in {o, NoObject})
    /\ \A n \in Names :
          names'[n] = names[n] \/ (names[n] \in {o, NoObject} /\ names'[n] \in {o, NoObject})

\* A step of a thread keeps the invariant if it does for the object it touches.
LEMMA ThreadStep ==
    ASSUME OneThreadEach, GemInv, NEW t \in Threads, NEW r \in Records, NEW o, ThreadTouches(t, r, o),
           TypeOK', KeptBy(t)', FreshAt(t)', o \in Objects => Sound(o)'
    PROVE  GemInv'
  <1>1. Places' /\ \A u \in Threads : th'[u] = IF u = t THEN r ELSE th[u]
    BY Moves DEF ThreadTouches
  <1>2. Touches(o)
    BY <1>1 DEF ThreadTouches, Touches, Obj
  <1>3. \A p \in Objects : Sound(p)'
    BY <1>2, OthersSound
  <1>4. ASSUME NEW u \in Threads \ {t} PROVE KeptBy(u)' /\ FreshAt(u)'
    <2>1. FileOf[u] \in Files \ {FileOf[t]}
      BY GemAssumption DEF OneThreadEach, GemAssumption
    <2> QED BY <1>1, <1>2, <2>1, OthersKept DEF ThreadTouches
  <1>5. Kept' /\ Fresh'
    BY <1>4 DEF Kept, Fresh
  <1> QED BY <1>1, <1>3, <1>5 DEF GemInv

\* A thread that goes on with its object.
LEMMA GotoRecord ==
    ASSUME GemInv, NEW t \in Threads, NEW l \in PCs, Goto(t, l)
    PROVE  \E r \in Records : r.pc = l /\ r.obj = Obj(t) /\ r.after = th[t].after /\ th' = [th EXCEPT ![t] = r]
  <1>1. Types
    BY Facts
  <1>2. \A q \in Records : [q EXCEPT !.pc = l] = [pc |-> l, obj |-> q.obj, after |-> q.after]
    BY DEF Records
  <1>3. th[t] \in Records
    BY <1>1 DEF Types, Records
  <1>4. th' = [th EXCEPT ![t] = [pc |-> l, obj |-> th[t].obj, after |-> th[t].after]]
    BY <1>1, <1>2, <1>3 DEF Goto, Types
  <1>5. [pc |-> l, obj |-> th[t].obj, after |-> th[t].after] \in Records
    BY <1>3 DEF Records
  <1> QED BY <1>4, <1>5 DEF Obj

\* Its next place is l; a, b and m are the counts and the name afterwards.
Advances(t, l, o, a, b, m) ==
    /\ Goto(t, l) /\ Obj(t) = o /\ UNCHANGED <<live, onMap, mapped, table, opened>>
    /\ ref' = [ref EXCEPT ![o] = a] /\ hcount' = [hcount EXCEPT ![o] = b] /\ name' = [name EXCEPT ![o] = m]
    /\ names' \in [Names -> Objects \cup {NoObject}]
    /\ \A n \in Names : names'[n] = names[n] \/ (names[n] \in {o, NoObject} /\ names'[n] \in {o, NoObject})
    /\ NameAgrees(o)'
    /\ ~Creating(t)
    /\ l \in {"unhandle", "count", "unname", "nameref", "pager"} => th[t].after # "opened"
    /\ l \in {"reference", "size", "flink", "named"} \/ (l = "unref" /\ th[t].after = "opened") => Keeps(t)
    /\ m # NoName => b > 0 \/ l = "unname" \/ (th[t].pc # "unname" /\ m = name[o] /\ b = hcount[o])
    /\ a = b + mapped[o] + One(m # NoName) + Own(o) - OwnAt(th[t].pc) + OwnAt(l)
    /\ b = hcount[o] - OweAt(th[t].pc) + OweAt(l)

\* A thread that keeps its object, and no handle moves.
LEMMA GoOn ==
    ASSUME OneThreadEach, GemInv, NEW t \in Threads, NEW l \in PCs \ {"idle", "release", "insert"},
           NEW o \in Objects, NEW a \in Nat \ {0}, NEW b \in Nat, NEW m \in Names \cup {NoName},
           Advances(t, l, o, a, b, m)
    PROVE  GemInv'
  <1>1. Types /\ live[o] /\ Balanced(o) /\ NameGoes(o)
    BY Facts, Reached DEF Advances
  <1>2. PICK r \in Records : r.pc = l /\ r.obj = o /\ r.after = th[t].after /\ th' = [th EXCEPT ![t] = r]
    BY GotoRecord DEF Advances
  <1>3. o # NoObject
    BY GemAssumption DEF GemAssumption
  <1>4. WellPlaced(r)
    BY <1>2, <1>3 DEF WellPlaced, Advances
  <1>5. /\ th' \in [Threads -> Records]
        /\ \A u \in Threads : th'[u] = IF u = t THEN r ELSE th[u]
        /\ Own(o)' = Own(o) - Weight(th[t], o) + Weight(r, o)
        /\ Owed(o)' = Owed(o) - Owing(th[t], o) + Owing(r, o)
    <2>1. th' = [th EXCEPT ![t] = r]
      BY <1>2
    <2> HIDE <1>2
    <2> QED BY <1>4, <2>1, Moves
  <1>6. Own(o)' = Own(o) - OwnAt(th[t].pc) + OwnAt(l) /\ Owed(o)' = Owed(o) - OweAt(th[t].pc) + OweAt(l)
    BY <1>2, <1>5 DEF Weight, Owing, Obj, Advances
  <1>7. ref'[o] = a /\ hcount'[o] = b /\ name'[o] = m /\ live'[o] /\ mapped' = mapped /\ table' = table
    BY <1>1 DEF Types, Advances
  <1>8. TypeOK'
    BY <1>1, <1>5 DEF GemInv, TypeOK, Records, Types, Advances
  <1>9. Sound(o)'
    <2>1. NumHandlesOf(o)' = NumHandlesOf(o)
      BY <1>7 DEF NumHandlesOf, HandlesOf
    <2>2. OwnAt(th[t].pc) \in Int /\ OwnAt(l) \in Int /\ OweAt(th[t].pc) \in Int /\ OweAt(l) \in Int
      BY DEF OwnAt, OweAt
    <2>3. hcount[o] \in Int /\ mapped[o] \in Int /\ Own(o) \in Int /\ Owed(o) \in Int /\ NumHandlesOf(o) \in Int
          /\ One(m # NoName) \in Int
      BY <1>1, Amounts DEF One
    <2>4. hcount[o] = NumHandlesOf(o) + Owed(o)
      BY <1>1 DEF Balanced
    <2>5. b = NumHandlesOf(o) + (Owed(o) - OweAt(th[t].pc) + OweAt(l))
      BY <2>2, <2>3, <2>4 DEF Advances
    <2>6. a = b + mapped[o] + One(m # NoName) + (Own(o) - OwnAt(th[t].pc) + OwnAt(l))
      BY <2>2, <2>3 DEF Advances
    <2>7. Balanced(o)'
      BY <1>6, <1>7, <2>1, <2>5, <2>6 DEF Balanced
    <2>8. NameGoes(o)'
      <3> SUFFICES ASSUME m # NoName PROVE b > 0 \/ \E u \in Threads : th'[u].pc = "unname" /\ Obj(u)' = o
        BY <1>7 DEF NameGoes
      <3>1. CASE l = "unname"
        BY <1>2, <1>5, <3>1 DEF Obj
      <3>2. CASE th[t].pc # "unname" /\ m = name[o] /\ b = hcount[o]
        BY <1>1, <1>2, <1>5, <3>2 DEF NameGoes, Obj
      <3> QED BY <3>1, <3>2 DEF Advances
    <2> QED BY <1>7, <2>7, <2>8 DEF Sound, Advances
  <1>10. KeptBy(t)' /\ FreshAt(t)'
    <2>1. Keeps(t)' => Keeps(t)
      BY <1>2, <1>5 DEF Keeps, Advances
    <2>2. KeptBy(t)'
      BY <1>2, <1>5, <1>7, <2>1 DEF GemInv, Kept, KeptBy, Obj, Advances
    <2> QED BY <1>2, <1>5, <2>2 DEF FreshAt, Creating
  <1>11. \A u \in Threads \ {t} : Creating(u) => Obj(u) # o
    BY NobodyCreates DEF Advances
  <1>12. \A p \in Objects \ {o} :
           /\ live'[p] = live[p] /\ ref'[p] = ref[p] /\ hcount'[p] = hcount[p] /\ mapped'[p] = mapped[p]
           /\ name'[p] = name[p] /\ onMap'[p] = onMap[p]
    BY <1>1 DEF Types, Advances
  <1>13. ThreadTouches(t, r, o)
    BY <1>2, <1>4, <1>7, <1>11, <1>12 DEF ThreadTouches, Advances
  <1> QED BY <1>8, <1>9, <1>10, <1>13, ThreadStep

\* The handle that is in the table is counted.
LEMMA HandleReferenceInv ==
    ASSUME OneThreadEach, GemInv, NEW t \in Threads, HandleReference(t) PROVE GemInv'
  <1>1. th[t].pc = "reference" /\ Obj(t) \in Objects
    BY Facts DEF HandleReference, At
  <1>2. PICK o \in Objects : Obj(t) = o
    BY <1>1
  <1>3. /\ ref' = [ref EXCEPT ![o] = ref[o] + 1] /\ hcount' = [hcount EXCEPT ![o] = hcount[o] + 1]
        /\ Goto(t, "unref")
        /\ live' = live /\ name' = name /\ onMap' = onMap /\ mapped' = mapped /\ table' = table
        /\ names' = names /\ opened' = opened
    BY <1>2 DEF HandleReference, Reference
  <1>4. Types /\ Balanced(o) /\ NameAgrees(o) /\ hcount[o] \in Nat /\ ref[o] \in Nat
    BY <1>2, Facts, Reached
  <1>5. OwnAt("reference") = 1 /\ OwnAt("unref") = 1 /\ OweAt("reference") = -1 /\ OweAt("unref") = 0
    BY DEF OwnAt, OweAt, Work1
  <1>6. Advances(t, "unref", o, ref[o] + 1, hcount[o] + 1, name[o])
    <2>1. NameAgrees(o)' /\ name' = [name EXCEPT ![o] = name[o]] /\ names' \in [Names -> Objects \cup {NoObject}]
      BY <1>3, <1>4 DEF NameAgrees, Types
    <2>2. /\ ref[o] + 1 = (hcount[o] + 1) + mapped[o] + One(name[o] # NoName) + Own(o) - OwnAt(th[t].pc) + OwnAt("unref")
          /\ hcount[o] + 1 = hcount[o] - OweAt(th[t].pc) + OweAt("unref") /\ hcount[o] + 1 > 0
      BY <1>1, <1>4, <1>5, Amounts DEF Balanced
    <2> QED BY <1>1, <1>2, <1>3, <2>1, <2>2 DEF Advances, Keeps, Creating
  <1> QED BY <1>4, <1>6, GoOn DEF PCs, Types

\* A handle that is dropped has been counted: handle_count is not zero.
LEMMA HandleUnreferenceInv ==
    ASSUME OneThreadEach, GemInv, NEW t \in Threads, HandleUnreference(t) PROVE GemInv'
  <1>1. th[t].pc = "unhandle" /\ Obj(t) \in Objects /\ UNCHANGED <<objVars, mapped, table, names, opened>>
    BY Facts DEF HandleUnreference, At
  <1>2. PICK o \in Objects : Obj(t) = o
    BY <1>1
  <1>3. Types /\ Kept /\ Balanced(o) /\ NameAgrees(o) /\ hcount[o] \in Nat /\ ref[o] \in Nat /\ ref[o] # 0
    BY <1>2, Facts, Reached
  <1>4. hcount[o] # 0
    BY <1>1, <1>2, <1>3, NoCount
  <1>5. Goto(t, "count") /\ th[t].after # "opened"
    BY <1>1, <1>2, <1>4, Facts DEF HandleUnreference, WellPlaced
  <1>6. OwnAt("unhandle") = 0 /\ OwnAt("count") = 0 /\ OweAt("unhandle") = 1 /\ OweAt("count") = 1
    BY DEF OwnAt, OweAt, Work1
  <1>7. Advances(t, "count", o, ref[o], hcount[o], name[o])
    <2>1. /\ NameAgrees(o)' /\ name' = [name EXCEPT ![o] = name[o]] /\ names' \in [Names -> Objects \cup {NoObject}]
          /\ ref' = [ref EXCEPT ![o] = ref[o]] /\ hcount' = [hcount EXCEPT ![o] = hcount[o]]
      BY <1>1, <1>3 DEF NameAgrees, Types, objVars
    <2>2. /\ ref[o] = hcount[o] + mapped[o] + One(name[o] # NoName) + Own(o) - OwnAt(th[t].pc) + OwnAt("count")
          /\ hcount[o] = hcount[o] - OweAt(th[t].pc) + OweAt("count") /\ hcount[o] > 0
      BY <1>1, <1>3, <1>4, <1>6, Amounts DEF Balanced
    <2> QED BY <1>1, <1>2, <1>5, <2>1, <2>2 DEF Advances, Creating, objVars
  <1> QED BY <1>3, <1>7, GoOn DEF PCs, Types

\* The last count that goes takes care of the name.
LEMMA HandleCountInv ==
    ASSUME OneThreadEach, GemInv, NEW t \in Threads, HandleCount(t) PROVE GemInv'
  <1>1. th[t].pc = "count" /\ Obj(t) \in Objects /\ th[t].after # "opened"
    BY Facts DEF HandleCount, At, WellPlaced
  <1>2. PICK o \in Objects : Obj(t) = o
    BY <1>1
  <1>3. /\ hcount' = [hcount EXCEPT ![o] = hcount[o] - 1] /\ Goto(t, IF hcount[o] = 1 THEN "unname" ELSE "unref")
        /\ live' = live /\ ref' = ref /\ name' = name /\ onMap' = onMap /\ mapped' = mapped /\ table' = table
        /\ names' = names /\ opened' = opened
    BY <1>2 DEF HandleCount
  <1>4. Types /\ Kept /\ Balanced(o) /\ NameAgrees(o) /\ hcount[o] \in Nat /\ ref[o] \in Nat /\ ref[o] # 0
    BY <1>2, Facts, Reached
  <1>5. hcount[o] # 0
    BY <1>1, <1>2, <1>4, NoCount
  <1>6. /\ OwnAt("count") = 0 /\ OwnAt("unname") = 1 /\ OwnAt("unref") = 1
        /\ OweAt("count") = 1 /\ OweAt("unname") = 0 /\ OweAt("unref") = 0
    BY DEF OwnAt, OweAt, Work1
  <1>7. PICK l \in {"unname", "unref"} : Goto(t, l) /\ (l = "unname" <=> hcount[o] = 1)
    BY <1>3
  <1>8. Advances(t, l, o, ref[o], hcount[o] - 1, name[o])
    <2>1. /\ NameAgrees(o)' /\ name' = [name EXCEPT ![o] = name[o]] /\ names' \in [Names -> Objects \cup {NoObject}]
          /\ ref' = [ref EXCEPT ![o] = ref[o]]
      BY <1>3, <1>4 DEF NameAgrees, Types
    <2>2. /\ ref[o] = (hcount[o] - 1) + mapped[o] + One(name[o] # NoName) + Own(o) - OwnAt(th[t].pc) + OwnAt(l)
          /\ hcount[o] - 1 = hcount[o] - OweAt(th[t].pc) + OweAt(l)
          /\ (hcount[o] - 1 > 0 \/ l = "unname")
      BY <1>1, <1>4, <1>5, <1>6, <1>7, Amounts DEF Balanced
    <2> QED BY <1>1, <1>2, <1>3, <1>7, <2>1, <2>2 DEF Advances, Creating
  <1>9. l \in PCs \ {"idle", "release", "insert"} /\ ref[o] \in Nat \ {0} /\ hcount[o] - 1 \in Nat
        /\ name[o] \in Names \cup {NoName}
    BY <1>4, <1>5 DEF PCs, Types
  <1> QED BY <1>8, <1>9, GoOn

\* The name leaves the table and the object in one step; its reference is then
\* the thread's.
LEMMA HandleFreeInv ==
    ASSUME OneThreadEach, GemInv, NEW t \in Threads, HandleFree(t) PROVE GemInv'
  <1>1. th[t].pc = "unname" /\ Obj(t) \in Objects /\ th[t].after # "opened"
    BY Facts DEF HandleFree, At, WellPlaced
  <1>2. PICK o \in Objects : Obj(t) = o
    BY <1>1
  <1>3. /\ live' = live /\ ref' = ref /\ hcount' = hcount /\ onMap' = onMap /\ mapped' = mapped /\ table' = table
        /\ opened' = opened
    BY DEF HandleFree
  <1>4. Types /\ Kept /\ Balanced(o) /\ NameAgrees(o) /\ hcount[o] \in Nat /\ ref[o] \in Nat /\ ref[o] # 0
    BY <1>2, Facts, Reached
  <1>5. /\ OwnAt("unname") = 1 /\ OwnAt("nameref") = 2 /\ OwnAt("unref") = 1
        /\ OweAt("unname") = 0 /\ OweAt("nameref") = 0 /\ OweAt("unref") = 0
    BY DEF OwnAt, OweAt, Work1
  <1>6. ref' = [ref EXCEPT ![o] = ref[o]] /\ hcount' = [hcount EXCEPT ![o] = hcount[o]]
    BY <1>3, <1>4 DEF Types
  <1>7. CASE name[o] = NoName
    <2>1. Goto(t, "unref") /\ names' = names /\ name' = name
      BY <1>2, <1>7 DEF HandleFree
    <2>2. Advances(t, "unref", o, ref[o], hcount[o], NoName)
      <3>1. NameAgrees(o)' /\ name' = [name EXCEPT ![o] = NoName] /\ names' \in [Names -> Objects \cup {NoObject}]
        BY <1>4, <1>7, <2>1 DEF NameAgrees, Types
      <3>2. /\ ref[o] = hcount[o] + mapped[o] + One(NoName # NoName) + Own(o) - OwnAt(th[t].pc) + OwnAt("unref")
            /\ hcount[o] = hcount[o] - OweAt(th[t].pc) + OweAt("unref")
        BY <1>1, <1>4, <1>5, <1>7, Amounts DEF Balanced
      <3> QED BY <1>1, <1>2, <1>3, <1>6, <2>1, <3>1, <3>2 DEF Advances, Creating
    <2> QED BY <1>4, <2>2, GoOn DEF PCs, Types
  <1>8. CASE name[o] # NoName
    <2>1. /\ Goto(t, "nameref") /\ names' = [names EXCEPT ![name[o]] = NoObject] /\ name' = [name EXCEPT ![o] = NoName]
      BY <1>2, <1>8 DEF HandleFree
    <2>2. name[o] \in Names /\ names[name[o]] = o
      BY <1>4, <1>8 DEF Types, NameAgrees
    <2>3. Advances(t, "nameref", o, ref[o], hcount[o], NoName)
      <3>1. names' \in [Names -> Objects \cup {NoObject}]
            /\ \A n \in Names : names'[n] = IF n = name[o] THEN NoObject ELSE names[n]
        BY <1>4, <2>1, <2>2 DEF Types
      <3>2. NameAgrees(o)'
        BY <1>4, <2>1, <2>2, <3>1, GemAssumption DEF NameAgrees, Types, GemAssumption, Names, NoName
      <3>3. /\ ref[o] = hcount[o] + mapped[o] + One(NoName # NoName) + Own(o) - OwnAt(th[t].pc) + OwnAt("nameref")
            /\ hcount[o] = hcount[o] - OweAt(th[t].pc) + OweAt("nameref")
        <4>1. One(NoName # NoName) = 0 /\ One(name[o] # NoName) = 1
          BY <1>8 DEF One
        <4> QED BY <1>1, <1>4, <1>5, <4>1, Amounts DEF Balanced
      <3> QED BY <1>1, <1>2, <1>3, <1>6, <2>1, <2>2, <3>1, <3>2, <3>3 DEF Advances, Creating
    <2> QED BY <1>4, <2>3, GoOn DEF PCs, Types
  <1> QED BY <1>7, <1>8

\* The name's reference is never the last: the thread has one of its own.
LEMMA NameUnreferenceInv ==
    ASSUME OneThreadEach, GemInv, NEW t \in Threads, NameUnreference(t) PROVE GemInv'
  <1>1. th[t].pc = "nameref" /\ Obj(t) \in Objects /\ th[t].after # "opened"
    BY Facts DEF NameUnreference, At, WellPlaced
  <1>2. PICK o \in Objects : Obj(t) = o
    BY <1>1
  <1>3. /\ ref' = [ref EXCEPT ![o] = ref[o] - 1] /\ Goto(t, "unref")
        /\ live' = live /\ hcount' = hcount /\ name' = name /\ onMap' = onMap /\ mapped' = mapped /\ table' = table
        /\ names' = names /\ opened' = opened
    BY <1>2 DEF NameUnreference
  <1>4. Types /\ Kept /\ Balanced(o) /\ NameAgrees(o) /\ NameGoes(o) /\ hcount[o] \in Nat /\ ref[o] \in Nat
    BY <1>2, Facts, Reached
  <1>5. OwnAt("nameref") = 2 /\ OwnAt("unref") = 1 /\ OweAt("nameref") = 0 /\ OweAt("unref") = 0
    BY DEF OwnAt, OweAt, Work1
  <1>6. Own(o) >= 2
    BY <1>1, <1>2, <1>4, <1>5, OwnAtLeast DEF Weight, Obj
  <1>7. ref[o] >= 2
    BY <1>4, <1>6, Amounts DEF Balanced
  <1>8. Advances(t, "unref", o, ref[o] - 1, hcount[o], name[o])
    <2>1. /\ NameAgrees(o)' /\ name' = [name EXCEPT ![o] = name[o]] /\ names' \in [Names -> Objects \cup {NoObject}]
          /\ hcount' = [hcount EXCEPT ![o] = hcount[o]]
      BY <1>3, <1>4 DEF NameAgrees, Types
    <2>2. /\ ref[o] - 1 = hcount[o] + mapped[o] + One(name[o] # NoName) + Own(o) - OwnAt(th[t].pc) + OwnAt("unref")
          /\ hcount[o] = hcount[o] - OweAt(th[t].pc) + OweAt("unref")
      BY <1>1, <1>4, <1>5, Amounts DEF Balanced
    <2> QED BY <1>1, <1>2, <1>3, <2>1, <2>2 DEF Advances, Creating
  <1> QED BY <1>4, <1>7, <1>8, GoOn DEF PCs, Types

\* idr_get_new finds a free number.
LEMMA LeastIn ==
    ASSUME NEW S, S \in SUBSET Nat, S # {} PROVE Least(S) \in S
  <1> DEFINE R == OpToRel(<, Nat)
  <1>1. PICK n \in S : \A m \in S : <<m, n>> \notin R
    <2> HIDE DEF R
    <2>1. IsWellFoundedOn(R, Nat)
      BY NatLessThanWellFounded DEF R
    <2> QED BY <2>1, WFMin
  <1>2. \A m \in S : n <= m
    <2>1. \A m \in S : <<m, n>> \in Nat \X Nat /\ <<m, n>>[1] = m /\ <<m, n>>[2] = n
      BY <1>1
    <2>2. \A m \in S : ~(m < n)
      BY <1>1, <2>1, Zenon DEF OpToRel
    <2> QED BY <2>2
  <1> QED BY <1>2 DEF Least

\* flink names an object that its thread still reaches by a handle: the name
\* goes in before its reference.
LEMMA FlinkInv ==
    ASSUME OneThreadEach, GemInv, NEW t \in Threads, Flink(t) PROVE GemInv'
  <1>1. th[t].pc = "flink" /\ Obj(t) \in Objects
    BY Facts DEF Flink, At
  <1>2. PICK o \in Objects : Obj(t) = o
    BY <1>1
  <1>3. /\ live' = live /\ ref' = ref /\ hcount' = hcount /\ onMap' = onMap /\ mapped' = mapped /\ table' = table
        /\ opened' = opened
    BY DEF Flink
  <1>4. Types /\ Kept /\ Balanced(o) /\ NameAgrees(o) /\ NameGoes(o) /\ hcount[o] \in Nat /\ ref[o] \in Nat /\ ref[o] # 0
    BY <1>2, Facts, Reached
  <1>5. /\ OwnAt("flink") = 1 /\ OwnAt("named") = 0 /\ OwnAt("unref") = 1
        /\ OweAt("flink") = 0 /\ OweAt("named") = 0 /\ OweAt("unref") = 0
    BY DEF OwnAt, OweAt, Work1
  <1>6. ref' = [ref EXCEPT ![o] = ref[o]] /\ hcount' = [hcount EXCEPT ![o] = hcount[o]]
    BY <1>3, <1>4 DEF Types
  <1>7. Keeps(t) /\ ~Creating(t) /\ hcount[o] > 0
    <2>1. Keeps(t) /\ ~Creating(t)
      BY <1>1 DEF Keeps, Creating
    <2>2. hcount[o] # 0
      BY <1>1, <1>2, <1>4, <2>1, NoCount
    <2> QED BY <1>4, <2>1, <2>2
  <1>8. CASE Goto(t, "unref") /\ name' = name /\ names' = names
    <2>1. Advances(t, "unref", o, ref[o], hcount[o], name[o])
      <3>1. NameAgrees(o)' /\ name' = [name EXCEPT ![o] = name[o]] /\ names' \in [Names -> Objects \cup {NoObject}]
        BY <1>4, <1>8 DEF NameAgrees, Types
      <3>2. /\ ref[o] = hcount[o] + mapped[o] + One(name[o] # NoName) + Own(o) - OwnAt(th[t].pc) + OwnAt("unref")
            /\ hcount[o] = hcount[o] - OweAt(th[t].pc) + OweAt("unref")
        BY <1>1, <1>4, <1>5, Amounts DEF Balanced
      <3> QED BY <1>1, <1>2, <1>3, <1>6, <1>7, <1>8, <3>1, <3>2 DEF Advances
    <2> QED BY <1>4, <2>1, GoOn DEF PCs, Types
  <1>9. CASE /\ name[o] = NoName /\ FreeNames # {} /\ Goto(t, "named")
             /\ name' = [name EXCEPT ![o] = Least(FreeNames)] /\ names' = [names EXCEPT ![Least(FreeNames)] = o]
    <2>1. PICK n \in Names : n = Least(FreeNames) /\ names[n] = NoObject
      BY <1>9, LeastIn DEF FreeNames, Names
    <2>2. n # NoName
      BY GemAssumption DEF Names, NoName, GemAssumption
    <2>3. Advances(t, "named", o, ref[o], hcount[o], n)
      <3>1. /\ name' = [name EXCEPT ![o] = n] /\ names' \in [Names -> Objects \cup {NoObject}]
            /\ \A k \in Names : names'[k] = IF k = n THEN o ELSE names[k]
        BY <1>4, <1>9, <2>1 DEF Types
      <3>2. NameAgrees(o)'
        BY <1>4, <1>9, <3>1, GemAssumption DEF NameAgrees, Types, GemAssumption, Names, NoName
      <3>3. /\ ref[o] = hcount[o] + mapped[o] + One(n # NoName) + Own(o) - OwnAt(th[t].pc) + OwnAt("named")
            /\ hcount[o] = hcount[o] - OweAt(th[t].pc) + OweAt("named")
        <4>1. One(n # NoName) = 1 /\ One(name[o] # NoName) = 0
          BY <1>9, <2>2 DEF One
        <4> QED BY <1>1, <1>4, <1>5, <4>1, Amounts DEF Balanced
      <3> QED BY <1>1, <1>2, <1>3, <1>6, <1>7, <1>9, <2>1, <3>1, <3>2, <3>3 DEF Advances
    <2>4. ref[o] \in Nat \ {0} /\ "named" \in PCs \ {"idle", "release", "insert"} /\ n \in Names \cup {NoName}
      BY <1>4 DEF PCs
    <2> QED BY <1>4, <2>3, <2>4, GoOn
  <1> QED BY <1>2, <1>8, <1>9 DEF Flink

\* The name gets the reference that was still missing.
LEMMA FlinkReferenceInv ==
    ASSUME OneThreadEach, GemInv, NEW t \in Threads, FlinkReference(t) PROVE GemInv'
  <1>1. th[t].pc = "named" /\ Obj(t) \in Objects
    BY Facts DEF FlinkReference, At
  <1>2. PICK o \in Objects : Obj(t) = o
    BY <1>1
  <1>3. /\ ref' = [ref EXCEPT ![o] = ref[o] + 1] /\ Goto(t, "unref")
        /\ live' = live /\ hcount' = hcount /\ name' = name /\ onMap' = onMap /\ mapped' = mapped /\ table' = table
        /\ names' = names /\ opened' = opened
    BY <1>2 DEF FlinkReference, Reference
  <1>4. Types /\ Kept /\ Balanced(o) /\ NameAgrees(o) /\ NameGoes(o) /\ hcount[o] \in Nat /\ ref[o] \in Nat
    BY <1>2, Facts, Reached
  <1>5. OwnAt("named") = 0 /\ OwnAt("unref") = 1 /\ OweAt("named") = 0 /\ OweAt("unref") = 0
    BY DEF OwnAt, OweAt, Work1
  <1>6. Advances(t, "unref", o, ref[o] + 1, hcount[o], name[o])
    <2>1. /\ NameAgrees(o)' /\ name' = [name EXCEPT ![o] = name[o]] /\ names' \in [Names -> Objects \cup {NoObject}]
          /\ hcount' = [hcount EXCEPT ![o] = hcount[o]]
      BY <1>3, <1>4 DEF NameAgrees, Types
    <2>2. /\ ref[o] + 1 = hcount[o] + mapped[o] + One(name[o] # NoName) + Own(o) - OwnAt(th[t].pc) + OwnAt("unref")
          /\ hcount[o] = hcount[o] - OweAt(th[t].pc) + OweAt("unref")
      BY <1>1, <1>4, <1>5, Amounts DEF Balanced
    <2> QED BY <1>1, <1>2, <1>3, <2>1, <2>2 DEF Advances, Creating, Keeps
  <1> QED BY <1>4, <1>6, GoOn DEF PCs, Types

\* Steps that leave the handle count and the name of the object alone.
Plain(t, r, o) ==
    /\ th' = [th EXCEPT ![t] = r] /\ WellPlaced(r)
    /\ Obj(t) \in {o, NoObject} /\ r.obj \in {o, NoObject}
    /\ live' = live /\ hcount' = hcount /\ name' = name /\ onMap' = onMap /\ names' = names /\ opened' = opened
    /\ ref' \in [Objects -> Int] /\ mapped' \in [Objects -> {0, 1}]
    /\ table' \in [Files -> [Handles -> Objects \cup {NoObject}]]
    /\ \A p \in Objects \ {o} : ref'[p] = ref[p] /\ mapped'[p] = mapped[p]
    /\ \A f \in Files \ {FileOf[t]} : table'[f] = table[f]
    /\ \A f \in Files, h \in Handles :
          table'[f][h] = table[f][h] \/ (table[f][h] \in {o, NoObject} /\ table'[f][h] \in {o, NoObject})
    /\ \A u \in Threads \ {t} : Creating(u) => Obj(u) # o
    /\ th[t].pc # "unname" /\ KeptBy(t)' /\ ~Creating(t)' /\ ref'[o] > 0
    /\ ref'[o] = ref[o] + mapped'[o] - mapped[o] - Weight(th[t], o) + Weight(r, o)
    /\ NumHandlesOf(o)' = NumHandlesOf(o) + Owing(th[t], o) - Owing(r, o)

\* Such a step keeps the invariant if the counts still balance.
LEMMA PlainStep ==
    ASSUME OneThreadEach, GemInv, NEW t \in Threads, NEW r \in Records, NEW o \in Objects, live[o],
           Plain(t, r, o)
    PROVE  GemInv'
  <1>1. Types /\ Balanced(o) /\ NameGoes(o) /\ NameAgrees(o)
    BY Facts DEF GemInv, Sound
  <1>2. /\ th' \in [Threads -> Records]
        /\ \A u \in Threads : th'[u] = IF u = t THEN r ELSE th[u]
        /\ Own(o)' = Own(o) - Weight(th[t], o) + Weight(r, o)
        /\ Owed(o)' = Owed(o) - Owing(th[t], o) + Owing(r, o)
    <2>1. th' = [th EXCEPT ![t] = r] /\ WellPlaced(r)
      BY DEF Plain
    <2> QED BY <2>1, Moves
  <1>3. TypeOK'
    <2>1. \A p \in Objects : ref'[p] \in Nat
      BY DEF Plain, GemInv, TypeOK
    <2>2. ref' \in [Objects -> Nat]
      BY <2>1 DEF Plain
    <2> QED BY <1>1, <1>2, <2>2 DEF GemInv, TypeOK, Records, Plain
  <1>4. Balanced(o)'
    <2>1. /\ ref[o] \in Int /\ hcount[o] \in Int /\ mapped[o] \in Int /\ One(name[o] # NoName) \in Int
          /\ Own(o) \in Int /\ Owed(o) \in Int /\ NumHandlesOf(o) \in Int
      BY <1>1, Amounts DEF One
    <2>2. mapped'[o] \in Int /\ ref'[o] \in Int
      BY DEF Plain
    <2>3. Weight(th[t], o) \in Int /\ Weight(r, o) \in Int /\ Owing(th[t], o) \in Int /\ Owing(r, o) \in Int
      BY DEF Weight, Owing, OwnAt, OweAt
    <2>4. /\ ref[o] = hcount[o] + mapped[o] + One(name[o] # NoName) + Own(o)
          /\ hcount[o] = NumHandlesOf(o) + Owed(o)
      BY <1>1 DEF Balanced
    <2>5. ref'[o] = hcount[o] + mapped'[o] + One(name[o] # NoName) + (Own(o) - Weight(th[t], o) + Weight(r, o))
      BY <2>1, <2>2, <2>3, <2>4 DEF Plain
    <2>6. hcount[o] = (NumHandlesOf(o) + Owing(th[t], o) - Owing(r, o)) + (Owed(o) - Owing(th[t], o) + Owing(r, o))
      BY <2>1, <2>2, <2>3, <2>4
    <2> QED BY <1>2, <2>5, <2>6 DEF Balanced, Plain
  <1>5. NameGoes(o)' /\ NameAgrees(o)' /\ live'[o] /\ ref'[o] # 0
    BY <1>1, <1>2 DEF NameGoes, NameAgrees, Plain, Obj
  <1>6. FreshAt(t)' /\ KeptBy(t)'
    BY DEF Plain, FreshAt
  <1>7. ThreadTouches(t, r, o)
    BY DEF Plain, ThreadTouches
  <1> QED BY <1>3, <1>4, <1>5, <1>6, <1>7, ThreadStep DEF Sound

\* The object is freed: nothing leads to it but this thread, which leaves it.
Frees(t, r, o) ==
    /\ th' = [th EXCEPT ![t] = r] /\ WellPlaced(r) /\ Obj(t) = o /\ r.obj = NoObject
    /\ live' = [live EXCEPT ![o] = FALSE] /\ onMap' = [onMap EXCEPT ![o] = FALSE]
    /\ ref' \in [Objects -> Nat] /\ \A p \in Objects \ {o} : ref'[p] = ref[p]
    /\ UNCHANGED <<hcount, name, mapped, table, names, opened>>
    /\ HandlesOf(o) = {} /\ mapped[o] = 0 /\ \A n \in Names : names[n] # o
    /\ \A u \in Threads : Obj(u) = o => u = t

\* Freeing is safe if so.
LEMMA FreeStep ==
    ASSUME OneThreadEach, GemInv, NEW t \in Threads, NEW r \in Records, NEW o \in Objects, Frees(t, r, o)
    PROVE  GemInv'
  <1>1. Types
    BY Facts
  <1>2. o # NoObject
    BY GemAssumption DEF GemAssumption
  <1>3. /\ th' \in [Threads -> Records]
        /\ \A u \in Threads : th'[u] = IF u = t THEN r ELSE th[u]
    <2>1. th' = [th EXCEPT ![t] = r] /\ WellPlaced(r)
      BY DEF Frees
    <2> QED BY <2>1, Moves
  <1>4. TypeOK'
    BY <1>1, <1>3 DEF GemInv, TypeOK, Records, Frees, Types
  <1>5. Sound(o)'
    <2>1. HandlesOf(o)' = {} /\ ~live'[o] /\ ~onMap'[o] /\ mapped'[o] = 0 /\ \A n \in Names : names'[n] # o
      BY <1>1 DEF HandlesOf, Types, Frees
    <2>2. ThreadsAt(PCs, o)' = {}
      BY <1>2, <1>3 DEF ThreadsAt, Frees, Obj
    <2> QED BY <2>1, <2>2 DEF Sound, Untouched
  <1>6. KeptBy(t)' /\ FreshAt(t)'
    BY <1>3 DEF KeptBy, Keeps, FreshAt, Creating, Frees, WellPlaced
  <1>7. ThreadTouches(t, r, o)
    BY <1>1 DEF Frees, ThreadTouches, Types
  <1> QED BY <1>4, <1>5, <1>6, <1>7, ThreadStep

\* A thread's place is a record of the type.
LEMMA RecordOf ==
    ASSUME GemInv, NEW t \in Threads, NEW l \in PCs, NEW o \in Objects \cup {NoObject},
           NEW a \in {"idle", "created", "opened", "release"}, Work(t, l, o, a)
    PROVE  \E r \in Records : r.pc = l /\ r.obj = o /\ r.after = a /\ th' = [th EXCEPT ![t] = r]
  <1>1. [pc |-> l, obj |-> o, after |-> a] \in Records
    BY DEF Records
  <1> QED BY <1>1 DEF Work

\* So is that of an idle thread.
LEMMA IdleRecord == Idle \in Records /\ Idle.pc = "idle" /\ Idle.obj = NoObject /\ WellPlaced(Idle)
  BY DEF Idle, Records, PCs, WellPlaced

\* With no counted handle and no name, only those who own references are left.
LEMMA Unreached ==
    ASSUME OneThreadEach, GemInv, NEW o \in Objects, live[o], hcount[o] = 0, name[o] = NoName,
           NEW U \in SUBSET Threads, \A u \in Threads \ U : Weight(th[u], o) = 0,
           \A u \in U : th[u].pc # "reference"
    PROVE  /\ HandlesOf(o) = {} /\ \A n \in Names : names[n] # o
           /\ \A u \in Threads : Obj(u) = o => u \in U /\ ~Keeps(u)
  <1>1. Types /\ Kept /\ Balanced(o) /\ NameAgrees(o) /\ hcount[o] \in Int
    BY Facts DEF GemInv, Sound, Types
  <1>2. \A u \in Threads : Obj(u) = o => (Keeps(u) => th[u].pc = "reference") /\ th[u].pc \notin {"unhandle", "count"}
    BY <1>1, NoCount
  <1>3. \A u \in Threads \ U : Obj(u) = o => th[u].pc \notin Work1 \cup {"nameref"}
    BY DEF Weight, OwnAt, Obj
  <1>4. \A u \in Threads : Obj(u) = o => th[u].pc # "reference"
    BY <1>3 DEF Work1
  <1>5. \A u \in Threads \ U : Obj(u) # o
    <2> SUFFICES ASSUME NEW u \in Threads \ U, Obj(u) = o PROVE FALSE
      OBVIOUS
    <2>1. th[u].pc \notin {"idle", "release"} /\ th[u].pc \in PCs
      BY Facts, GemAssumption DEF WellPlaced, GemAssumption, Obj, Records
    <2>2. th[u].pc \notin {"size", "flink", "named"}
      BY <1>2, <1>4 DEF Keeps
    <2> QED BY <1>2, <1>3, <2>1, <2>2 DEF PCs, Work1
  <1>6. ThreadsAt({"reference"}, o) = {}
    BY <1>4 DEF ThreadsAt
  <1>7. HandlesOf(o) = {}
    BY <1>1, <1>6, NoCount
  <1>8. \A n \in Names : names[n] # o
    BY <1>1, GemAssumption DEF NameAgrees, NoName, Names, GemAssumption
  <1> QED BY <1>2, <1>4, <1>5, <1>7, <1>8

\* Only the last reference frees, and then nothing else leads to the object.
LEMMA UnreferenceUnlockedInv ==
    ASSUME OneThreadEach, GemInv, NEW t \in Threads, UnreferenceUnlocked(t) PROVE GemInv'
  <1>1. th[t].pc = "unref" /\ Obj(t) \in Objects /\ th[t] \in Records
    BY Facts DEF UnreferenceUnlocked, At
  <1>2. PICK o \in Objects : Obj(t) = o
    BY <1>1
  <1>3. o # NoObject
    BY GemAssumption DEF GemAssumption
  <1>4. Types /\ live[o] /\ Balanced(o) /\ hcount[o] \in Nat /\ ref[o] \in Nat /\ ref[o] # 0
    BY <1>2, Facts, Reached
  <1>5. PICK r \in Records : /\ th' = [th EXCEPT ![t] = r] /\ WellPlaced(r) /\ r.pc \in {"size", "release", "idle"}
                             /\ r.pc = "size" => r.obj = o /\ th[t].after = "opened"
                             /\ r.pc # "size" => r.obj = NoObject
    <2>1. CASE Goto(t, "size") /\ th[t].after = "opened"
      <3>1. PICK r \in Records : r.pc = "size" /\ r.obj = Obj(t) /\ th' = [th EXCEPT ![t] = r]
        BY <2>1, GotoRecord DEF PCs
      <3> QED BY <1>2, <1>3, <2>1, <3>1 DEF WellPlaced
    <2>2. CASE Work(t, "release", NoObject, "idle")
      <3>1. PICK r \in Records : r.pc = "release" /\ r.obj = NoObject /\ th' = [th EXCEPT ![t] = r]
        BY <2>2, RecordOf DEF PCs
      <3> QED BY <3>1 DEF WellPlaced
    <2>3. CASE Return(t)
      BY <2>3, IdleRecord DEF Return
    <2> QED BY <2>1, <2>2, <2>3 DEF UnreferenceUnlocked
  <1>6. /\ ref' = [ref EXCEPT ![o] = ref[o] - 1]
        /\ hcount' = hcount /\ name' = name /\ mapped' = mapped /\ table' = table /\ names' = names /\ opened' = opened
    BY <1>2 DEF UnreferenceUnlocked, Unreference
  <1>7. Weight(th[t], o) = 1 /\ Weight(r, o) = 0 /\ Owing(th[t], o) = 0 /\ Owing(r, o) = 0
    BY <1>1, <1>2, <1>3, <1>5 DEF Weight, Owing, OwnAt, OweAt, Obj, Work1
  <1>8. CASE ref[o] # 1
    <2>1. live' = live /\ onMap' = onMap
      BY <1>2, <1>8 DEF UnreferenceUnlocked, Unreference
    <2>2. NumHandlesOf(o)' = NumHandlesOf(o) /\ NumHandlesOf(o) \in Nat /\ mapped[o] \in {0, 1}
      BY <1>4, <1>6, HandlesOfFinite DEF NumHandlesOf, HandlesOf, Types
    <2>3. /\ ref'[o] > 0 /\ ref'[o] = ref[o] + mapped'[o] - mapped[o] - Weight(th[t], o) + Weight(r, o)
          /\ NumHandlesOf(o)' = NumHandlesOf(o) + Owing(th[t], o) - Owing(r, o)
      <3>1. ref'[o] = ref[o] - 1 /\ mapped'[o] = mapped[o]
        BY <1>4, <1>6 DEF Types
      <3> QED BY <1>4, <1>7, <1>8, <2>2, <3>1
    <2>4. \A u \in Threads \ {t} : Creating(u) => Obj(u) # o
      BY <1>2, NobodyCreates
    <2>5. th'[t] = r
      BY <1>4, <1>5 DEF Types
    <2>6. KeptBy(t)' /\ ~Creating(t)'
      BY <1>1, <1>2, <1>5, <1>6, <2>5 DEF GemInv, Kept, KeptBy, Keeps, Creating, Obj
    <2>7. /\ ref' \in [Objects -> Int] /\ \A p \in Objects \ {o} : ref'[p] = ref[p]
          /\ mapped' \in [Objects -> {0, 1}] /\ table' \in [Files -> [Handles -> Objects \cup {NoObject}]]
      BY <1>4, <1>6 DEF Types
    <2>8. Plain(t, r, o)
      BY <1>1, <1>2, <1>5, <1>6, <2>1, <2>3, <2>4, <2>6, <2>7 DEF Plain
    <2> QED BY <1>4, <2>8, PlainStep
  <1>9. CASE ref[o] = 1
    <2>1. live' = [live EXCEPT ![o] = FALSE] /\ onMap' = [onMap EXCEPT ![o] = FALSE]
      BY <1>2, <1>9 DEF UnreferenceUnlocked, Unreference, Free
    <2>2. Own(o) >= 1 /\ (Own(o) = 1 => \A u \in Threads \ {t} : Weight(th[u], o) = 0)
      BY <1>4, <1>7, OwnAtLeast
    <2>3. hcount[o] = 0 /\ mapped[o] = 0 /\ name[o] = NoName /\ Own(o) = 1
      BY <1>4, <1>9, <2>2, Amounts DEF Balanced
    <2>4. HandlesOf(o) = {} /\ (\A n \in Names : names[n] # o) /\ \A u \in Threads : Obj(u) = o => u = t /\ ~Keeps(u)
      <3>1. PICK U \in SUBSET Threads : U = {t}
        OBVIOUS
      <3>2. (\A u \in U : th[u].pc # "reference") /\ \A u \in Threads \ U : Weight(th[u], o) = 0
        BY <1>1, <2>2, <2>3, <3>1
      <3>3. HandlesOf(o) = {} /\ (\A n \in Names : names[n] # o) /\ \A u \in Threads : Obj(u) = o => u \in U /\ ~Keeps(u)
        BY <1>4, <2>3, <3>2, Unreached
      <3> QED BY <3>1, <3>3
    <2>5. r.obj = NoObject
      BY <1>1, <1>2, <1>5, <2>4 DEF Keeps
    <2>6. ref' \in [Objects -> Nat] /\ \A p \in Objects \ {o} : ref'[p] = ref[p]
      BY <1>6, <1>9 DEF GemInv, TypeOK
    <2>7. Frees(t, r, o)
      BY <1>2, <1>5, <1>6, <2>1, <2>3, <2>4, <2>5, <2>6 DEF Frees
    <2> QED BY <2>7, FreeStep
  <1> QED BY <1>8, <1>9

\* drm_gem_open_ioctl's object is still there when it reads the size.
LEMMA ReadSizeInv ==
    ASSUME OneThreadEach, GemInv, NEW t \in Threads, ReadSize(t) PROVE GemInv'
  <1>1. /\ th[t].pc = "size" /\ Obj(t) \in Objects
        /\ UNCHANGED <<live, ref, hcount, name, onMap, mapped, table, names, opened>>
    BY Facts DEF ReadSize, At, objVars
  <1>2. PICK o \in Objects : Obj(t) = o
    BY <1>1
  <1>3. o # NoObject
    BY GemAssumption DEF GemAssumption
  <1>4. Types /\ live[o] /\ ref[o] \in Nat /\ ref[o] # 0
    BY <1>2, Facts, Reached
  <1>5. PICK r \in Records : th' = [th EXCEPT ![t] = r] /\ WellPlaced(r) /\ r.pc = "idle" /\ r.obj = NoObject
    BY IdleRecord DEF ReadSize, Return
  <1>6. Weight(th[t], o) = 0 /\ Weight(r, o) = 0 /\ Owing(th[t], o) = 0 /\ Owing(r, o) = 0
    BY <1>1, <1>2, <1>3, <1>5 DEF Weight, Owing, OwnAt, OweAt, Obj, Work1
  <1>7. NumHandlesOf(o)' = NumHandlesOf(o) /\ NumHandlesOf(o) \in Nat /\ mapped[o] \in Int
    <2>1. NumHandlesOf(o)' = NumHandlesOf(o)
      BY <1>1 DEF NumHandlesOf, HandlesOf
    <2> QED BY <1>4, <2>1, HandlesOfFinite DEF Types
  <1>8. /\ ref'[o] > 0 /\ ref'[o] = ref[o] + mapped'[o] - mapped[o] - Weight(th[t], o) + Weight(r, o)
        /\ NumHandlesOf(o)' = NumHandlesOf(o) + Owing(th[t], o) - Owing(r, o)
    BY <1>1, <1>4, <1>6, <1>7
  <1>9. \A u \in Threads \ {t} : Creating(u) => Obj(u) # o
    BY <1>2, NobodyCreates
  <1>10. th'[t] = r
    BY <1>4, <1>5 DEF Types
  <1>11. KeptBy(t)' /\ ~Creating(t)'
    BY <1>5, <1>10 DEF KeptBy, Keeps, Creating
  <1>12. Plain(t, r, o)
    BY <1>1, <1>2, <1>4, <1>5, <1>8, <1>9, <1>11 DEF Plain, Types
  <1> QED BY <1>4, <1>12, PlainStep

\* The handle is in the table, or its creator frees the object.
LEMMA HandleInsertInv ==
    ASSUME OneThreadEach, GemInv, NEW t \in Threads, HandleInsert(t) PROVE GemInv'
  <1>1. th[t].pc = "insert" /\ Obj(t) \in Objects /\ mapped' = mapped /\ names' = names /\ opened' = opened
    BY Facts DEF HandleInsert, At
  <1>2. PICK o \in Objects : Obj(t) = o
    BY <1>1
  <1>3. o # NoObject
    BY GemAssumption DEF GemAssumption
  <1>4. Types /\ live[o] /\ ref[o] \in Nat /\ ref[o] # 0
    BY <1>2, Facts, Reached
  <1>5. PICK f \in Files : f = FileOf[t]
    BY GemAssumption DEF GemAssumption
  <1>6. NumHandlesOf(o) \in Nat /\ mapped[o] \in Int
    BY <1>4, HandlesOfFinite DEF Types
  <1>7. \A u \in Threads \ {t} : Creating(u) => Obj(u) # o
    BY <1>2, NobodyCreates
  <1>8. CASE /\ FreeHandles(f) # {} /\ table' = [table EXCEPT ![f][Least(FreeHandles(f))] = o]
             /\ Goto(t, "reference") /\ UNCHANGED objVars
    <2>1. PICK h \in Handles : h = Least(FreeHandles(f)) /\ table[f][h] = NoObject
      BY <1>8, LeastIn DEF FreeHandles, Handles
    <2>2. PICK r \in Records : r.pc = "reference" /\ r.obj = o /\ th' = [th EXCEPT ![t] = r]
      BY <1>2, <1>8, GotoRecord DEF PCs
    <2>3. table' = [table EXCEPT ![f][h] = o]
      BY <1>8, <2>1
    <2>4. NumHandlesOf(o)' = NumHandlesOf(o) + 1
      BY <1>3, <1>4, <2>1, <2>3, GainsHandle
    <2>5. Weight(th[t], o) = 1 /\ Weight(r, o) = 1 /\ Owing(th[t], o) = 0 /\ Owing(r, o) = -1
      BY <1>1, <1>2, <2>2 DEF Weight, Owing, OwnAt, OweAt, Obj, Work1
    <2>6. /\ ref'[o] > 0 /\ ref'[o] = ref[o] + mapped'[o] - mapped[o] - Weight(th[t], o) + Weight(r, o)
          /\ NumHandlesOf(o)' = NumHandlesOf(o) + Owing(th[t], o) - Owing(r, o)
      BY <1>1, <1>4, <1>6, <1>8, <2>4, <2>5 DEF objVars
    <2>7. th'[t] = r
      BY <1>4, <2>2 DEF Types
    <2>8. /\ \A g \in Files, k \in Handles : table'[g][k] = IF g = f /\ k = h THEN o ELSE table[g][k]
          /\ \A g \in Files \ {f} : table'[g] = table[g]
          /\ table' \in [Files -> [Handles -> Objects \cup {NoObject}]]
      BY <1>4, <2>3 DEF Types
    <2>9. KeptBy(t)' /\ ~Creating(t)'
      BY <1>5, <2>2, <2>7, <2>8 DEF KeptBy, Creating, Obj
    <2>10. WellPlaced(r)
      BY <1>3, <2>2 DEF WellPlaced
    <2>11. Plain(t, r, o)
      BY <1>1, <1>2, <1>4, <1>5, <1>7, <1>8, <2>1, <2>2, <2>6, <2>8, <2>9, <2>10 DEF Plain, Types, objVars
    <2> QED BY <1>4, <2>11, PlainStep
  <1>9. CASE th[t].after = "created" /\ Free(o) /\ Return(t) /\ UNCHANGED <<table, ref, hcount, name>>
    <2>1. PICK r \in Records : th' = [th EXCEPT ![t] = r] /\ WellPlaced(r) /\ r.obj = NoObject
      BY <1>9, IdleRecord DEF Return
    <2>2. Creating(t)
      BY <1>1, <1>9 DEF Creating
    <2>3. /\ mapped[o] = 0 /\ (\A n \in Names : names[n] # o) /\ \A u \in Threads : Obj(u) = o => u = t
          /\ \A g \in Files, h \in Handles : table[g][h] # o
      BY <1>2, <2>2, NobodyCreates
    <2>4. HandlesOf(o) = {}
      BY <2>3 DEF HandlesOf
    <2>5. ref' \in [Objects -> Nat]
      BY <1>9 DEF GemInv, TypeOK
    <2>6. Frees(t, r, o)
      BY <1>1, <1>2, <1>9, <2>1, <2>3, <2>4, <2>5 DEF Frees, Free
    <2> QED BY <2>6, FreeStep
  <1>10. CASE th[t].after = "opened" /\ Work(t, "unref", o, "idle") /\ UNCHANGED <<table, objVars>>
    <2>1. PICK r \in Records : r.pc = "unref" /\ r.obj = o /\ r.after = "idle" /\ th' = [th EXCEPT ![t] = r]
      BY <1>2, <1>10, RecordOf DEF PCs
    <2>2. NumHandlesOf(o)' = NumHandlesOf(o)
      BY <1>10 DEF NumHandlesOf, HandlesOf
    <2>3. Weight(th[t], o) = 1 /\ Weight(r, o) = 1 /\ Owing(th[t], o) = 0 /\ Owing(r, o) = 0
      BY <1>1, <1>2, <2>1 DEF Weight, Owing, OwnAt, OweAt, Obj, Work1
    <2>4. /\ ref'[o] > 0 /\ ref'[o] = ref[o] + mapped'[o] - mapped[o] - Weight(th[t], o) + Weight(r, o)
          /\ NumHandlesOf(o)' = NumHandlesOf(o) + Owing(th[t], o) - Owing(r, o)
      BY <1>1, <1>4, <1>6, <1>10, <2>2, <2>3 DEF objVars
    <2>5. th'[t] = r
      BY <1>4, <2>1 DEF Types
    <2>6. KeptBy(t)' /\ ~Creating(t)' /\ WellPlaced(r)
      BY <1>3, <2>1, <2>5 DEF KeptBy, Keeps, Creating, WellPlaced
    <2>7. Plain(t, r, o)
      BY <1>1, <1>2, <1>4, <1>5, <1>7, <1>10, <2>1, <2>4, <2>6 DEF Plain, Types, objVars
    <2> QED BY <1>4, <2>7, PlainStep
  <1> QED BY <1>2, <1>5, <1>8, <1>9, <1>10 DEF HandleInsert

\* A handle leaves the table and is then still to be uncounted.
LEMMA TakesHandle ==
    ASSUME OneThreadEach, GemInv, NEW t \in Threads, Obj(t) = NoObject, NEW o \in Objects,
           NEW f \in Files, f = FileOf[t], NEW h \in Handles, table[f][h] = o,
           table' = [table EXCEPT ![f][h] = NoObject], NEW a \in {"idle", "release"}, Work(t, "unhandle", o, a),
           UNCHANGED <<objVars, mapped, names, opened>>
    PROVE  GemInv'
  <1>1. o # NoObject
    BY GemAssumption DEF GemAssumption
  <1>2. Types /\ live[o] /\ ref[o] \in Nat /\ ref[o] # 0 /\ WellPlaced(th[t])
    BY Facts, Reached
  <1>3. NumHandlesOf(o) \in Nat /\ mapped[o] \in Int
    BY <1>2, HandlesOfFinite DEF Types
  <1>4. PICK r \in Records : r.pc = "unhandle" /\ r.obj = o /\ r.after = a /\ th' = [th EXCEPT ![t] = r]
    BY RecordOf DEF PCs
  <1>5. NumHandlesOf(o)' = NumHandlesOf(o) - 1
    BY <1>1, <1>2, LosesHandle
  <1>6. Weight(th[t], o) = 0 /\ Weight(r, o) = 0 /\ Owing(th[t], o) = 0 /\ Owing(r, o) = 1
    BY <1>1, <1>4 DEF Weight, Owing, OwnAt, OweAt, Obj, Work1
  <1>7. /\ ref'[o] > 0 /\ ref'[o] = ref[o] + mapped'[o] - mapped[o] - Weight(th[t], o) + Weight(r, o)
        /\ NumHandlesOf(o)' = NumHandlesOf(o) + Owing(th[t], o) - Owing(r, o)
    BY <1>2, <1>3, <1>5, <1>6 DEF objVars
  <1>8. /\ \A g \in Files, k \in Handles : table'[g][k] = IF g = f /\ k = h THEN NoObject ELSE table[g][k]
        /\ \A g \in Files \ {f} : table'[g] = table[g]
        /\ table' \in [Files -> [Handles -> Objects \cup {NoObject}]]
    BY <1>2 DEF Types
  <1>9. th'[t] = r
    BY <1>2, <1>4 DEF Types
  <1>10. KeptBy(t)' /\ ~Creating(t)' /\ WellPlaced(r)
    BY <1>1, <1>4, <1>9 DEF KeptBy, Keeps, Creating, WellPlaced
  <1>11. \A u \in Threads \ {t} : Creating(u) => Obj(u) # o
    BY NobodyCreates
  <1>12. th[t].pc # "unname"
    BY <1>2 DEF WellPlaced, Obj
  <1>13. Plain(t, r, o)
    BY <1>2, <1>4, <1>7, <1>8, <1>10, <1>11, <1>12 DEF Plain, Types, objVars
  <1> QED BY <1>2, <1>13, PlainStep

\* drm_gem_close takes one handle.
LEMMA HandleDeleteInv ==
    ASSUME OneThreadEach, GemInv, NEW t \in Threads, HandleDelete(t) PROVE GemInv'
  <1>1. PICK f \in Files : f = FileOf[t]
    BY GemAssumption DEF GemAssumption
  <1>2. PICK h \in Handles : /\ table[f][h] # NoObject /\ table' = [table EXCEPT ![f][h] = NoObject]
                             /\ Work(t, "unhandle", table[f][h], "idle")
    BY <1>1 DEF HandleDelete
  <1>3. PICK o \in Objects : table[f][h] = o
    BY <1>2, Facts DEF Types
  <1>4. Obj(t) = NoObject
    BY Facts DEF HandleDelete, Begin, At, WellPlaced, Obj
  <1> QED BY <1>1, <1>2, <1>3, <1>4, TakesHandle DEF HandleDelete

\* drm_gem_release takes one handle at a time.
LEMMA GemReleaseInv ==
    ASSUME OneThreadEach, GemInv, NEW t \in Threads, GemRelease(t) PROVE GemInv'
  <1>1. /\ th[t].pc = "release" /\ Obj(t) = NoObject
        /\ UNCHANGED <<live, ref, hcount, name, onMap, mapped, names, opened>> /\ Types
    BY Facts DEF GemRelease, At, WellPlaced, Obj, objVars
  <1>2. PICK f \in Files : f = FileOf[t]
    BY GemAssumption DEF GemAssumption
  <1>3. CASE Handles \ FreeHandles(f) = {}
    <2>1. Return(t) /\ table' = table
      BY <1>2, <1>3 DEF GemRelease
    <2>2. PICK r \in Records : th' = [th EXCEPT ![t] = r] /\ WellPlaced(r) /\ r.pc = "idle" /\ r.obj = NoObject
      BY <2>1, IdleRecord DEF Return
    <2>3. th' \in [Threads -> Records] /\ th'[t] = r
      BY <1>1, <2>2 DEF Types, Records
    <2>4. TypeOK'
      BY <1>1, <2>1, <2>3 DEF GemInv, TypeOK, Records
    <2>5. KeptBy(t)' /\ FreshAt(t)'
      BY <2>2, <2>3 DEF KeptBy, Keeps, FreshAt, Creating
    <2>6. \A u \in Threads \ {t} : Creating(u) => Obj(u) # NoObject
      BY Facts, GemAssumption DEF Creating, GemAssumption
    <2>7. ThreadTouches(t, r, NoObject) /\ NoObject \notin Objects
      BY <1>1, <2>1, <2>2, <2>6, GemAssumption DEF ThreadTouches, GemAssumption
    <2> QED BY <2>4, <2>5, <2>7, ThreadStep
  <1>4. CASE Handles \ FreeHandles(f) # {}
    <2>1. PICK h \in Handles : h = Least(Handles \ FreeHandles(f)) /\ table[f][h] # NoObject
      BY <1>4, LeastIn DEF FreeHandles, Handles
    <2>2. table' = [table EXCEPT ![f][h] = NoObject] /\ Work(t, "unhandle", table[f][h], "release")
      BY <1>2, <1>4, <2>1 DEF GemRelease
    <2>3. PICK o \in Objects : table[f][h] = o
      BY <1>1, <2>1 DEF Types
    <2>4. UNCHANGED <<objVars, mapped, names, opened>>
      BY <1>1 DEF objVars
    <2> QED BY <1>1, <1>2, <2>2, <2>3, <2>4, TakesHandle
  <1> QED BY <1>3, <1>4

\* A file closes when no thread is in an ioctl of it.
LEMMA ReleaseInv ==
    ASSUME OneThreadEach, GemInv, NEW t \in Threads, Release(t) PROVE GemInv'
  <1>1. /\ th[t].pc = "idle" /\ Obj(t) = NoObject /\ opened' = [opened EXCEPT ![FileOf[t]] = FALSE]
        /\ UNCHANGED <<live, ref, hcount, name, onMap, mapped, table, names>> /\ Types
    BY Facts DEF Release, Begin, At, WellPlaced, Obj, objVars
  <1>2. PICK r \in Records : th' = [th EXCEPT ![t] = r] /\ r.pc = "release" /\ r.obj = NoObject
    BY RecordOf DEF Release, PCs
  <1>3. th' \in [Threads -> Records] /\ th'[t] = r /\ WellPlaced(r)
    BY <1>1, <1>2 DEF Types, Records, WellPlaced
  <1>4. TypeOK'
    BY <1>1, <1>3 DEF GemInv, TypeOK, Records
  <1>5. KeptBy(t)' /\ FreshAt(t)'
    BY <1>2, <1>3 DEF KeptBy, Keeps, FreshAt, Creating
  <1>6. \A u \in Threads \ {t} : Creating(u) => Obj(u) # NoObject
    BY Facts, GemAssumption DEF Creating, GemAssumption
  <1>7. ThreadTouches(t, r, NoObject) /\ NoObject \notin Objects
    BY <1>1, <1>2, <1>3, <1>6, GemAssumption DEF ThreadTouches, GemAssumption
  <1> QED BY <1>4, <1>5, <1>7, ThreadStep

\* An idle thread takes a reference of an object it has found.
LEMMA TakesReference ==
    ASSUME OneThreadEach, GemInv, NEW t \in Threads, Begin(t), NEW o \in Objects, live[o],
           ref' = [ref EXCEPT ![o] = @ + 1], NEW l \in {"flink", "unref", "insert", "pager"}, NEW a \in {"idle", "opened"},
           Work(t, l, o, a), l = "insert" <=> a = "opened",
           l = "flink" => \E h \in Handles : table[FileOf[t]][h] = o,
           \A u \in Threads : Creating(u) => Obj(u) # o,
           UNCHANGED <<live, hcount, name, onMap, mapped, table, names, opened>>
    PROVE  GemInv'
  <1>1. Types /\ th[t].pc = "idle" /\ Obj(t) = NoObject /\ ref[o] \in Nat
    BY Facts DEF Begin, At, WellPlaced, Obj, GemInv, TypeOK
  <1>2. o # NoObject
    BY GemAssumption DEF GemAssumption
  <1>3. PICK r \in Records : r.pc = l /\ r.obj = o /\ r.after = a /\ th' = [th EXCEPT ![t] = r]
    BY RecordOf DEF PCs
  <1>4. Weight(th[t], o) = 0 /\ Weight(r, o) = 1 /\ Owing(th[t], o) = 0 /\ Owing(r, o) = 0
    BY <1>1, <1>2, <1>3 DEF Weight, Owing, OwnAt, OweAt, Obj, Work1
  <1>5. NumHandlesOf(o)' = NumHandlesOf(o) /\ NumHandlesOf(o) \in Nat /\ mapped[o] \in Int
    <2>1. NumHandlesOf(o)' = NumHandlesOf(o)
      BY DEF NumHandlesOf, HandlesOf
    <2> QED BY <1>1, <2>1, HandlesOfFinite DEF Types
  <1>6. ref'[o] = ref[o] + 1
    BY <1>1 DEF Types
  <1>7. /\ ref'[o] > 0 /\ ref'[o] = ref[o] + mapped'[o] - mapped[o] - Weight(th[t], o) + Weight(r, o)
        /\ NumHandlesOf(o)' = NumHandlesOf(o) + Owing(th[t], o) - Owing(r, o)
    BY <1>1, <1>4, <1>5, <1>6
  <1>8. th'[t] = r /\ WellPlaced(r)
    BY <1>1, <1>2, <1>3 DEF Types, WellPlaced
  <1>9. KeptBy(t)' /\ ~Creating(t)'
    BY <1>3, <1>8 DEF KeptBy, Keeps, Creating, Obj
  <1>10. ref' \in [Objects -> Int] /\ \A p \in Objects \ {o} : ref'[p] = ref[p]
    BY <1>1 DEF Types
  <1>11. Plain(t, r, o)
    BY <1>1, <1>3, <1>7, <1>8, <1>9, <1>10 DEF Plain, Types
  <1> QED BY <1>11, PlainStep

\* A lookup takes a reference under table_lock.
LEMMA LookupInv ==
    ASSUME OneThreadEach, GemInv, NEW t \in Threads, Lookup(t) PROVE GemInv'
  <1>1. PICK h \in Handles, l \in {"flink", "unref"} :
          /\ table[FileOf[t]][h] # NoObject /\ Reference(table[FileOf[t]][h])
          /\ Work(t, l, table[FileOf[t]][h], "idle")
    BY DEF Lookup
  <1>2. FileOf[t] \in Files
    BY GemAssumption DEF GemAssumption
  <1>3. PICK o \in Objects : table[FileOf[t]][h] = o
    BY <1>1, <1>2, Facts DEF Types
  <1>4. live[o] /\ \A u \in Threads : Creating(u) => Obj(u) # o
    BY <1>2, <1>3, Reached, NobodyCreates
  <1>5. /\ Begin(t) /\ UNCHANGED <<live, hcount, name, onMap, mapped, table, names, opened>>
        /\ ref' = [ref EXCEPT ![o] = @ + 1] /\ Work(t, l, o, "idle")
    BY <1>1, <1>3 DEF Lookup, Reference
  <1> QED BY <1>3, <1>4, <1>5, TakesReference

\* An open takes one under object_name_lock.
LEMMA OpenInv ==
    ASSUME OneThreadEach, GemInv, NEW t \in Threads, Open(t) PROVE GemInv'
  <1>1. PICK n \in Names : names[n] # NoObject /\ Reference(names[n]) /\ Work(t, "insert", names[n], "opened")
    BY DEF Open
  <1>2. PICK o \in Objects : names[n] = o
    BY <1>1, Facts DEF Types
  <1>3. live[o] /\ \A u \in Threads : Creating(u) => Obj(u) # o
    BY <1>2, Reached, NobodyCreates
  <1>4. /\ Begin(t) /\ UNCHANGED <<live, hcount, name, onMap, mapped, table, names, opened>>
        /\ ref' = [ref EXCEPT ![o] = @ + 1] /\ Work(t, "insert", o, "opened")
    BY <1>1, <1>2 DEF Open, Reference
  <1> QED BY <1>3, <1>4, TakesReference

\* A mapping takes one under struct_mutex.
LEMMA MmapSingleInv ==
    ASSUME OneThreadEach, GemInv, NEW t \in Threads, MmapSingle(t) PROVE GemInv'
  <1>1. PICK o \in Objects : onMap[o] /\ Reference(o) /\ Work(t, "pager", o, "idle")
    BY DEF MmapSingle
  <1>2. live[o] /\ \A u \in Threads : Creating(u) => Obj(u) # o
    BY <1>1, Reached, NobodyCreates
  <1>3. /\ Begin(t) /\ UNCHANGED <<live, hcount, name, onMap, mapped, table, names, opened>>
        /\ ref' = [ref EXCEPT ![o] = @ + 1] /\ Work(t, "pager", o, "idle")
    BY <1>1 DEF MmapSingle, Reference
  <1> QED BY <1>2, <1>3, TakesReference

\* The reference goes over to the mapping, or is dropped.
LEMMA PagerAllocateInv ==
    ASSUME OneThreadEach, GemInv, NEW t \in Threads, PagerAllocate(t) PROVE GemInv'
  <1>1. /\ th[t].pc = "pager" /\ Obj(t) \in Objects
        /\ UNCHANGED <<live, ref, hcount, name, onMap, table, names, opened>>
    BY Facts DEF PagerAllocate, At, objVars
  <1>2. PICK o \in Objects : Obj(t) = o
    BY <1>1
  <1>3. o # NoObject
    BY GemAssumption DEF GemAssumption
  <1>4. Types /\ live[o] /\ Balanced(o) /\ NameAgrees(o) /\ NameGoes(o) /\ hcount[o] \in Nat /\ ref[o] \in Nat /\ ref[o] # 0
    BY <1>2, Facts, Reached
  <1>5. CASE mapped[o] = 0 /\ mapped' = [mapped EXCEPT ![o] = 1] /\ Return(t)
    <2>1. PICK r \in Records : th' = [th EXCEPT ![t] = r] /\ WellPlaced(r) /\ r.pc = "idle" /\ r.obj = NoObject
      BY <1>5, IdleRecord DEF Return
    <2>2. Weight(th[t], o) = 1 /\ Weight(r, o) = 0 /\ Owing(th[t], o) = 0 /\ Owing(r, o) = 0
      BY <1>1, <1>2, <1>3, <2>1 DEF Weight, Owing, OwnAt, OweAt, Obj, Work1
    <2>3. NumHandlesOf(o)' = NumHandlesOf(o) /\ NumHandlesOf(o) \in Nat
      BY <1>1, HandlesOfFinite DEF NumHandlesOf, HandlesOf
    <2>4. mapped'[o] = 1 /\ mapped' \in [Objects -> {0, 1}] /\ \A p \in Objects \ {o} : mapped'[p] = mapped[p]
      BY <1>4, <1>5 DEF Types
    <2>5. /\ ref'[o] > 0 /\ ref'[o] = ref[o] + mapped'[o] - mapped[o] - Weight(th[t], o) + Weight(r, o)
          /\ NumHandlesOf(o)' = NumHandlesOf(o) + Owing(th[t], o) - Owing(r, o)
      BY <1>1, <1>4, <1>5, <2>2, <2>3, <2>4
    <2>6. \A u \in Threads \ {t} : Creating(u) => Obj(u) # o
      BY <1>2, NobodyCreates
    <2>7. th'[t] = r
      BY <1>4, <2>1 DEF Types
    <2>8. KeptBy(t)' /\ ~Creating(t)'
      BY <2>1, <2>7 DEF KeptBy, Keeps, Creating
    <2>9. Plain(t, r, o)
      BY <1>1, <1>2, <1>4, <2>1, <2>4, <2>5, <2>6, <2>8 DEF Plain, Types
    <2> QED BY <1>4, <2>9, PlainStep
  <1>6. CASE Goto(t, "unref") /\ mapped' = mapped
    <2>1. OwnAt("pager") = 1 /\ OwnAt("unref") = 1 /\ OweAt("pager") = 0 /\ OweAt("unref") = 0
      BY DEF OwnAt, OweAt, Work1
    <2>2. PICK r \in Records : r.pc = "unref" /\ r.obj = o /\ r.after = th[t].after /\ th' = [th EXCEPT ![t] = r]
      BY <1>2, <1>6, GotoRecord DEF PCs
    <2>3. Weight(th[t], o) = 1 /\ Weight(r, o) = 1 /\ Owing(th[t], o) = 0 /\ Owing(r, o) = 0
      BY <1>1, <1>2, <2>2 DEF Weight, Owing, OwnAt, OweAt, Obj, Work1
    <2>4. NumHandlesOf(o)' = NumHandlesOf(o) /\ NumHandlesOf(o) \in Nat
      BY <1>1, HandlesOfFinite DEF NumHandlesOf, HandlesOf
    <2>5. mapped[o] \in {0, 1}
      BY <1>4 DEF Types
    <2>6. /\ ref'[o] > 0 /\ ref'[o] = ref[o] + mapped'[o] - mapped[o] - Weight(th[t], o) + Weight(r, o)
          /\ NumHandlesOf(o)' = NumHandlesOf(o) + Owing(th[t], o) - Owing(r, o)
      BY <1>1, <1>4, <1>6, <2>3, <2>4, <2>5
    <2>7. \A u \in Threads \ {t} : Creating(u) => Obj(u) # o
      BY <1>2, NobodyCreates
    <2>8. th'[t] = r /\ WellPlaced(r)
      BY <1>3, <1>4, <2>2 DEF Types, WellPlaced
    <2>9. KeptBy(t)' /\ ~Creating(t)'
      <3>1. th[t].after # "opened"
        BY <1>1, Facts DEF WellPlaced
      <3> QED BY <2>2, <2>8, <3>1 DEF KeptBy, Keeps, Creating
    <2>10. Plain(t, r, o)
      BY <1>1, <1>2, <1>4, <1>6, <2>2, <2>6, <2>7, <2>8, <2>9 DEF Plain, Types
    <2> QED BY <1>4, <2>10, PlainStep
  <1> QED BY <1>2, <1>5, <1>6 DEF PagerAllocate

\* A new object has its creator's reference and nothing else leads to it.
LEMMA CreateInv ==
    ASSUME OneThreadEach, GemInv, NEW t \in Threads, Create(t) PROVE GemInv'
  <1>1. PICK o \in Objects :
          /\ ~live[o]
          /\ live' = [live EXCEPT ![o] = TRUE]
          /\ ref' = [ref EXCEPT ![o] = 1] /\ hcount' = [hcount EXCEPT ![o] = 0]
          /\ name' = [name EXCEPT ![o] = NoName] /\ onMap' = [onMap EXCEPT ![o] = FALSE]
          /\ Work(t, "insert", o, "created")
    BY DEF Create
  <1>2. /\ Types /\ th[t].pc = "idle" /\ Obj(t) = NoObject
        /\ mapped' = mapped /\ table' = table /\ names' = names /\ opened' = opened
    BY Facts DEF Create, Begin, At, WellPlaced, Obj
  <1>3. o # NoObject
    BY GemAssumption DEF GemAssumption
  <1>4. PICK r \in Records : r.pc = "insert" /\ r.obj = o /\ r.after = "created" /\ th' = [th EXCEPT ![t] = r]
    BY <1>1, RecordOf DEF PCs
  <1>5. WellPlaced(r) /\ Untouched(o)
    BY <1>1, <1>3, <1>4 DEF WellPlaced, GemInv, Sound
  <1>6. /\ th' \in [Threads -> Records]
        /\ \A u \in Threads : th'[u] = IF u = t THEN r ELSE th[u]
        /\ Own(o)' = Own(o) - Weight(th[t], o) + Weight(r, o)
        /\ Owed(o)' = Owed(o) - Owing(th[t], o) + Owing(r, o)
    <2>1. th' = [th EXCEPT ![t] = r]
      BY <1>4
    <2> HIDE <1>4
    <2> QED BY <1>5, <2>1, Moves
  <1>7. \A u \in Threads : Obj(u) # o
    BY <1>2, <1>5 DEF Untouched, ThreadsAt, Types
  <1>8. /\ live'[o] /\ ref'[o] = 1 /\ hcount'[o] = 0 /\ name'[o] = NoName /\ ~onMap'[o] /\ mapped'[o] = 0
        /\ TypeOK'
    BY <1>1, <1>2, <1>5, <1>6 DEF GemInv, TypeOK, Types, Records, Untouched
  <1>9. Sound(o)'
    <2>1. \A S : Num(S, o) = 0
      <3>1. \A S : ThreadsAt(S, o) = {}
        BY <1>7 DEF ThreadsAt
      <3> QED BY <3>1, FS_EmptySet DEF Num
    <2>2. Own(o) = 0 /\ Owed(o) = 0
      BY <2>1 DEF Own, Owed
    <2>3. Weight(th[t], o) = 0 /\ Weight(r, o) = 1 /\ Owing(th[t], o) = 0 /\ Owing(r, o) = 0
      BY <1>2, <1>3, <1>4 DEF Weight, Owing, OwnAt, OweAt, Obj, Work1
    <2>4. Own(o)' = 1 /\ Owed(o)' = 0
      BY <1>6, <2>2, <2>3
    <2>5. HandlesOf(o)' = {}
      BY <1>2, <1>5 DEF Untouched, HandlesOf
    <2>6. NumHandlesOf(o)' = 0
      BY <2>5, FS_EmptySet DEF NumHandlesOf
    <2>7. One(name'[o] # NoName) = 0
      BY <1>8 DEF One
    <2>8. Balanced(o)'
      BY <1>8, <2>4, <2>6, <2>7 DEF Balanced
    <2>9. NameGoes(o)' /\ NameAgrees(o)'
      BY <1>2, <1>5, <1>8, GemAssumption DEF NameGoes, NameAgrees, Untouched, Names, NoName, GemAssumption
    <2> QED BY <1>8, <2>8, <2>9 DEF Sound
  <1>10. KeptBy(t)' /\ FreshAt(t)'
    <2>1. Obj(t)' = o /\ ~Keeps(t)'
      BY <1>4, <1>6 DEF Obj, Keeps
    <2>2. \A u \in Threads : Obj(u)' = o => u = t
      BY <1>6, <1>7 DEF Obj
    <2>3. \A f \in Files, h \in Handles : table'[f][h] # o
      <3>1. \A f \in Files, h \in Handles : table[f][h] = o => <<f, h>> \in HandlesOf(o)
        BY DEF HandlesOf
      <3> QED BY <1>2, <1>5, <3>1 DEF Untouched
    <2> QED BY <1>8, <2>1, <2>2, <2>3 DEF KeptBy, FreshAt
  <1>11. ThreadTouches(t, r, o)
    BY <1>1, <1>2, <1>4, <1>5, <1>7 DEF ThreadTouches, Types
  <1> QED BY <1>8, <1>9, <1>10, <1>11, ThreadStep

---------------------------------------------------------------------------
(* Steps of no thread                                                      *)

\* A step that moves no thread.
LEMMA ObjectStep ==
    ASSUME GemInv, NEW o \in Objects, Touches(o), UNCHANGED <<th, table>>,
           \A u \in Threads : Creating(u) => Obj(u) # o, TypeOK', Sound(o)'
    PROVE  GemInv'
  <1>1. \A p \in Objects : Sound(p)'
    BY OthersSound
  <1>2. \A u \in Threads : KeptBy(u)' /\ FreshAt(u)'
    BY OthersKept
  <1>3. Places'
    BY DEF GemInv, Places
  <1> QED BY <1>1, <1>2, <1>3 DEF GemInv, Kept, Fresh

\* An offset is made for an object that a handle reaches.
LEMMA MmapGttInv ==
    ASSUME GemInv, NEW t \in Threads, MmapGtt(t) PROVE GemInv'
  <1>1. PICK h \in Handles : table[FileOf[t]][h] # NoObject /\ onMap' = [onMap EXCEPT ![table[FileOf[t]][h]] = TRUE]
    BY DEF MmapGtt
  <1>2. FileOf[t] \in Files
    BY GemAssumption DEF GemAssumption
  <1>3. PICK o \in Objects : table[FileOf[t]][h] = o
    BY <1>1, <1>2, Facts DEF Types
  <1>4. /\ live' = live /\ ref' = ref /\ hcount' = hcount /\ name' = name /\ mapped' = mapped /\ table' = table
        /\ names' = names /\ opened' = opened /\ th' = th /\ onMap' = [onMap EXCEPT ![o] = TRUE]
    BY <1>1, <1>3 DEF MmapGtt
  <1>5. /\ Types /\ live[o] /\ ref[o] # 0 /\ Balanced(o) /\ NameGoes(o) /\ NameAgrees(o)
        /\ \A u \in Threads : Creating(u) => Obj(u) # o
    BY <1>2, <1>3, Facts, Reached, NobodyCreates
  <1>6. TypeOK' /\ Touches(o)
    BY <1>4, <1>5 DEF GemInv, TypeOK, Touches, Types
  <1>7. Sound(o)'
    <2>1. Own(o)' = Own(o) /\ Owed(o)' = Owed(o) /\ NumHandlesOf(o)' = NumHandlesOf(o)
      BY <1>4 DEF Own, Owed, Num, ThreadsAt, NumHandlesOf, HandlesOf, Obj
    <2> QED BY <1>4, <1>5, <2>1 DEF Sound, Balanced, NameGoes, NameAgrees, Obj
  <1> QED BY <1>4, <1>5, <1>6, <1>7, ObjectStep

\* The last mapping of an object that nobody else reaches frees it.
LEMMA PagerDtorInv ==
    ASSUME OneThreadEach, GemInv, NEW o \in Objects, PagerDtor(o) PROVE GemInv'
  <1>1. /\ mapped[o] = 1 /\ mapped' = [mapped EXCEPT ![o] = 0] /\ ref' = [ref EXCEPT ![o] = @ - 1]
        /\ hcount' = hcount /\ name' = name /\ table' = table /\ names' = names /\ opened' = opened /\ th' = th
    BY DEF PagerDtor, Unreference
  <1>2. /\ Types /\ live[o] /\ ref[o] \in Nat /\ ref[o] # 0 /\ hcount[o] \in Nat
        /\ Balanced(o) /\ NameGoes(o) /\ NameAgrees(o) /\ \A u \in Threads : Creating(u) => Obj(u) # o
    BY <1>1, Facts, Reached, NobodyCreates
  <1>3. Own(o)' = Own(o) /\ Owed(o)' = Owed(o) /\ NumHandlesOf(o)' = NumHandlesOf(o)
    BY <1>1 DEF Own, Owed, Num, ThreadsAt, NumHandlesOf, HandlesOf, Obj
  <1>4. mapped'[o] = 0 /\ ref'[o] = ref[o] - 1 /\ ref'[o] \in Nat
    <2>1. mapped'[o] = 0 /\ ref'[o] = ref[o] - 1
      BY <1>1, <1>2 DEF Types
    <2> QED BY <1>2, <2>1
  <1>5. CASE ref[o] # 1
    <2>1. live' = live /\ onMap' = onMap
      BY <1>5 DEF PagerDtor, Unreference
    <2>2. TypeOK' /\ Touches(o)
      BY <1>1, <1>2, <1>4, <2>1 DEF GemInv, TypeOK, Touches, Types
    <2>3. Balanced(o)'
      <3>1. ref[o] = hcount[o] + mapped[o] + One(name[o] # NoName) + Own(o) /\ hcount[o] = NumHandlesOf(o) + Owed(o)
        BY <1>2 DEF Balanced
      <3>2. ref[o] - 1 = hcount[o] + 0 + One(name[o] # NoName) + Own(o)
        BY <1>1, <1>2, <3>1, Amounts
      <3> QED BY <1>1, <1>3, <1>4, <3>1, <3>2 DEF Balanced
    <2>4. Sound(o)'
      BY <1>1, <1>2, <1>4, <1>5, <2>1, <2>3 DEF Sound, NameGoes, NameAgrees, Obj
    <2> QED BY <1>1, <1>2, <2>2, <2>4, ObjectStep
  <1>6. CASE ref[o] = 1
    <2>1. live' = [live EXCEPT ![o] = FALSE] /\ onMap' = [onMap EXCEPT ![o] = FALSE]
      BY <1>6 DEF PagerDtor, Unreference, Free
    <2>2. TypeOK' /\ Touches(o) /\ ~live'[o] /\ ~onMap'[o]
      BY <1>1, <1>2, <1>4, <2>1 DEF GemInv, TypeOK, Touches, Types
    <2>3. hcount[o] = 0 /\ name[o] = NoName /\ Own(o) = 0
      BY <1>1, <1>2, <1>6, Amounts DEF Balanced
    <2>4. \A u \in Threads : Weight(th[u], o) = 0
      <3> SUFFICES ASSUME NEW u \in Threads PROVE Weight(th[u], o) = 0
        OBVIOUS
      <3>1. Own(o) >= Weight(th[u], o)
        BY <1>2, OwnAtLeast
      <3>2. Weight(th[u], o) \in Nat
        BY DEF Weight, OwnAt
      <3> QED BY <2>3, <3>1, <3>2
    <2>5. HandlesOf(o) = {} /\ (\A n \in Names : names[n] # o) /\ \A u \in Threads : Obj(u) # o
      <3>1. PICK U \in SUBSET Threads : U = {}
        OBVIOUS
      <3>2. HandlesOf(o) = {} /\ (\A n \in Names : names[n] # o) /\ \A u \in Threads : Obj(u) = o => u \in U /\ ~Keeps(u)
        BY <1>2, <2>3, <2>4, <3>1, Unreached
      <3> QED BY <3>1, <3>2
    <2>6. Sound(o)'
      BY <1>1, <1>4, <2>2, <2>5 DEF Sound, Untouched, HandlesOf, ThreadsAt, Obj
    <2> QED BY <1>1, <1>2, <2>2, <2>6, ObjectStep
  <1> QED BY <1>5, <1>6

\* A file is opened again.
LEMMA GemOpenInv ==
    ASSUME GemInv, NEW f \in Files, GemOpen(f) PROVE GemInv'
  <1>1. /\ opened' = [opened EXCEPT ![f] = TRUE]
        /\ live' = live /\ ref' = ref /\ hcount' = hcount /\ name' = name /\ onMap' = onMap /\ mapped' = mapped
        /\ table' = table /\ names' = names /\ th' = th
    BY DEF GemOpen, objVars
  <1>2. TypeOK'
    BY <1>1 DEF GemInv, TypeOK
  <1>3. Places' /\ Kept' /\ Fresh'
    BY <1>1 DEF GemInv, Places, Kept, KeptBy, Keeps, Fresh, FreshAt, Creating, Obj
  <1>4. \A o \in Objects : Sound(o)' <=> Sound(o)
    BY <1>1 DEF Sound, Balanced, NameGoes, NameAgrees, Untouched, Own, Owed, Num, ThreadsAt, NumHandlesOf, HandlesOf, Obj
  <1> QED BY <1>2, <1>3, <1>4 DEF GemInv

---------------------------------------------------------------------------
(* The theorems                                                            *)

\* No object is there at first.
LEMMA GemInit == Init => GemInv
  <1> SUFFICES ASSUME Init PROVE GemInv
    OBVIOUS
  <1>1. TypeOK
    BY GemAssumption DEF Init, TypeOK, Idle, PCs, NoName, Names, GemAssumption
  <1>2. \A t \in Threads : th[t] = Idle
    BY DEF Init
  <1>3. Places /\ Kept /\ Fresh
    BY <1>2, IdleRecord DEF Places, Kept, KeptBy, Keeps, Fresh, FreshAt, Creating
  <1>4. ASSUME NEW o \in Objects PROVE Sound(o)
    <2>1. ~live[o] /\ ~onMap[o] /\ mapped[o] = 0
      BY DEF Init
    <2>2. HandlesOf(o) = {} /\ ThreadsAt(PCs, o) = {} /\ \A n \in Names : names[n] # o
      BY <1>2, IdleRecord, GemAssumption DEF Init, HandlesOf, ThreadsAt, Obj, GemAssumption
    <2> QED BY <2>1, <2>2 DEF Sound, Untouched
  <1> QED BY <1>1, <1>3, <1>4 DEF GemInv

\* Every step keeps the invariant.
LEMMA GemNext ==
    ASSUME OneThreadEach, GemInv, [Next]_vars PROVE GemInv'
  <1>1. ASSUME NEW t \in Threads, Create(t) PROVE GemInv'
    BY <1>1, CreateInv
  <1>2. ASSUME NEW t \in Threads, HandleDelete(t) PROVE GemInv'
    BY <1>2, HandleDeleteInv
  <1>3. ASSUME NEW t \in Threads, Lookup(t) PROVE GemInv'
    BY <1>3, LookupInv
  <1>4. ASSUME NEW t \in Threads, Open(t) PROVE GemInv'
    BY <1>4, OpenInv
  <1>5. ASSUME NEW t \in Threads, MmapGtt(t) PROVE GemInv'
    BY <1>5, MmapGttInv
  <1>6. ASSUME NEW t \in Threads, MmapSingle(t) PROVE GemInv'
    BY <1>6, MmapSingleInv
  <1>7. ASSUME NEW t \in Threads, Release(t) PROVE GemInv'
    BY <1>7, ReleaseInv
  <1>8. ASSUME NEW t \in Threads, Finish(t) PROVE GemInv'
    <2>1. CASE HandleInsert(t) \/ HandleReference(t) \/ UnreferenceUnlocked(t) \/ ReadSize(t)
      BY <2>1, HandleInsertInv, HandleReferenceInv, UnreferenceUnlockedInv, ReadSizeInv
    <2>2. CASE HandleUnreference(t) \/ HandleCount(t) \/ HandleFree(t) \/ NameUnreference(t)
      BY <2>2, HandleUnreferenceInv, HandleCountInv, HandleFreeInv, NameUnreferenceInv
    <2>3. CASE Flink(t) \/ FlinkReference(t) \/ PagerAllocate(t) \/ GemRelease(t)
      BY <2>3, FlinkInv, FlinkReferenceInv, PagerAllocateInv, GemReleaseInv
    <2> QED BY <1>8, <2>1, <2>2, <2>3 DEF Finish
  <1>9. ASSUME NEW o \in Objects, PagerDtor(o) PROVE GemInv'
    BY <1>9, PagerDtorInv
  <1>10. ASSUME NEW f \in Files, GemOpen(f) PROVE GemInv'
    BY <1>10, GemOpenInv
  <1>11. CASE UNCHANGED vars
    <2>1. /\ live' = live /\ ref' = ref /\ hcount' = hcount /\ name' = name /\ onMap' = onMap /\ mapped' = mapped
          /\ table' = table /\ names' = names /\ th' = th /\ opened' = opened
      BY <1>11 DEF vars, objVars
    <2>2. TypeOK'
      BY <2>1 DEF GemInv, TypeOK
    <2>3. Places' /\ Kept' /\ Fresh'
      BY <2>1 DEF GemInv, Places, Kept, KeptBy, Keeps, Fresh, FreshAt, Creating, Obj
    <2>4. \A o \in Objects : Sound(o)' <=> Sound(o)
      BY <2>1 DEF Sound, Balanced, NameGoes, NameAgrees, Untouched, Own, Owed, Num, ThreadsAt, NumHandlesOf, HandlesOf, Obj
    <2> QED BY <2>2, <2>3, <2>4 DEF GemInv
  <1> QED BY <1>1, <1>2, <1>3, <1>4, <1>5, <1>6, <1>7, <1>8, <1>9, <1>10, <1>11 DEF Next

\* An object with a reference is reached by a handle, a mapping or a thread: its
\* name alone does not keep it.
LEMMA SoundReached ==
    ASSUME GemInv, NEW o \in Objects, live[o]
    PROVE  HandlesOf(o) # {} \/ mapped[o] # 0 \/ ThreadsAt(PCs, o) # {}
  <1>1. Types /\ ref[o] \in Nat /\ ref[o] # 0 /\ hcount[o] \in Nat /\ Balanced(o) /\ NameGoes(o)
    BY Facts DEF GemInv, Sound, TypeOK
  <1> SUFFICES ASSUME HandlesOf(o) = {}, mapped[o] = 0, ThreadsAt(PCs, o) = {} PROVE FALSE
    OBVIOUS
  <1>2. \A S : Num(S, o) = 0
    <2>1. \A S : ThreadsAt(S, o) = {}
      BY <1>1 DEF ThreadsAt, Types
    <2> QED BY <2>1, FS_EmptySet DEF Num
  <1>3. Own(o) = 0 /\ Owed(o) = 0 /\ NumHandlesOf(o) = 0
    BY <1>2, FS_EmptySet DEF Own, Owed, NumHandlesOf
  <1>4. hcount[o] = 0 /\ name[o] # NoName
    BY <1>1, <1>3, Amounts DEF Balanced
  <1>5. \E t \in Threads : th[t].pc = "unname" /\ Obj(t) = o
    BY <1>1, <1>4 DEF NameGoes
  <1> QED BY <1>5 DEF ThreadsAt, PCs

\* The invariant implies what the runs check.
LEMMA GemInvImplies == ASSUME GemInv PROVE TypeOK /\ GemSafe /\ GemNames
  <1>1. Types /\ Accounts
    BY Facts DEF GemInv, Sound, Accounts
  <1>2. RefsCounted /\ HandlesCounted
    BY <1>1, CountsBalanced
  <1>3. NoDangling
    BY DEF GemInv, Sound, Untouched, NoDangling
  <1>4. NoLeak
    BY SoundReached DEF NoLeak
  <1>5. NamesAgree
    BY DEF GemInv, Sound, NameAgrees, NamesAgree
  <1>6. TypeOK
    BY DEF GemInv
  <1> QED BY <1>2, <1>3, <1>4, <1>5, <1>6 DEF GemSafe, GemNames

\* The inductive invariant holds in every reachable state (drm_gem.c).
THEOREM GemInvariant == ASSUME OneThreadEach PROVE Spec => []GemInv
  <1>1. GemInv /\ [Next]_vars => GemInv'
    BY GemNext
  <1> QED BY <1>1, GemInit, PTL DEF Spec

\* Types: in particular no count ever goes below zero (drm_gem.c).
THEOREM GemTypes == ASSUME OneThreadEach PROVE Spec => []TypeOK
  <1>1. GemInv => TypeOK
    BY GemInvImplies
  <1> QED BY <1>1, GemInvariant, PTL

\* References and handles are counted, and freed memory is not touched
\* (drm_gem_object_free, drm_gem_object_handle_unreference_unlocked).
THEOREM GemCounts == ASSUME OneThreadEach PROVE Spec => []GemSafe
  <1>1. GemInv => GemSafe
    BY GemInvImplies
  <1> QED BY <1>1, GemInvariant, PTL

\* What nobody reaches is freed although it has a name, and a name opens the
\* object it was given to (drm_gem_flink_ioctl, drm_gem_open_ioctl).
THEOREM GemNaming == ASSUME OneThreadEach PROVE Spec => []GemNames
  <1>1. GemInv => GemNames
    BY GemInvImplies
  <1> QED BY <1>1, GemInvariant, PTL
=============================================================================
