---------------------------- MODULE TtmLockProofs ----------------------------
(***************************************************************************)
(* Theorems about TtmLock, for every finite set of threads: the lock keeps *)
(* its promise (SharedLock), and no wakeup is lost.                        *)
(***************************************************************************)
EXTENDS TtmLock, FiniteSetTheorems, TLAPS

Readers == {t \in Threads : holds[t] = "read"}

Types ==
    /\ calls \subseteq Calls /\ rw \in Int
    /\ flags \subseteq {"write_pending", "vt_pending", "suspend_pending", "vt", "suspend"}
    /\ mutex \in Threads \cup {None}
    /\ pc \in [Threads -> {"idle", "try", "asleep"}]
    /\ call \in [Threads -> [op : Calls \cup {"none"}, intr : BOOLEAN]]
    /\ holds \in [Threads -> {"none", "read", "write", "vt", "claimed", "suspend"}]

\* rw is what the holders say.
Counted == rw = IF \E t \in Threads : holds[t] = "write" THEN -1 ELSE Cardinality(Readers)

\* Holders that cannot be together are not; who only claims to be one may be there.
Apart ==
    \A t, u \in Threads : t # u =>
        /\ holds[t] = "write" => holds[u] \in {"none", "claimed"}
        /\ holds[t] \in {"vt", "suspend"} => holds[u] # "read"

\* The suspend flag is its one holder's; a terminal switch holds the mutex on,
\* and so does who claims to have made one.
Flagged ==
    /\ \A t \in Threads : holds[t] = "suspend" => "suspend" \in flags
    /\ \A t \in Threads : holds[t] \in {"vt", "claimed"} => mutex = t
    /\ \A t, u \in Threads : Suspends(t) /\ Suspends(u) => t = u

\* A call under way is one of the calls, by a thread that holds nothing.
InCall ==
    \A t \in Threads :
        /\ pc[t] # "idle" => call[t].op \in Calls /\ holds[t] = "none"
        /\ call[t].op = "suspend" => ~call[t].intr

LockInv == Types /\ Counted /\ Apart /\ Flagged /\ InCall

LEMMA ReadersFinite == IsFiniteSet(Readers)
  BY TtmLockAssumption, FS_Subset DEF TtmLockAssumption, Readers

\* Without a writer a zero means that nobody reads.
LEMMA RwZero ==
    ASSUME Counted, Types
    PROVE  /\ rw >= 0 <=> \A t \in Threads : holds[t] # "write"
           /\ rw = 0 => \A t \in Threads : holds[t] \notin {"read", "write"}
  <1>1. Cardinality(Readers) \in Nat
    BY ReadersFinite, FS_CardinalityType
  <1>2. ASSUME rw = 0, NEW t \in Threads, holds[t] = "read" PROVE FALSE
    <2>1. Cardinality(Readers) = 0
      BY <1>2 DEF Counted
    <2> QED BY <1>2, <2>1, ReadersFinite, FS_EmptySet DEF Readers
  <1> QED BY <1>1, <1>2 DEF Counted

LEMMA AddReader ==
    ASSUME NEW S, IsFiniteSet(S), NEW t, t \notin S
    PROVE  Cardinality(S \cup {t}) = Cardinality(S) + 1
  BY FS_AddElement

LEMMA LockInitInv == LockInit => LockInv
  <1> SUFFICES ASSUME LockInit PROVE LockInv
    OBVIOUS
  <1>1. Readers = {}
    BY DEF LockInit, Readers
  <1>2. Counted
    BY <1>1, FS_EmptySet DEF LockInit, Counted
  <1> QED BY <1>2 DEF LockInit, LockInv, Types, Apart, Flagged, InCall, Suspends, Calls, Keeps

\* Who comes past the mutex is not behind another thread's terminal switch.
LEMMA Entered ==
    ASSUME Flagged, NEW t \in Threads, Enters(t), NEW u \in Threads, u # t
    PROVE  holds[u] \notin {"vt", "claimed"}
  BY TtmLockAssumption DEF TtmLockAssumption, Flagged, Enters

\* A step that leaves the holders alone leaves the readers alone.
LEMMA SameHolders == ASSUME holds' = holds PROVE Readers' = Readers
  BY DEF Readers

LEMMA GrantInv == ASSUME LockInv, NEW t \in Threads, Grant(t) PROVE LockInv'
  <1> DEFINE op == call[t].op
  <1>1. /\ pc[t] = "try" /\ Enters(t) /\ Grantable(op) /\ op \in Calls /\ holds[t] = "none"
        /\ pc' = [pc EXCEPT ![t] = "idle"] /\ calls' = calls /\ call' = call
        /\ holds' = [holds EXCEPT ![t] = Held(op)]
        /\ mutex' = IF op \in Keeps THEN t ELSE mutex
        /\ flags' = (flags \ Pending(op)) \cup (IF op \in {"vt", "suspend"} THEN {op} ELSE {})
        /\ rw' = CASE op \in {"read", "tryread"} -> rw + 1 [] op = "write" -> -1 [] OTHER -> rw
    BY DEF Grant, Done, KeptBy, LockInv, InCall
  <1>2. Types /\ Counted /\ Apart /\ Flagged /\ InCall
    BY DEF LockInv
  <1> HIDE DEF op
  <1>3. \A u \in Threads : holds[u] \notin {"vt", "claimed"}
    BY <1>1, <1>2, Entered
  <1>4. rw >= 0 <=> \A u \in Threads : holds[u] # "write"
    BY <1>2, RwZero
  <1>5. rw = 0 => \A u \in Threads : holds[u] \notin {"read", "write"}
    BY <1>2, RwZero
  <1>6. Types'
    BY <1>1, <1>2 DEF Types, Calls, Keeps, Held, Pending
  <1>7. InCall'
    BY <1>1, <1>2 DEF InCall, Types
  <1>8. CASE op \in {"read", "tryread"}
    <2>1. rw >= 0 /\ flags = {} /\ rw' = rw + 1 /\ flags' = {} /\ holds' = [holds EXCEPT ![t] = "read"]
      BY <1>1, <1>8 DEF Grantable, Pending, Held
    <2>2. \A u \in Threads : holds[u] \in {"none", "read"}
      BY <1>2, <1>3, <1>4, <2>1 DEF Flagged, Types
    <2>3. Readers' = Readers \cup {t} /\ t \notin Readers
      BY <1>1, <1>2, <2>1 DEF Readers, Types
    <2>4. Counted'
      BY <1>2, <2>1, <2>2, <2>3, ReadersFinite, AddReader DEF Counted, Types
    <2>5. Apart' /\ Flagged'
      BY <1>1, <1>2, <1>7, <2>1, <2>2 DEF Apart, Flagged, Suspends, Types
    <2> QED BY <1>6, <1>7, <2>4, <2>5 DEF LockInv
  <1>9. CASE op = "write"
    <2>1. rw = 0 /\ flags \subseteq {"write_pending"} /\ rw' = -1 /\ flags' = {}
          /\ holds' = [holds EXCEPT ![t] = "write"]
      BY <1>1, <1>9 DEF Grantable, Pending, Held
    <2>2. \A u \in Threads : holds[u] = "none"
      BY <1>2, <1>3, <1>5, <2>1 DEF Flagged, Types
    <2>3. Counted' /\ Apart'
      BY <1>2, <2>1, <2>2 DEF Counted, Apart, Types
    <2>4. Flagged'
      BY <1>1, <1>2, <2>1, <2>2, <1>9 DEF Flagged, Suspends, Types
    <2> QED BY <1>6, <1>7, <2>3, <2>4 DEF LockInv
  <1>10. CASE op \in {"vt", "suspend"}
    <2>1. rw = 0 /\ rw' = rw /\ flags' = (flags \ Pending(op)) \cup {op} /\ holds' = [holds EXCEPT ![t] = op]
      BY <1>1, <1>10 DEF Grantable, Held
    <2>2. \A u \in Threads : holds[u] \in {"none", "suspend"}
      BY <1>2, <1>3, <1>5, <2>1 DEF Types
    <2>3. Readers' = Readers /\ Readers = {}
      BY <1>2, <1>10, <2>1, <2>2 DEF Readers, Types
    <2>4. Counted'
      BY <1>2, <1>10, <2>1, <2>2, <2>3 DEF Counted, Types
    <2>5. Apart'
      BY <1>2, <1>10, <2>1, <2>2 DEF Apart, Types
    <2>6. \A u \in Threads : Suspends(u)' => Suspends(u)
      BY <1>1, <1>2, <1>10, <2>1 DEF Suspends, Types, op
    <2>7. Flagged'
      BY <1>1, <1>2, <1>10, <2>1, <2>2, <2>6 DEF Flagged, Types, Keeps, Pending
    <2> QED BY <1>6, <1>7, <2>4, <2>5, <2>7 DEF LockInv
  <1> QED BY <1>1, <1>8, <1>9, <1>10 DEF Calls

LEMMA ReadUnlockInv == ASSUME LockInv, NEW t \in Threads, ReadUnlock(t) PROVE LockInv'
  <1>1. Types /\ Counted /\ Apart /\ Flagged /\ InCall
    BY DEF LockInv
  <1>2. /\ pc[t] = "idle" /\ holds[t] = "read" /\ holds' = [holds EXCEPT ![t] = "none"] /\ rw' = rw - 1
        /\ calls' = calls /\ flags' = flags /\ mutex' = mutex /\ call' = call
        /\ pc' = IF rw = 1 THEN Wakeup(pc) ELSE pc
    BY DEF ReadUnlock
  <1>3. /\ pc' \in [Threads -> {"idle", "try", "asleep"}]
        /\ \A u \in Threads : pc[u] = "idle" <=> pc'[u] = "idle"
    BY <1>1, <1>2 DEF Types, Wakeup
  <1>4. Readers' = Readers \ {t} /\ t \in Readers
    BY <1>1, <1>2 DEF Readers, Types
  <1>5. Cardinality(Readers') = Cardinality(Readers) - 1
    BY <1>4, ReadersFinite, FS_RemoveElement
  <1>6. \A u \in Threads : holds[u] # "write" /\ holds'[u] # "write"
    BY <1>1, <1>2 DEF Apart, Types
  <1>7. Counted'
    BY <1>1, <1>2, <1>5, <1>6 DEF Counted
  <1>8. Types' /\ Apart' /\ InCall'
    BY <1>1, <1>2, <1>3 DEF Types, Apart, InCall
  <1>9. Flagged'
    BY <1>1, <1>2, <1>3 DEF Types, Flagged, Suspends
  <1> QED BY <1>7, <1>8, <1>9 DEF LockInv

LEMMA WriteUnlockInv ==
    ASSUME LockInv, NEW t \in Threads, NEW d \in BOOLEAN, WriteUnlock(t, d) PROVE LockInv'
  <1>1. Types /\ Counted /\ Apart /\ Flagged /\ InCall
    BY DEF LockInv
  <1>2. /\ pc[t] = "idle" /\ Enters(t)
        /\ holds[t] = "write" /\ holds' = [holds EXCEPT ![t] = IF d THEN "read" ELSE "none"]
        /\ rw' = IF d THEN 1 ELSE 0
        /\ calls' = calls /\ flags' = flags /\ mutex' = mutex /\ call' = call /\ pc' = Wakeup(pc)
    BY DEF WriteUnlock, DowngradedRw
  <1>3. /\ pc' \in [Threads -> {"idle", "try", "asleep"}]
        /\ \A u \in Threads : pc[u] = "idle" <=> pc'[u] = "idle"
    BY <1>1, <1>2 DEF Types, Wakeup
  <1>4. \A u \in Threads : u # t => holds[u] = "none" /\ holds'[u] = "none"
    BY <1>1, <1>2, Entered DEF Apart, Types
  <1>5. Readers' = (IF d THEN {t} ELSE {})
    BY <1>1, <1>2, <1>4 DEF Readers, Types
  <1>6. Cardinality(Readers') = IF d THEN 1 ELSE 0
    BY <1>5, FS_EmptySet, FS_Singleton
  <1>7. Counted'
    BY <1>1, <1>2, <1>4, <1>6 DEF Counted, Types
  <1>8. Types' /\ Apart' /\ InCall'
    <2>1. rw' \in Int /\ holds'[t] \in {"read", "none"} /\ holds' \in [Threads -> {"none", "read", "write", "vt", "claimed", "suspend"}]
      BY <1>1, <1>2 DEF Types
    <2>2. Apart'
      BY <1>4, <2>1 DEF Apart
    <2>3. InCall'
      BY <1>1, <1>2, <1>3, <1>4 DEF InCall
    <2> QED BY <1>1, <1>2, <1>3, <2>1, <2>2, <2>3 DEF Types
  <1>9. Flagged'
    BY <1>1, <1>2, <1>3 DEF Types, Flagged, Suspends
  <1> QED BY <1>7, <1>8, <1>9 DEF LockInv

LEMMA FlagUnlockInv == ASSUME LockInv, NEW t \in Threads, FlagUnlock(t) PROVE LockInv'
  <1>1. Types /\ Counted /\ Apart /\ Flagged /\ InCall
    BY DEF LockInv
  <1>2. /\ pc[t] = "idle" /\ holds[t] \in {"vt", "claimed", "suspend"}
        /\ holds' = [u \in Threads |-> IF u = t THEN "none" ELSE holds[u]]
        /\ flags' = flags \ {IF holds[t] = "suspend" THEN "suspend" ELSE "vt"} /\ rw' = rw
        /\ calls' = calls /\ mutex' = mutex /\ call' = call /\ pc' = Wakeup(pc)
    BY DEF FlagUnlock
  <1>3. /\ pc' \in [Threads -> {"idle", "try", "asleep"}]
        /\ \A u \in Threads : pc[u] = "idle" <=> pc'[u] = "idle"
    BY <1>1, <1>2 DEF Types, Wakeup
  <1>4. Readers' = Readers
    BY <1>1, <1>2 DEF Readers, Types
  <1>5. Counted'
    BY <1>1, <1>2, <1>4 DEF Counted, Types
  <1>6. Types' /\ Apart' /\ InCall'
    BY <1>1, <1>2, <1>3 DEF Types, Apart, InCall
  <1>7. holds[t] = "suspend" => \A u \in Threads : u # t => holds[u] # "suspend"
    BY <1>1, <1>2 DEF Flagged, Suspends
  <1>8. Flagged'
    BY <1>1, <1>2, <1>3, <1>7 DEF Types, Flagged, Suspends
  <1> QED BY <1>5, <1>6, <1>8 DEF LockInv

\* An interrupted ttm_vt_lock leaves its thread believing to have what it has not.
LEMMA InterruptInv == ASSUME LockInv, NEW t \in Threads, Interrupt(t) PROVE LockInv'
  <1>1. Types /\ Counted /\ Apart /\ Flagged /\ InCall
    BY DEF LockInv
  <1>2. /\ pc[t] = "asleep" /\ Enters(t) /\ holds[t] = "none"
        /\ rw' = rw /\ calls' = calls /\ call' = call
        /\ mutex' = IF call[t].op \in Keeps THEN t ELSE mutex
        /\ holds' = holds \/ (call[t].op = "vt" /\ holds' = [holds EXCEPT ![t] = "claimed"])
    BY <1>1 DEF Interrupt, KeptBy, InCall
  <1>3. /\ pc' \in [Threads -> {"idle", "try", "asleep"}] /\ pc'[t] = "idle"
        /\ \A u \in Threads : pc[u] = "idle" => pc'[u] = "idle"
    BY <1>1 DEF Types, Interrupt, Wakeup
  <1>4. flags' \subseteq flags /\ ("suspend" \in flags => "suspend" \in flags')
    BY DEF Interrupt, TakenBack, Pending
  <1>5. /\ \A u \in Threads : u # t => holds'[u] = holds[u]
        /\ holds'[t] \in {"none", "claimed"}
        /\ holds'[t] = "claimed" => call[t].op = "vt"
        /\ holds' \in [Threads -> {"none", "read", "write", "vt", "claimed", "suspend"}]
    BY <1>1, <1>2 DEF Types
  <1>6. Readers' = Readers
    BY <1>2, <1>5 DEF Readers
  <1>7. (\E u \in Threads : holds'[u] = "write") <=> (\E u \in Threads : holds[u] = "write")
    BY <1>2, <1>5
  <1>8. Counted'
    BY <1>1, <1>2, <1>6, <1>7 DEF Counted
  <1>9. Types' /\ Apart' /\ InCall'
    BY <1>1, <1>2, <1>3, <1>4, <1>5 DEF Types, Apart, InCall
  <1>10. \A u \in Threads : Suspends(u)' => Suspends(u)
    BY <1>2, <1>3, <1>5 DEF Suspends
  <1>11. \A u \in Threads : u # t => holds[u] \notin {"vt", "claimed"}
    BY <1>1, <1>2, Entered
  <1>12. Flagged'
    BY <1>1, <1>2, <1>4, <1>5, <1>10, <1>11 DEF Flagged, Keeps
  <1> QED BY <1>8, <1>9, <1>12 DEF LockInv

LEMMA LockStepInv == LockInv /\ [LockNext]_lockVars => LockInv'
  <1> SUFFICES ASSUME LockInv, [LockNext]_lockVars PROVE LockInv'
    OBVIOUS
  <1>0. Types /\ Counted /\ Apart /\ Flagged /\ InCall
    BY DEF LockInv
  <1>1. CASE UNCHANGED lockVars
    BY <1>1 DEF LockInv, Types, Counted, Apart, Flagged, InCall, Suspends, Readers, lockVars
  <1>2. ASSUME NEW t \in Threads, NEW op \in Calls, NEW intr \in BOOLEAN, Begin(t, op, intr) PROVE LockInv'
    <2>1. Readers' = Readers
      BY <1>2 DEF Begin, Readers
    <2>2. Types' /\ Counted' /\ Apart' /\ InCall'
      BY <1>0, <1>2, <2>1 DEF Types, Counted, Apart, InCall, Begin
    <2>3. \A u \in Threads : Suspends(u)' => Suspends(u) \/ (u = t /\ op = "suspend")
      BY <1>0, <1>2 DEF Types, Begin, Suspends
    <2>4. op = "suspend" => \A u \in Threads : ~Suspends(u)
      BY <1>2 DEF Begin
    <2>5. Flagged'
      BY <1>0, <1>2, <2>3, <2>4 DEF Flagged, Begin
    <2> QED BY <2>2, <2>5 DEF LockInv
  <1>3. ASSUME NEW t \in Threads, TryFails(t) \/ Sleep(t) \/ VtFails(t) PROVE LockInv'
    <2>1. holds' = holds /\ rw' = rw /\ calls' = calls /\ call' = call /\ mutex' \in {mutex, t} /\ Enters(t)
      BY <1>3 DEF TryFails, Sleep, VtFails, KeptBy
    <2>2. pc' \in [Threads -> {"idle", "try", "asleep"}] /\ \A u \in Threads : pc[u] = "idle" => pc'[u] = "idle"
      BY <1>0, <1>3 DEF Types, TryFails, Sleep, VtFails, Done, Wakeup
    <2>3. /\ flags' \subseteq flags \cup {"write_pending", "vt_pending", "suspend_pending"}
          /\ "suspend" \in flags => "suspend" \in flags'
      BY <1>3 DEF TryFails, Sleep, VtFails, Pending
    <2>4. Readers' = Readers
      BY <2>1, SameHolders
    <2>5. Types' /\ Counted' /\ Apart' /\ InCall'
      BY <1>0, <2>1, <2>2, <2>3, <2>4 DEF Types, Counted, Apart, InCall
    <2>6. \A u \in Threads : u # t => holds[u] \notin {"vt", "claimed"}
      BY <1>0, <2>1, Entered
    <2>7. Flagged'
      BY <1>0, <2>1, <2>2, <2>3, <2>6 DEF Flagged, Suspends
    <2> QED BY <2>5, <2>7 DEF LockInv
  <1> QED BY <1>1, <1>2, <1>3, GrantInv, InterruptInv, ReadUnlockInv, WriteUnlockInv, FlagUnlockInv DEF LockNext

---------------------------------------------------------------------------
\* Every variable of the lock keeps its type, and rw is never more than the
\* threads nor less than -1 (ttm_lock.c: lock->rw).
THEOREM LockTypes == LockSpec => []LockTypeOK
  <1>1. LockInv => LockTypeOK
    <2> SUFFICES ASSUME LockInv PROVE LockTypeOK
      OBVIOUS
    <2>1. Cardinality(Readers) \in 0 .. Cardinality(Threads)
      BY TtmLockAssumption, FS_Subset, FS_CardinalityType DEF TtmLockAssumption, Readers
    <2>2. Cardinality(Threads) \in Nat
      BY TtmLockAssumption, FS_CardinalityType DEF TtmLockAssumption
    <2>3. rw \in -1 .. Cardinality(Threads)
      BY <2>1, <2>2 DEF LockInv, Counted
    <2> QED BY <2>3 DEF LockInv, Types, LockTypeOK
  <1> QED BY <1>1, LockInitInv, LockStepInv, PTL DEF LockSpec

\* A step of the lock is a step of its promise, or changes no holder.
LEMMA LockStepShares == LockInv /\ [LockNext]_lockVars => [Shared!Next]_Has
  <1> SUFFICES ASSUME LockInv, [LockNext]_lockVars, Has' # Has PROVE Shared!Next
    OBVIOUS
  <1>0. Types /\ Counted /\ Apart /\ Flagged /\ InCall
    BY DEF LockInv
  <1>1. PICK t \in Threads : Grant(t) \/ ReadUnlock(t) \/ FlagUnlock(t) \/ \E d \in BOOLEAN : WriteUnlock(t, d)
    <2>1. holds' # holds
      BY DEF Has
    <2>2. ASSUME NEW u \in Threads, Interrupt(u) PROVE FALSE
      <3>1. holds[u] = "none" /\ holds' = [holds EXCEPT ![u] = "claimed"]
        BY <1>0, <2>1, <2>2 DEF Interrupt, InCall
      <3> QED BY <1>0, <3>1 DEF Has, Types
    <2> QED BY <2>1, <2>2 DEF LockNext, lockVars, Begin, TryFails, Sleep, VtFails
  <1>2. CASE Grant(t)
    <2> DEFINE k == Held(call[t].op)
    <2>1. /\ call[t].op \in Calls /\ holds[t] = "none" /\ Enters(t) /\ Grantable(call[t].op)
          /\ holds' = [holds EXCEPT ![t] = k]
      BY <1>0, <1>2 DEF Grant, InCall
    <2>2. k \in {"read", "write", "vt", "suspend"} /\ call[t].op \in (IF k = "read" THEN {"read", "tryread"} ELSE {k})
      BY <2>1 DEF Held, Calls
    <2>3. \A u \in Threads : holds[u] \notin {"vt", "claimed"} /\ (holds[u] = "suspend" => "suspend" \in flags)
      BY <1>0, <2>1, Entered DEF Flagged
    <2>4. rw >= 0 => \A u \in Threads : holds[u] # "write"
      BY <1>0, RwZero
    <2>5. rw = 0 => \A u \in Threads : holds[u] \notin {"read", "write"}
      BY <1>0, RwZero
    <2> HIDE DEF k
    <2>0. Has[t] = "none" /\ Has' = [Has EXCEPT ![t] = k] /\ \A u \in Threads : Has[u] = holds[u]
      BY <1>0, <2>1, <2>2, <2>3 DEF Has, Types
    <2>6. Shared!Compatible(k)
      <3>1. CASE k = "read"
        <4>1. rw >= 0 /\ flags = {}
          BY <2>1, <2>2, <3>1 DEF Grantable
        <4>2. \A u \in Threads : holds[u] \in {"none", "read"}
          BY <1>0, <2>3, <2>4, <4>1 DEF Types
        <4> QED BY <2>0, <3>1, <4>2 DEF Shared!Compatible
      <3>2. CASE k = "write"
        <4>1. rw = 0 /\ flags \subseteq {"write_pending"}
          BY <2>1, <2>2, <3>2 DEF Grantable
        <4>2. \A u \in Threads : holds[u] = "none"
          BY <1>0, <2>3, <2>5, <4>1 DEF Types
        <4> QED BY <2>0, <3>2, <4>2 DEF Shared!Compatible
      <3>3. CASE k \in {"vt", "suspend"}
        <4>1. rw = 0
          BY <2>1, <2>2, <3>3 DEF Grantable
        <4>2. \A u \in Threads : holds[u] \in {"none", "vt", "suspend"}
          BY <1>0, <2>3, <2>5, <4>1 DEF Types
        <4> QED BY <2>0, <3>3, <4>2 DEF Shared!Compatible
      <3> QED BY <2>2, <3>1, <3>2, <3>3
    <2>7. Shared!Take(t, k) /\ k \in Shared!Kinds
      BY <2>0, <2>2, <2>6 DEF Shared!Take, Shared!Kinds
    <2> QED BY <2>7 DEF Shared!Next
  <1>3. CASE ReadUnlock(t) \/ FlagUnlock(t)
    <2>1. Has' = [Has EXCEPT ![t] = "none"]
      BY <1>0, <1>3 DEF ReadUnlock, FlagUnlock, Types, Has
    <2> QED BY <2>1 DEF Shared!Next, Shared!Drop
  <1>4. ASSUME NEW d \in BOOLEAN, WriteUnlock(t, d) PROVE Shared!Next
    <2>1. Has[t] = "write" /\ Has' = [Has EXCEPT ![t] = IF d THEN "read" ELSE "none"]
      BY <1>0, <1>4 DEF WriteUnlock, Types, Has
    <2>2. CASE d
      BY <2>1, <2>2 DEF Shared!Next, Shared!Downgrade
    <2>3. CASE ~d
      BY <2>1, <2>3 DEF Shared!Next, Shared!Drop
    <2> QED BY <2>2, <2>3
  <1> QED BY <1>1, <1>2, <1>3, <1>4

\* The lock implements the shared lock that ttm_lock.h describes: readers
\* together, a writer alone, a terminal switch or a suspend without either; only
\* an interrupted ttm_vt_lock says that it has it and has nothing (ttm_lock.c:300).
THEOREM LockShares == LockSpec => SharesLock
  <1>1. LockInit => Shared!Init
    BY DEF LockInit, Shared!Init, Has
  <1> QED BY <1>1, LockInitInv, LockStepInv, LockStepShares, PTL DEF LockSpec, SharesLock, Shared!Spec

---------------------------------------------------------------------------
PendingFlags == {"write_pending", "vt_pending", "suspend_pending"}
Asked(f) == \E t \in Threads : pc[t] # "idle" /\ f \in Pending(call[t].op)

\* What each call needs, in this state and in the next.
LEMMA Grants ==
    ASSUME NEW o
    PROVE  /\ o \in {"read", "tryread"} => (Grantable(o) <=> rw >= 0 /\ flags = {})
           /\ o = "write" => (Grantable(o) <=> rw = 0 /\ flags \subseteq {"write_pending"})
           /\ o \in {"vt", "suspend"} => (Grantable(o) <=> rw = 0)
  <1>1. CASE o \in {"read", "tryread"}
    BY <1>1 DEF Grantable
  <1>2. CASE o = "write"
    BY <1>2 DEF Grantable
  <1>3. CASE o \in {"vt", "suspend"}
    BY <1>3 DEF Grantable
  <1> QED BY <1>1, <1>2, <1>3

LEMMA GrantsNext ==
    ASSUME NEW u \in Threads, call' = call
    PROVE  /\ call[u].op \in {"read", "tryread"} => (Grantable(call[u].op)' <=> rw' >= 0 /\ flags' = {})
           /\ call[u].op = "write" => (Grantable(call[u].op)' <=> rw' = 0 /\ flags' \subseteq {"write_pending"})
           /\ call[u].op \in {"vt", "suspend"} => (Grantable(call[u].op)' <=> rw' = 0)
  <1> DEFINE o == call[u].op
  <1>0. o' = o
    OBVIOUS
  <1> HIDE DEF o
  <1>1. CASE o \in {"read", "tryread"}
    <2>1. Grantable(o)' <=> rw' >= 0 /\ flags' = {}
      BY <1>0, <1>1 DEF Grantable
    <2> QED BY <1>1, <2>1 DEF o
  <1>2. CASE o = "write"
    <2>1. Grantable(o)' <=> rw' = 0 /\ flags' \subseteq {"write_pending"}
      BY <1>0, <1>2 DEF Grantable
    <2> QED BY <1>2, <2>1 DEF o
  <1>3. CASE o \in {"vt", "suspend"}
    <2>1. Grantable(o)' <=> rw' = 0
      BY <1>0, <1>3 DEF Grantable
    <2> QED BY <1>3, <2>1 DEF o
  <1> QED BY <1>1, <1>2, <1>3 DEF o, Calls

\* Whoever is granted the lock leaves it closed to all who slept before it.
LEMMA GrantCloses ==
    ASSUME LockInv, WaitersServed, NEW t \in Threads, Grant(t), mutex' = None,
           NEW u \in Threads, pc'[u] = "asleep"
    PROVE  ~Grantable(call[u].op)'
  <1> DEFINE op == call[t].op
             wanted == call[u].op
  <1>1. /\ pc[t] = "try" /\ mutex = None /\ Grantable(op) /\ op \in Calls
        /\ pc[u] = "asleep" /\ u # t /\ wanted \in Calls /\ call' = call /\ op \notin Keeps
    BY TtmLockAssumption DEF TtmLockAssumption, Grant, Done, KeptBy, LockInv, InCall, Types
  <1>2. /\ flags' = (flags \ Pending(op)) \cup (IF op \in {"vt", "suspend"} THEN {op} ELSE {})
        /\ rw' = CASE op \in {"read", "tryread"} -> rw + 1 [] op = "write" -> -1 [] OTHER -> rw
    BY DEF Grant
  <1>3. ~Grantable(wanted)
    BY <1>1 DEF WaitersServed
  <1>4. rw \in Int
    BY DEF LockInv, Types
  <1> HIDE DEF op
  <1>5. CASE op \in {"read", "tryread"}
    <2>1. rw >= 0 /\ flags = {} /\ rw' # 0
      BY <1>1, <1>2, <1>4, <1>5, Grants
    <2>2. wanted \in {"write", "vt", "suspend"}
      BY <1>1, <1>3, <2>1, Grants DEF Calls
    <2> QED BY <1>1, <2>1, <2>2, GrantsNext
  <1>6. CASE op = "write"
    <2>1. rw' = -1
      BY <1>2, <1>6
    <2> QED BY <1>1, <2>1, GrantsNext DEF Calls
  <1>7. CASE op = "suspend"
    <2>1. rw = 0 /\ "suspend" \in flags'
      BY <1>1, <1>2, <1>7, Grants
    <2>2. wanted \in {"read", "tryread", "write"}
      BY <1>1, <1>3, <2>1, Grants DEF Calls
    <2> QED BY <1>1, <2>1, <2>2, GrantsNext
  <1> QED BY <1>1, <1>5, <1>6, <1>7 DEF Calls, Keeps

\* Going to sleep adds a flag, and more flags never open the lock.
LEMMA SleepServes ==
    ASSUME LockInv, WaitersServed, NEW t \in Threads, Sleep(t) PROVE WaitersServed'
  <1> SUFFICES ASSUME mutex' = None PROVE WaitersServed'
    BY DEF WaitersServed
  <1> DEFINE op == call[t].op
  <1>1. /\ pc[t] = "try" /\ mutex = None /\ ~Grantable(op) /\ rw' = rw /\ call' = call
        /\ flags' = flags \cup Pending(op) /\ pc' = [pc EXCEPT ![t] = "asleep"] /\ op \in Calls
    BY DEF Sleep, LockInv, InCall
  <1>2. ASSUME NEW u \in Threads, pc'[u] = "asleep" PROVE ~Grantable(call[u].op)'
    <2>1. ~Grantable(call[u].op) /\ call[u].op \in Calls /\ call'[u].op = call[u].op
      BY <1>1, <1>2 DEF WaitersServed, LockInv, InCall, Types
    <2>2. call[u].op = "write" => ~(rw = 0 /\ flags \subseteq {"write_pending"})
      BY <2>1, Grants
    <2>3. call[u].op \in {"read", "tryread"} => ~(rw >= 0 /\ flags = {})
      BY <2>1, Grants
    <2>4. call[u].op \in {"vt", "suspend"} => rw # 0
      BY <2>1, Grants
    <2> QED BY <1>1, <2>1, <2>2, <2>3, <2>4, GrantsNext DEF Calls
  <1>3. ASSUME NEW f \in PendingFlags \cap flags' PROVE Asked(f)'
    <2>1. CASE f \in Pending(op)
      BY <1>1, <2>1 DEF Asked, LockInv, Types
    <2>2. CASE f \in flags
      <3>1. PICK u \in Threads : pc[u] # "idle" /\ f \in Pending(call[u].op)
        BY <1>1, <2>2 DEF WaitersServed, PendingFlags
      <3>2. pc'[u] # "idle"
        BY <1>1, <3>1 DEF LockInv, Types
      <3> QED BY <1>1, <3>1, <3>2 DEF Asked
    <2> QED BY <1>1, <1>3, <2>1, <2>2
  <1> QED BY <1>2, <1>3 DEF WaitersServed, PendingFlags, Asked

\* A step that takes one thread out of its call with its flags, and wakes all
\* others or opens the lock to none, keeps everybody served.
LEMMA FlagsAsked ==
    ASSUME LockInv, WaitersServed, mutex = None, call' = call, NEW t \in Threads,
           flags' \cap PendingFlags \subseteq flags,
           pc[t] # "idle" => flags' \cap Pending(call[t].op) = {},
           \A u \in Threads : u # t /\ pc[u] # "idle" => pc'[u] # "idle",
           NEW f \in PendingFlags \cap flags'
    PROVE  Asked(f)'
  <1>1. PICK u \in Threads : pc[u] # "idle" /\ f \in Pending(call[u].op)
    BY DEF WaitersServed, PendingFlags
  <1>2. u # t
    BY <1>1
  <1> QED BY <1>1, <1>2 DEF Asked

\* A mutex that was kept is never free again.
LEMMA MutexStays == [LockNext]_lockVars /\ mutex' = None => mutex = None
  BY TtmLockAssumption
     DEF TtmLockAssumption, LockNext, lockVars, Begin, Grant, VtFails, TryFails, Sleep, Interrupt, KeptBy,
         ReadUnlock, FlagUnlock, WriteUnlock

LEMMA ServedStep == LockInv /\ WaitersServed /\ [LockNext]_lockVars => WaitersServed'
  <1> SUFFICES ASSUME LockInv, WaitersServed, [LockNext]_lockVars, mutex' = None, mutex = None
               PROVE  WaitersServed'
    BY MutexStays DEF WaitersServed
  <1>0. Types /\ Counted /\ Apart /\ Flagged /\ InCall
    BY DEF LockInv
  <1>1. CASE UNCHANGED lockVars
    BY <1>1 DEF WaitersServed, Grantable, lockVars
  <1>2. ASSUME NEW t \in Threads, NEW op \in Calls, NEW intr \in BOOLEAN, Begin(t, op, intr) PROVE WaitersServed'
    <2>1. /\ pc[t] = "idle" /\ pc' = [pc EXCEPT ![t] = "try"] /\ rw' = rw /\ flags' = flags /\ mutex = None
          /\ \A u \in Threads : u # t => call'[u] = call[u]
      BY <1>0, <1>2 DEF Begin, Types
    <2>2. ASSUME NEW u \in Threads, pc'[u] = "asleep" PROVE ~Grantable(call[u].op)'
      <3>1. u # t /\ pc[u] = "asleep"
        BY <1>0, <2>1, <2>2 DEF Types
      <3>2. ~Grantable(call[u].op)
        BY <2>1, <3>1 DEF WaitersServed
      <3> QED BY <2>1, <3>1, <3>2 DEF Grantable
    <2>3. ASSUME NEW f \in PendingFlags \cap flags' PROVE Asked(f)'
      <3>1. PICK u \in Threads : pc[u] # "idle" /\ f \in Pending(call[u].op)
        BY <2>1, <2>3 DEF WaitersServed, PendingFlags
      <3>2. u # t /\ pc'[u] # "idle"
        BY <1>0, <2>1, <3>1 DEF Types
      <3> QED BY <2>1, <3>1, <3>2 DEF Asked
    <2> QED BY <2>2, <2>3 DEF WaitersServed, PendingFlags, Asked
  <1>3. ASSUME NEW t \in Threads, Grant(t) PROVE WaitersServed'
    <2>1. /\ pc[t] = "try" /\ mutex = None /\ call' = call /\ pc' = [pc EXCEPT ![t] = "idle"]
          /\ flags' = (flags \ Pending(call[t].op)) \cup
                      (IF call[t].op \in {"vt", "suspend"} THEN {call[t].op} ELSE {})
      BY <1>3 DEF Grant, Done, KeptBy
    <2>2. flags' \cap PendingFlags \subseteq flags /\ flags' \cap Pending(call[t].op) = {}
      BY <2>1 DEF PendingFlags, Pending
    <2>3. \A u \in Threads : u # t /\ pc[u] # "idle" => pc'[u] # "idle"
      BY <1>0, <2>1 DEF Types
    <2>4. \A f \in PendingFlags \cap flags' : Asked(f)'
      BY <2>1, <2>2, <2>3, FlagsAsked
    <2>5. \A u \in Threads : pc'[u] = "asleep" => ~Grantable(call[u].op)'
      BY <1>3, GrantCloses
    <2> QED BY <2>4, <2>5 DEF WaitersServed, PendingFlags, Asked
  <1>4. ASSUME NEW t \in Threads, TryFails(t) PROVE WaitersServed'
    <2>1. /\ pc[t] = "try" /\ mutex = None /\ call' = call /\ pc' = [pc EXCEPT ![t] = "idle"]
          /\ flags' = flags /\ rw' = rw /\ Pending(call[t].op) = {}
      BY <1>4 DEF TryFails, Done, Pending
    <2>2. \A u \in Threads : u # t /\ pc[u] # "idle" => pc'[u] # "idle"
      BY <1>0, <2>1 DEF Types
    <2>3. \A f \in PendingFlags \cap flags' : Asked(f)'
      BY <2>1, <2>2, FlagsAsked
    <2>4. \A u \in Threads : pc'[u] = "asleep" => pc[u] = "asleep"
      BY <1>0, <2>1 DEF Types
    <2> QED BY <2>1, <2>3, <2>4 DEF WaitersServed, PendingFlags, Asked, Grantable
  <1>5. ASSUME NEW t \in Threads, Interrupt(t) PROVE WaitersServed'
    <2>1. /\ pc[t] = "asleep" /\ mutex = None /\ call' = call /\ call[t].intr /\ rw' = rw
          /\ flags' = flags \ Pending(call[t].op) /\ call[t].op \notin Keeps /\ call[t].op # "suspend"
          /\ pc' = IF call[t].op \in {"write", "vt"} THEN [Wakeup(pc) EXCEPT ![t] = "idle"]
                                                     ELSE [pc EXCEPT ![t] = "idle"]
      BY <1>0, <1>5, TtmLockAssumption DEF TtmLockAssumption, Interrupt, KeptBy, Keeps, TakenBack, InCall
    <2>2. \A u \in Threads : u # t /\ pc[u] # "idle" => pc'[u] # "idle"
      BY <1>0, <2>1 DEF Types, Wakeup
    <2>3. \A f \in PendingFlags \cap flags' : Asked(f)'
      BY <2>1, <2>2, FlagsAsked
    <2>4. CASE call[t].op = "write"
      <3>1. \A u \in Threads : pc'[u] # "asleep"
        BY <1>0, <2>1, <2>4 DEF Types, Wakeup
      <3> QED BY <2>3, <3>1 DEF WaitersServed, PendingFlags, Asked
    <2>5. CASE call[t].op # "write"
      <3>1. flags' = flags /\ pc' = [pc EXCEPT ![t] = "idle"]
        BY <2>1, <2>5 DEF Pending, Keeps
      <3>2. \A u \in Threads : pc'[u] = "asleep" => pc[u] = "asleep"
        BY <1>0, <3>1 DEF Types
      <3> QED BY <2>1, <2>3, <3>1, <3>2 DEF WaitersServed, PendingFlags, Asked, Grantable
    <2> QED BY <2>4, <2>5
  <1>6. ASSUME NEW t \in Threads, ReadUnlock(t) PROVE WaitersServed'
    <2>1. /\ pc[t] = "idle" /\ holds[t] = "read" /\ mutex = None /\ call' = call /\ flags' = flags /\ rw' = rw - 1
          /\ pc' = IF rw = 1 THEN Wakeup(pc) ELSE pc
      BY <1>6 DEF ReadUnlock
    <2>2. rw >= 1 /\ rw \in Int
      <3>1. t \in Readers /\ \A u \in Threads : holds[u] # "write"
        BY <1>0, <2>1 DEF Apart, Readers
      <3>2. rw = Cardinality(Readers) /\ Cardinality(Readers) # 0 /\ Cardinality(Readers) \in Nat
        BY <1>0, <3>1, ReadersFinite, FS_EmptySet, FS_CardinalityType DEF Counted
      <3> QED BY <3>2
    <2>3. \A u \in Threads : u # t /\ pc[u] # "idle" => pc'[u] # "idle"
      BY <1>0, <2>1 DEF Types, Wakeup
    <2>4. \A f \in PendingFlags \cap flags' : Asked(f)'
      BY <2>1, <2>3, FlagsAsked
    <2>5. ASSUME NEW u \in Threads, pc'[u] = "asleep" PROVE ~Grantable(call[u].op)'
      <3>1. rw >= 2 /\ pc' = pc
        BY <1>0, <2>1, <2>2, <2>5 DEF Types, Wakeup
      <3>2. ~Grantable(call[u].op) /\ call[u].op \in Calls
        BY <1>0, <2>1, <2>5, <3>1 DEF WaitersServed, InCall
      <3>3. call[u].op \in {"read", "tryread"} => flags # {}
        BY <2>2, <3>2, Grants
      <3>4. rw' # 0
        BY <2>1, <2>2, <3>1
      <3> QED BY <2>1, <3>2, <3>3, <3>4, GrantsNext DEF Calls
    <2> QED BY <2>4, <2>5 DEF WaitersServed, PendingFlags, Asked
  <1>7. ASSUME NEW t \in Threads, FlagUnlock(t) \/ \E d \in BOOLEAN : WriteUnlock(t, d) PROVE WaitersServed'
    <2>1. /\ pc[t] = "idle" /\ mutex = None /\ call' = call /\ flags' \subseteq flags /\ pc' = Wakeup(pc)
      BY <1>7 DEF FlagUnlock, WriteUnlock
    <2>2. \A u \in Threads : pc'[u] # "asleep" /\ (pc[u] # "idle" => pc'[u] # "idle")
      BY <1>0, <2>1 DEF Types, Wakeup
    <2>3. \A f \in PendingFlags \cap flags' : Asked(f)'
      BY <2>1, <2>2, FlagsAsked
    <2> QED BY <2>2, <2>3 DEF WaitersServed, PendingFlags, Asked
  <1>8. ASSUME NEW t \in Threads, VtFails(t) PROVE FALSE
    BY <1>8, TtmLockAssumption DEF TtmLockAssumption, VtFails, KeptBy, Keeps
  <1> QED BY <1>1, <1>2, <1>3, <1>4, <1>5, <1>6, <1>7, <1>8, SleepServes DEF LockNext

\* While the mutex is free nobody sleeps before a lock that is his to take, and
\* no pending flag outlives the calls that set it (ttm_lock.c: the wakeups after
\* an unlock and after an interrupted wait).
THEOREM LockServes == LockSpec => []WaitersServed
  <1>1. LockInit => WaitersServed
    BY DEF LockInit, WaitersServed
  <1> QED BY <1>1, LockInitInv, LockStepInv, ServedStep, PTL DEF LockSpec
=============================================================================
