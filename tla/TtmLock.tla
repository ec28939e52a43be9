------------------------------ MODULE TtmLock ------------------------------
(***************************************************************************)
(* The TTM lock (drm/ttm/ttm_lock.c): a shared lock with pending flags that *)
(* keep readers out while a writer, a terminal switch or a suspend waits.  *)
(* A call is two steps of its thread, the attempt under the internal mutex *)
(* and the wakeup; wakeup() wakes every sleeper of the lock.               *)
(* kill_takers is never set in this repository and is left out.            *)
(***************************************************************************)
EXTENDS Integers, FiniteSets

CONSTANTS Threads, None

ASSUME TtmLockAssumption == IsFiniteSet(Threads) /\ None \notin Threads

VARIABLES
    calls,  \* the calls the clients make, chosen once
    rw,     \* readers, or -1
    flags,  \* the flags that are set
    mutex,  \* the owner of the internal mutex
    pc,     \* where each thread is: idle, trying or asleep in a call
    call,   \* that call, and whether signals interrupt it
    holds   \* what each thread holds, or claims to: ttm_vt_lock told it so

lockVars == <<calls, rw, flags, mutex, pc, call, holds>>

Calls == {"read", "tryread", "write", "vt", "suspend"}
Held(c) == IF c = "tryread" THEN "read" ELSE c

\* ttm_read_lock and ttm_vt_lock return with the mutex locked.  It stays so, and
\* only their thread can go on, which has it twice then.
Keeps == {"read", "vt"}
Enters(t) == mutex \in {None, t}
KeptBy(t, op) == mutex' = IF op \in Keeps THEN t ELSE mutex

LockInit ==
    /\ calls \in {Calls, Calls \ Keeps}
    /\ rw = 0 /\ flags = {} /\ mutex = None
    /\ pc = [t \in Threads |-> "idle"]
    /\ call = [t \in Threads |-> [op |-> "none", intr |-> FALSE]]
    /\ holds = [t \in Threads |-> "none"]

\* A system suspends once: ttm_suspend_lock itself lets a second caller in, and
\* the first one's unlock would then free the lock.
Suspends(t) == holds[t] = "suspend" \/ (pc[t] # "idle" /\ call[t].op = "suspend")

Begin(t, op, intr) ==
    /\ pc[t] = "idle" /\ holds[t] = "none" /\ op \in calls
    /\ op = "suspend" => (~intr /\ \A u \in Threads : ~Suspends(u))
    /\ pc' = [pc EXCEPT ![t] = "try"]
    /\ call' = [call EXCEPT ![t] = [op |-> op, intr |-> intr]]
    /\ UNCHANGED <<calls, rw, flags, mutex, holds>>

Grantable(op) ==
    CASE op \in {"read", "tryread"} -> rw >= 0 /\ flags = {}
      [] op = "write" -> rw = 0 /\ flags \subseteq {"write_pending"}
      [] op \in {"vt", "suspend"} -> rw = 0

Pending(op) == IF op = "write" THEN {"write_pending"} ELSE
               IF op = "vt" THEN {"vt_pending"} ELSE
               IF op = "suspend" THEN {"suspend_pending"} ELSE {}

Done(t) == pc' = [pc EXCEPT ![t] = "idle"]
Wakeup(p) == [u \in Threads |-> IF p[u] = "asleep" THEN "try" ELSE p[u]]

Grant(t) ==
    LET op == call[t].op
    IN  /\ pc[t] = "try" /\ Enters(t) /\ Grantable(op)
        /\ rw' = CASE op \in {"read", "tryread"} -> rw + 1 [] op = "write" -> -1 [] OTHER -> rw
        /\ flags' = (flags \ Pending(op)) \cup
                    (IF op \in {"vt", "suspend"} THEN {op} ELSE {})
        /\ KeptBy(t, op)
        /\ holds' = [holds EXCEPT ![t] = Held(op)]
        /\ Done(t) /\ UNCHANGED <<calls, call>>

\* ttm_vt_lock cannot make the base object that stands for its holder, and gives
\* the flag back, whosever it is.
VtFails(t) ==
    /\ pc[t] = "try" /\ Enters(t) /\ call[t].op = "vt" /\ Grantable("vt")
    /\ flags' = flags \ {"vt_pending", "vt"}
    /\ pc' = [Wakeup(pc) EXCEPT ![t] = "idle"]
    /\ KeptBy(t, "vt")
    /\ UNCHANGED <<calls, rw, call, holds>>

\* The read trylock gives up at once when only the holders are in its way.
TryFails(t) ==
    /\ pc[t] = "try" /\ Enters(t) /\ call[t].op = "tryread"
    /\ ~Grantable("tryread") /\ flags = {}
    /\ Done(t) /\ UNCHANGED <<calls, rw, flags, mutex, call, holds>>

Sleep(t) ==
    LET op == call[t].op
    IN  /\ pc[t] = "try" /\ Enters(t) /\ ~Grantable(op)
        /\ op = "tryread" => flags # {}
        /\ flags' = flags \cup Pending(op)
        /\ pc' = [pc EXCEPT ![t] = "asleep"]
        /\ UNCHANGED <<calls, rw, mutex, call, holds>>

\* Mutant: the pending flag outlives the writer that gave up
LeaveFlag(op) == {}

\* The flags that an interrupted call takes back
TakenBack(op) == Pending(op)

\* msleep is interrupted.  The flag of every other waiter of the kind goes too,
\* so all sleepers are woken to set it again.  ttm_vt_lock forgets its error: it
\* makes the base object all the same and returns 0, or fails to and takes the
\* flag from whoever has it.
Interrupt(t) ==
    LET op == call[t].op
    IN  /\ pc[t] = "asleep" /\ Enters(t) /\ call[t].intr
        /\ pc' = IF op \in {"write", "vt"} THEN [Wakeup(pc) EXCEPT ![t] = "idle"]
                                           ELSE [pc EXCEPT ![t] = "idle"]
        /\ KeptBy(t, op)
        /\ \/ op # "vt" /\ flags' = flags \ TakenBack(op) /\ UNCHANGED holds
           \/ op = "vt" /\ flags' = flags \ TakenBack(op) /\ holds' = [holds EXCEPT ![t] = "claimed"]
           \/ op = "vt" /\ flags' = flags \ (TakenBack(op) \cup {"vt"}) /\ UNCHANGED holds
        /\ UNCHANGED <<calls, rw, call>>

ReadUnlock(t) ==
    /\ pc[t] = "idle" /\ holds[t] = "read" /\ Enters(t)
    /\ rw' = rw - 1
    /\ pc' = IF rw = 1 THEN Wakeup(pc) ELSE pc
    /\ holds' = [holds EXCEPT ![t] = "none"]
    /\ UNCHANGED <<calls, flags, mutex, call>>

\* Mutant: a downgrade counts no reader
DowngradedTo == 0

DowngradedRw == 1

WriteUnlock(t, downgrade) ==
    /\ pc[t] = "idle" /\ holds[t] = "write" /\ Enters(t)
    /\ rw' = IF downgrade THEN DowngradedRw ELSE 0
    /\ pc' = Wakeup(pc)
    /\ holds' = [holds EXCEPT ![t] = IF downgrade THEN "read" ELSE "none"]
    /\ UNCHANGED <<calls, flags, mutex, call>>

\* ttm_suspend_unlock and, through the base object of the lock's holder,
\* __ttm_vt_unlock.  The flag goes whoever else holds the lock of the kind, and
\* also when the thread only claims to.
FlagUnlock(t) ==
    /\ pc[t] = "idle" /\ holds[t] \in {"vt", "claimed", "suspend"} /\ Enters(t)
    /\ flags' = flags \ {IF holds[t] = "suspend" THEN "suspend" ELSE "vt"}
    /\ pc' = Wakeup(pc)
    /\ holds' = [u \in Threads |-> IF u = t THEN "none" ELSE holds[u]]
    /\ UNCHANGED <<calls, rw, mutex, call>>

LockNext == \E t \in Threads :
    \/ \E op \in Calls, intr \in BOOLEAN : Begin(t, op, intr)
    \/ Grant(t) \/ VtFails(t) \/ TryFails(t) \/ Sleep(t) \/ Interrupt(t)
    \/ ReadUnlock(t) \/ FlagUnlock(t) \/ \E d \in BOOLEAN : WriteUnlock(t, d)

LockSpec == LockInit /\ [][LockNext]_lockVars

-----------------------------------------------------------------------------
(* Properties                                                              *)

LockTypeOK ==
    /\ calls \subseteq Calls /\ rw \in -1 .. Cardinality(Threads)
    /\ flags \subseteq {"write_pending", "vt_pending", "suspend_pending", "vt", "suspend"}
    /\ mutex \in Threads \cup {None}
    /\ pc \in [Threads -> {"idle", "try", "asleep"}]
    /\ call \in [Threads -> [op : Calls \cup {"none"}, intr : BOOLEAN]]
    /\ holds \in [Threads -> {"none", "read", "write", "vt", "claimed", "suspend"}]

\* The refinement: nobody gets the lock against a holder of another kind.  Who
\* returns from an interrupted ttm_vt_lock (ttm_lock.c:300) believes to have it
\* and has nothing; no other call does that.
Has == [t \in Threads |-> IF holds[t] = "claimed" THEN "none" ELSE holds[t]]
Shared == INSTANCE SharedLock WITH holds <- Has
SharesLock == Shared!Spec

\* No wakeup is lost and no pending flag is left behind: while the mutex is free
\* nobody sleeps in front of a lock that is his to take, and no flag is pending
\* for a call that nobody makes, which would keep all readers out for ever.
WaitersServed == mutex = None =>
    /\ \A t \in Threads : pc[t] = "asleep" => ~Grantable(call[t].op)
    /\ \A f \in {"write_pending", "vt_pending", "suspend_pending"} \cap flags :
          \E t \in Threads : pc[t] # "idle" /\ f \in Pending(call[t].op)

\* The calls return with the internal mutex free: what every caller of
\* ttm_lock.c relies on for its next call.
MutexReleased == mutex # None => pc[mutex] # "idle"
=============================================================================
