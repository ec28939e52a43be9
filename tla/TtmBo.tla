------------------------------- MODULE TtmBo -------------------------------
(***************************************************************************)
(* Life of TTM buffers (drm/ttm/ttm_bo.c, ttm_bo_util.c, ttm_bo_vm.c):     *)
(* validation with eviction, moves by copy or by the GPU, page faults,     *)
(* swap-out, and destruction delayed until the GPU is done.                *)
(*                                                                         *)
(* A section under lru_lock is one step; what runs between two of them     *)
(* under the reservation of a buffer is a step of its own.                 *)
(***************************************************************************)
EXTENDS Integers, FiniteSets, Sequences

CONSTANTS Users, Worker, Swapper, \* threads; the delayed delete, the shrinker
          Bos, Ghosts, None,      \* buffers; those that only keep an old place for the GPU
    Slots                   \* how many fit in video memory

VARIABLES bo, ddestroy, job, armed, revived
boVars == <<bo, ddestroy, job, armed, revived>>

BoThreads == Users \cup {Worker, Swapper}
NoBo == [life |-> "none", refs |-> 0, lref |-> 0, holder |-> None, mem |-> "system",
         fence |-> "none", moving |-> FALSE, lru |-> FALSE, swap |-> FALSE, mapped |-> "no"]
NoJob == [pc |-> "idle", bo |-> None, vic |-> None, next |-> None]

BoInit ==
    /\ bo = [b \in Bos |-> NoBo] /\ ddestroy = <<>> /\ armed = FALSE /\ revived = FALSE
    /\ job = [t \in BoThreads |-> NoJob]

Dying(b) == \E i \in DOMAIN ddestroy : ddestroy[i] = b
Listed(b) == Cardinality({l \in {"lru", "swap"} : bo[b][l]})
FreeSlots == Slots - Cardinality({b \in Bos : bo[b].mem = "vram"})
                   - Cardinality({u \in Users : job[u].pc = "move"})
Goto(t, pc) == job' = [job EXCEPT ![t].pc = pc]

\* ttm_bo_release_list once the last reference of the lists goes
Dropped(r, n) == [r EXCEPT !.lref = @ - n, !.life = IF r.lref = n THEN "freed" ELSE @]
\* ttm_bo_add_to_lru, on the swap list when it has pages, and unreserve
Unreserved(r) == [r EXCEPT !.holder = None, !.lru = TRUE, !.swap = (r.mem = "system"),
                           !.lref = @ + (IF r.mem = "system" THEN 2 ELSE 1)]
\* ttm_bo_reserve_nolru and ttm_bo_del_from_lru, the references dropped
Taken(r, t) == [r EXCEPT !.holder = t, !.lru = FALSE, !.swap = FALSE,
                         !.lref = @ - (IF r.lru THEN 1 ELSE 0) - (IF r.swap THEN 1 ELSE 0)]
\* ttm_bo_wait without waiting: a signalled fence is forgotten
Polled(r) == IF r.fence = "done" THEN [r EXCEPT !.fence = "none", !.moving = FALSE] ELSE r
\* ttm_bo_unmap_virtual_locked
Unmapped(r) == [r EXCEPT !.mapped = "no"]

-----------------------------------------------------------------------------
(* Users                                                                   *)

\* ttm_bo_init up to the validation, which runs under the reservation
Create(u, b) ==
    /\ job[u].pc = "idle" /\ bo[b].life = "none" /\ b \notin Ghosts
    /\ bo' = [bo EXCEPT ![b] = [NoBo EXCEPT !.life = "live", !.refs = 2, !.lref = 1, !.holder = u]]
    /\ job' = [job EXCEPT ![u] = [NoJob EXCEPT !.pc = "validate", !.bo = b]]
    /\ UNCHANGED <<ddestroy, armed, revived>>

\* The handle is one reference; every use of it under way is another.
HasHandle(b) == b \notin Ghosts /\ bo[b].refs > Cardinality({u \in Users : job[u].bo = b /\ job[u].pc # "release"})

\* A handle is looked up and the buffer reserved, to validate it or to serve a
\* page fault.
Look(u, b, why) ==
    /\ job[u].pc = "idle" /\ HasHandle(b) /\ bo[b].holder = None
    /\ bo' = [bo EXCEPT ![b] = [Taken(@, u) EXCEPT !.refs = @ + 1]]
    /\ job' = [job EXCEPT ![u] = [NoJob EXCEPT !.pc = why, !.bo = b]]
    /\ UNCHANGED <<ddestroy, armed, revived>>

\* ttm_bo_unref; the last one goes on to ttm_bo_release
Put(r) == [r EXCEPT !.refs = @ - 1]
Leave(u, b) == job' = [job EXCEPT ![u] = IF bo[b].refs = 1 THEN [NoJob EXCEPT !.pc = "release", !.bo = b]
                                         ELSE NoJob]
Close(u, b) ==
    /\ job[u].pc = "idle" /\ HasHandle(b)
    /\ bo' = [bo EXCEPT ![b] = Put(@)] /\ Leave(u, b)
    /\ UNCHANGED <<ddestroy, armed, revived>>

\* ttm_bo_unreserve, and the reference of the use goes
Finish(u, r) ==
    LET b == job[u].bo
    IN  bo' = [bo EXCEPT ![b] = Put(Unreserved(r))] /\ Leave(u, b)
Busy(r, fence) == IF fence THEN [r EXCEPT !.fence = "busy"] ELSE r

\* ttm_bo_validate: nothing to do, and a command stream may fence the buffer
Compatible(u, fence) ==
    /\ job[u].pc = "validate" /\ Finish(u, Busy(bo[job[u].bo], fence))
    /\ UNCHANGED <<ddestroy, armed, revived>>
\* ttm_bo_move_buffer: the fence is waited for and a place looked for.
MoveBuffer(u, want) ==
    LET b == job[u].bo
    IN  /\ job[u].pc = "validate" /\ bo[b].mem # want /\ bo[b].fence # "busy"
        /\ bo' = [bo EXCEPT ![b] = Polled(@)]
        /\ Goto(u, IF want = "vram" THEN "space" ELSE "tosystem")
        /\ UNCHANGED <<ddestroy, armed, revived>>

\* ttm_bo_mem_force_space: a free place
GetNode(u) ==
    /\ job[u].pc = "space" /\ FreeSlots > 0 /\ Goto(u, "move")
    /\ UNCHANGED <<bo, ddestroy, armed, revived>>

\* The wait is interrupted, the move fails, there is no memory: the buffer stays
\* where it is. (What ttm_bo_move_memcpy gives back when it cannot map the new
\* place is a node of a third memory type; system memory has none.)
Fails(u) ==
    /\ job[u].pc \in {"validate", "space", "move", "tosystem", "fault", "failed"}
    /\ Finish(u, bo[job[u].bo]) /\ UNCHANGED <<ddestroy, armed, revived>>
\* ttm_bo_handle_move_mem fails after it has taken the mapping away
MoveFails(u) ==
    /\ job[u].pc \in {"move", "tosystem"}
    /\ Finish(u, Unmapped(bo[job[u].bo])) /\ UNCHANGED <<ddestroy, armed, revived>>

Victims(l) == {v \in Bos : bo[v][l] /\ bo[v].holder = None}
\* ttm_mem_evict_first: the first that can be reserved; a dead one is cleaned up
EvictFirst(u, v) ==
    /\ job[u].pc = "space" /\ FreeSlots = 0 /\ bo[v].mem = "vram" /\ v \in Victims("lru")
    /\ IF Dying(v)
       THEN /\ bo' = [bo EXCEPT ![v].holder = u, ![v].lref = @ + 1]
            /\ job' = [job EXCEPT ![u].pc = "clean", ![u].vic = v]
       ELSE /\ bo' = [bo EXCEPT ![v] = [Taken(@, u) EXCEPT !.lref = @ + 1]]
            /\ job' = [job EXCEPT ![u].pc = "evict", ![u].vic = v]
    /\ UNCHANGED <<ddestroy, armed, revived>>

\* ttm_bo_evict: after its fence the victim goes to system memory, or stays
Evict(u, ok) ==
    LET v == job[u].vic
    IN  /\ job[u].pc = "evict" /\ bo[v].fence # "busy"
        /\ bo' = [bo EXCEPT ![v] = Dropped(Unreserved(
               IF ok THEN [Unmapped(Polled(@)) EXCEPT !.mem = "system"] ELSE Polled(@)), 1)]
        /\ job' = [job EXCEPT ![u].pc = IF ok THEN "space" ELSE "failed", ![u].vic = None]
        /\ UNCHANGED <<ddestroy, armed, revived>>

\* Mutant: the CPU's mapping survives the move
StaysMapped(r, to) == [r EXCEPT !.mem = to]

\* ttm_bo_handle_move_mem: unmapped, moved
Moved(r, to) == [Unmapped(r) EXCEPT !.mem = to]
Target(u) == IF job[u].pc = "move" THEN "vram" ELSE "system"

\* ttm_bo_move_memcpy, and what follows as in Compatible
CopyMove(u, fence) ==
    /\ job[u].pc \in {"move", "tosystem"}
    /\ Finish(u, Busy(Moved(bo[job[u].bo], Target(u)), fence))
    /\ UNCHANGED <<ddestroy, armed, revived>>

\* ttm_bo_move_accel_cleanup: the GPU copies; the old place is hung on a ghost
\* that is unreserved, which puts it on the lists for everyone, and then dropped.
\* (The new place is written only after that, but nobody looks at the place of a
\* buffer that is reserved and on no list.)
GhostOf(r) == Unreserved([Unmapped(r) EXCEPT !.refs = 1, !.lref = 1, !.fence = "busy", !.moving = TRUE])
AccelMove(u, g) ==
    LET b == job[u].bo
    IN  /\ job[u].pc \in {"move", "tosystem"} /\ g \in Ghosts /\ bo[g].life = "none"
        /\ bo' = [bo EXCEPT ![g] = GhostOf(bo[b]),
               ![b] = [Moved(@, Target(u)) EXCEPT !.fence = "busy", !.moving = TRUE]]
        /\ job' = [job EXCEPT ![u].pc = "ghost", ![u].next = g]
        /\ UNCHANGED <<ddestroy, armed, revived>>

\* ttm_bo_vm_fault: only a pipelined move is waited for
Fault(u) ==
    LET b == job[u].bo
        r == IF bo[b].moving THEN Polled(bo[b]) ELSE bo[b]
    IN  /\ job[u].pc = "fault" /\ (bo[b].moving => bo[b].fence # "busy")
        /\ Finish(u, [r EXCEPT !.mapped = r.mem]) /\ UNCHANGED <<ddestroy, armed, revived>>

\* Mutant: a busy buffer is destroyed at once
IgnoreFence(b) == bo[b].holder = None

\* ttm_bo_cleanup_refs_or_queue: idle and not reserved
FreedAtOnce(b) == bo[b].holder = None /\ Polled(bo[b]).fence = "none"

\* Mutant: the list of the dead takes no reference
QueuedBare(r) == r

Queued(r) == [r EXCEPT !.lref = @ + 1]

\* ttm_bo_release: freed now, or queued with the worker started
Released(b) ==
    LET r == [Unmapped(Polled(bo[b])) EXCEPT !.refs = 0]
    IN  IF FreedAtOnce(b) THEN Dropped([Taken(r, None) EXCEPT !.mem = "system"], 1)
        ELSE Dropped(Queued(r), 1)
Queue(b) ==
    IF FreedAtOnce(b) THEN UNCHANGED <<ddestroy, armed>>
    ELSE ddestroy' = Append(ddestroy, b) /\ armed' = TRUE
Release(u) ==
    LET b == job[u].bo
    IN  /\ job[u].pc = "release" /\ Queue(b)
        /\ bo' = [bo EXCEPT ![b] = Released(b)]
        /\ job' = [job EXCEPT ![u] = NoJob] /\ UNCHANGED revived

\* The ghost is dropped, and the move is done.
DropGhost(u) ==
    LET b == job[u].bo
        g == job[u].next
    IN  /\ job[u].pc = "ghost" /\ Queue(g)
        /\ bo' = [bo EXCEPT ![g] = Released(g), ![b] = Put(Unreserved(@))]
        /\ Leave(u, b) /\ UNCHANGED revived

\* ttm_bo_mmap_single: found by its offset, also when its last reference is gone
\* and ttm_bo_release has not yet taken it out of the tree
Mmap(u, b) ==
    /\ job[u].pc = "idle" /\ bo[b].refs = 0 /\ \E w \in Users : job[w].pc = "release" /\ job[w].bo = b
    /\ revived' = TRUE /\ UNCHANGED <<bo, ddestroy, job, armed>>

-----------------------------------------------------------------------------
(* ttm_bo_cleanup_refs_and_unlock, for the evictor, the shrinker and the   *)
(* worker, who hold the reservation and a reference of the lists           *)

\* What the caller does next: back to the search, to the next entry, or done
After(t, ok) ==
    job' = [job EXCEPT ![t] =
        IF t \in Users THEN [@ EXCEPT !.pc = IF ok THEN "space" ELSE "failed", !.vic = None]
        ELSE IF t = Worker /\ ok /\ job[t].next # None
        THEN [@ EXCEPT !.pc = "next", !.vic = job[t].next, !.next = None]
        ELSE NoJob]

\* Idle: off the lists, ttm_bo_cleanup_memtype_use, and the references dropped
Destroyed(t, v) ==
    /\ bo' = [bo EXCEPT ![v] = Dropped([Taken(Polled(@), None) EXCEPT !.mem = "system"], 2)]
    /\ ddestroy' = SelectSeq(ddestroy, LAMBDA d : d # v)
    /\ After(t, TRUE)
CleanNow(t) ==
    LET v == job[t].vic
    IN  /\ job[t].pc = "clean" /\ bo[v].fence # "busy" /\ Destroyed(t, v)
        /\ UNCHANGED <<armed, revived>>

\* Busy: unreserved, and the fence is waited for
CleanWaits(t) ==
    LET v == job[t].vic
    IN  /\ job[t].pc = "clean" /\ t # Worker /\ bo[v].fence = "busy"
        /\ bo' = [bo EXCEPT ![v].holder = None] /\ Goto(t, "cleanwait")
        /\ UNCHANGED <<ddestroy, armed, revived>>
CleanAgain(t) ==
    LET v == job[t].vic
    IN  /\ job[t].pc = "cleanwait" /\ bo[v].fence # "busy"
        /\ IF bo[v].holder = None /\ Dying(v)
           THEN Destroyed(t, v)
           ELSE /\ bo' = [bo EXCEPT ![v] = Dropped(Polled(@), 1)]
                /\ After(t, TRUE) /\ UNCHANGED ddestroy
        /\ UNCHANGED <<armed, revived>>
CleanInterrupted(u) ==
    /\ job[u].pc = "cleanwait" /\ bo' = [bo EXCEPT ![job[u].vic] = Dropped(@, 1)]
    /\ After(u, FALSE) /\ UNCHANGED <<ddestroy, armed, revived>>

-----------------------------------------------------------------------------
(* The worker (ttm_bo_delayed_delete), the shrinker (ttm_bo_swapout), and  *)
(* the GPU                                                                 *)

WorkStart ==
    /\ armed /\ job[Worker].pc = "idle" /\ armed' = FALSE
    /\ IF ddestroy = <<>> THEN UNCHANGED <<bo, job>>
       ELSE /\ bo' = [bo EXCEPT ![Head(ddestroy)].lref = @ + 1]
            /\ job' = [job EXCEPT ![Worker] = [NoJob EXCEPT !.pc = "entry", !.vic = Head(ddestroy)]]
    /\ UNCHANGED <<ddestroy, revived>>

\* One entry: with a reference to the one after it, it is cleaned up, or the
\* whole list is left for the next time.
NextOf(v) == LET i == CHOOSE i \in DOMAIN ddestroy : ddestroy[i] = v
             IN  IF i = Len(ddestroy) THEN None ELSE ddestroy[i + 1]
WorkEntry ==
    LET v == job[Worker].vic
    IN  /\ job[Worker].pc = "entry"
        /\ IF Dying(v) /\ bo[v].holder = None /\ bo[v].fence # "busy"
           THEN /\ bo' = [b \in Bos |-> IF b = v THEN [bo[v] EXCEPT !.holder = Worker]
                                        ELSE IF b = NextOf(v) THEN [bo[b] EXCEPT !.lref = @ + 1]
                                        ELSE bo[b]]
                /\ job' = [job EXCEPT ![Worker].pc = "clean", ![Worker].next = NextOf(v)]
                /\ UNCHANGED armed
           ELSE /\ bo' = [bo EXCEPT ![v] = Dropped(Polled(@), 1)]
                /\ armed' = TRUE /\ job' = [job EXCEPT ![Worker] = NoJob]
        /\ UNCHANGED <<ddestroy, revived>>

\* The entry after it was destroyed meanwhile: the traversal ends, and the work
\* is not started again.
WorkNext ==
    LET v == job[Worker].vic
    IN  /\ job[Worker].pc = "next"
        /\ IF Dying(v) THEN Goto(Worker, "entry") /\ UNCHANGED bo
           ELSE /\ bo' = [bo EXCEPT ![v] = Dropped(@, 1)]
                /\ job' = [job EXCEPT ![Worker] = NoJob]
        /\ UNCHANGED <<ddestroy, armed, revived>>

SwapStart(v) ==
    /\ job[Swapper].pc = "idle" /\ v \in Victims("swap")
    /\ IF Dying(v)
       THEN /\ bo' = [bo EXCEPT ![v].holder = Swapper, ![v].lref = @ + 1]
            /\ job' = [job EXCEPT ![Swapper].pc = "clean", ![Swapper].vic = v]
       ELSE /\ bo' = [bo EXCEPT ![v] = [Taken(@, Swapper) EXCEPT !.lref = @ + 1]]
            /\ job' = [job EXCEPT ![Swapper].pc = "swapout", ![Swapper].vic = v]
    /\ UNCHANGED <<ddestroy, armed, revived>>
\* After the fence it is unmapped and swapped out; whether that went well or not
\* it does not come back to the lists.
SwapOut ==
    LET v == job[Swapper].vic
    IN  /\ job[Swapper].pc = "swapout" /\ bo[v].fence # "busy"
        /\ bo' = [bo EXCEPT ![v] = Dropped([Unmapped(Polled(@)) EXCEPT !.holder = None], 1)]
        /\ job' = [job EXCEPT ![Swapper] = NoJob]
        /\ UNCHANGED <<ddestroy, armed, revived>>

Signal(b) ==
    /\ bo[b].fence = "busy" /\ bo' = [bo EXCEPT ![b].fence = "done"]
    /\ UNCHANGED <<ddestroy, job, armed, revived>>

BoNext ==
    /\ ~revived
    /\ \/ \E u \in Users, b \in Bos :
            \/ Create(u, b) \/ EvictFirst(u, b) \/ AccelMove(u, b) \/ Mmap(u, b)
            \/ Close(u, b) \/ \E why \in {"validate", "fault"} : Look(u, b, why)
       \/ \E u \in Users :
            \/ GetNode(u) \/ Fails(u) \/ MoveFails(u) \/ DropGhost(u) \/ Fault(u) \/ Release(u) \/ CleanInterrupted(u)
            \/ \E want \in {"vram", "system"} : MoveBuffer(u, want)
            \/ \E ok \in BOOLEAN : Compatible(u, ok) \/ CopyMove(u, ok) \/ Evict(u, ok)
       \/ \E t \in BoThreads : CleanNow(t) \/ CleanWaits(t) \/ CleanAgain(t)
       \/ WorkStart \/ WorkEntry \/ WorkNext \/ SwapOut
       \/ \E b \in Bos : SwapStart(b) \/ Signal(b)

-----------------------------------------------------------------------------
(* Properties                                                              *)

BoTypeOK ==
    /\ \A b \in Bos : /\ bo[b].life \in {"none", "live", "freed"} /\ bo[b].mem \in {"system", "vram"}
                      /\ bo[b].holder \in BoThreads \cup {None} /\ bo[b].refs \in Nat /\ bo[b].lref \in Nat
                      /\ bo[b].fence \in {"none", "busy", "done"} /\ bo[b].mapped \in {"no", "system", "vram"}
    /\ armed \in BOOLEAN /\ revived \in BOOLEAN /\ \A i \in DOMAIN ddestroy : ddestroy[i] \in Bos

\* list_kref is the base reference, one for every list, and one for every thread
\* that has picked the buffer from a list.
Picked(b) == Cardinality({t \in BoThreads : job[t].vic = b}) + (IF job[Worker].next = b THEN 1 ELSE 0)
Based(b) == bo[b].refs > 0 \/ \E u \in Users : job[u].pc = "release" /\ job[u].bo = b
ListRefs == \A b \in Bos : bo[b].life = "live" =>
    bo[b].lref = (IF Based(b) THEN 1 ELSE 0) + Listed(b) + (IF Dying(b) THEN 1 ELSE 0) + Picked(b)

\* The assertions of ttm_bo_release_list: what is freed is nowhere used any more.
FreedIsClean == \A b \in Bos : bo[b].life = "freed" =>
    /\ bo[b].refs = 0 /\ bo[b].lref = 0 /\ bo[b].fence = "none" /\ bo[b].mem = "system"
    /\ Listed(b) = 0 /\ ~Dying(b) /\ Picked(b) = 0 /\ bo[b].holder = None

\* Video memory is never promised twice, and the memory of a buffer the GPU works
\* on is not given to another.
PlacesOwned == FreeSlots >= 0

\* The pages that a process has mapped are those of the place the buffer is in.
MapsCurrent == \A b \in Bos : bo[b].mapped \in {"no", bo[b].mem}

BoSafe == ListRefs /\ FreedIsClean /\ PlacesOwned /\ MapsCurrent

\* ttm_bo_mmap_single takes a reference to a buffer that still has one.
NotRevived == ~revived
=============================================================================
