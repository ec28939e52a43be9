------------------------------- MODULE I915Gem -------------------------------
(***************************************************************************)
(* Requests, seqnos and object activity of drm/i915/i915_gem.c, with the   *)
(* execbuffer path that creates them, the semaphores between rings of      *)
(* intel_ringbuffer.c, and the hangcheck and reset of i915_irq.c and       *)
(* i915_drv.c.                                                             *)
(*                                                                         *)
(* Grain: one action per stretch of code that neither sleeps nor can be    *)
(* told apart by the GPU, the interrupt handler, the hangcheck timer or    *)
(* the error work.  struct_mutex is a variable; irq_lock is not, because   *)
(* no other code that takes it touches what a waiter reads under it.       *)
(* The command stream of a ring is a queue of batches, semaphore waits and *)
(* breadcrumbs; seqnos are numbers modulo Mod.  Ring space is counted in   *)
(* requests.  Contexts, relocation and the aperture are not modelled.      *)
(***************************************************************************)
EXTENDS Integers, Sequences, FiniteSets

CONSTANTS
    NumRings,     \* rings 1 .. NumRings, in the order of for_each_ring
    Objects,      \* buffer objects bound in the aperture
    Threads,      \* threads in ioctls; each has a file of its own
    Nobody,       \* no thread
    NoObject,
    Mod,          \* width of a seqno (2^32 in the code)
    FirstSeqnos,  \* where dev_priv->next_seqno may be (1 at load)
    RingRequests, \* requests a ring buffer has room for
    SemaphoreModes, \* values i915_semaphore_is_enabled may have
    Cliprects,    \* execbuffers with several cliprects (gen < 5)
    Hangcheck,    \* i915_enable_hangcheck
    TryReset,     \* i915_try_reset
    Ops,          \* operations the threads call
    Signals,      \* signals are delivered to threads
    MaxBatches,   \* bound: execbuffers of one behaviour
    MaxHangs      \* bound: hangs of one behaviour

OpNames == {"exec", "unbind", "read", "write", "wait", "waitfor", "throttle"}

GemAssumption ==
    /\ NumRings \in Nat \ {0}
    /\ Nobody \notin Threads /\ NoObject \notin Objects
    /\ Mod \in Nat \ {0, 1} /\ Mod % 2 = 0 /\ FirstSeqnos \subseteq 1 .. Mod - 1
    /\ RingRequests \in Nat \ {0}
    /\ SemaphoreModes \subseteq BOOLEAN /\ Cliprects \in BOOLEAN /\ Signals \in BOOLEAN
    /\ Hangcheck \in BOOLEAN /\ TryReset \in BOOLEAN
    /\ Ops \subseteq OpNames
    /\ MaxBatches \in Nat /\ MaxHangs \in Nat

\* The seqnos of one behaviour are on one side of the signed comparison.
FewBatches == MaxBatches + 3 <= Mod \div 2

\* Rings do not signal each other and batches are not repeated.
Plain == ~Cliprects /\ (NumRings = 1 \/ TRUE \notin SemaphoreModes)

Rings  == 1 .. NumRings
NoRing == 0
Seqnos == 0 .. Mod - 1            \* 0 is not a seqno

VARIABLES
    mutex,      \* owner of dev->struct_mutex
    next,       \* dev_priv->next_seqno
    olr,        \* ring->outstanding_lazy_request
    dirty,      \* ring->gpu_caches_dirty
    requests,   \* ring->request_list
    active,     \* ring->active_list
    ring,       \* obj->ring, NoRing unless obj->active
    lastRead,   \* obj->last_read_seqno
    lastWrite,  \* obj->last_write_seqno
    sync,       \* ring->sync_seqno: from, to
    semaphores, \* i915_semaphore_is_enabled: a module parameter, never changes
    hw,         \* hardware: commands of each ring still to execute
    hws,        \* hardware: seqno in the status page
    mbox,       \* hardware: semaphore mailboxes the ring signals
    hung,       \* hardware: the ring executes nothing
    moved,      \* hardware: some ring advanced since last_acthd was read
    irq,        \* a user interrupt of the ring waits for its handler
    wedged,     \* dev_priv->mm.wedged
    recovered,  \* error_completion.done > 0
    hangcheck,  \* [armed, count]: hangcheck_timer and hangcheck_count
    work,       \* [queued, pc]: error_work
    retire,     \* mm.retire_work is queued
    th,         \* each thread's place in its ioctl
    batches,    \* execbuffers so far
    hangs       \* hangs so far

gemVars == <<requests, active, ring, lastRead, lastWrite>>
seqVars == <<next, olr, dirty, sync, semaphores>>
gpuVars == <<hw, hws, mbox, hung, moved, irq>>
errVars == <<wedged, recovered, work>>
bounds  == <<batches, hangs>>
vars == <<mutex, gemVars, seqVars, gpuVars, errVars, hangcheck, retire, th, bounds>>

-----------------------------------------------------------------------------
(* A thread: op and its object obj, ring to and direction write; the ring  *)
(* on and seqno s it waits for; then, where it goes after the wait; the    *)
(* ring from and seqno sem its batch is to wait for.  A sleeper that is    *)
(* woken or times out looks at its condition again ("cond"); only one with *)
(* a timeout has to remember which it was.                                 *)

Idle == [pc |-> "idle", op |-> "none", obj |-> NoObject, to |-> NoRing,
         write |-> FALSE, on |-> NoRing, s |-> 0, then |-> "idle", from |-> NoRing, sem |-> 0]

Waiting == {"cond", "sleepy", "asleep", "woken", "expired"} \* holds irq_get
Bounded == {"waitfor"}                          \* ioctls with a timeout

At(t, pc)    == th[t].pc = pc
Go(t, pc)    == th' = [th EXCEPT ![t].pc = pc]
Goto(t, rec) == th' = [th EXCEPT ![t] = rec]
\* The common tail of every ioctl: drop the mutex if held, return.
Return(t) == /\ Goto(t, Idle)
             /\ mutex' = IF mutex = t THEN Nobody ELSE mutex

\* Mutant: a plain comparison, wrong once the seqnos have wrapped
PassedUnsigned(a, b) == a >= b

\* i915_seqno_passed: the signed difference is not negative
Passed(a, b) == (a - b) % Mod < Mod \div 2

Done(r, s) == Passed(hws[r], s)

\* The largest prefix of q all of whose members satisfy P
PassedPrefix(q, P(_)) ==
    CHOOSE n \in 0 .. Len(q) : /\ \A i \in 1 .. n : P(q[i])
                               /\ n < Len(q) => ~P(q[n + 1])
Elements(q) == {q[i] : i \in DOMAIN q}

Batch(o, w)  == [cmd |-> "batch", obj |-> o, write |-> w, from |-> NoRing, s |-> 0]

\* Mutant: the wait is over one seqno early
SemWaitEarly(r, s) == [cmd |-> "wait", obj |-> NoObject, write |-> FALSE, from |-> r, s |-> s - 1]
SemWait(r, s) == [cmd |-> "wait", obj |-> NoObject, write |-> FALSE, from |-> r, s |-> s]
Breadcrumb(s) == [cmd |-> "seqno", obj |-> NoObject, write |-> FALSE, from |-> NoRing, s |-> s]

Init ==
    /\ mutex = Nobody /\ next \in FirstSeqnos /\ semaphores \in SemaphoreModes
    /\ olr = [r \in Rings |-> 0] /\ dirty = [r \in Rings |-> FALSE]
    /\ requests = [r \in Rings |-> <<>>] /\ active = [r \in Rings |-> <<>>]
    /\ ring = [o \in Objects |-> NoRing]
    /\ lastRead = [o \in Objects |-> 0] /\ lastWrite = [o \in Objects |-> 0]
    /\ sync = [r \in Rings |-> [q \in Rings |-> 0]]
    /\ hw = [r \in Rings |-> <<>>] /\ hws = [r \in Rings |-> next - 1]
    /\ mbox = [r \in Rings |-> next - 1] /\ hung = [r \in Rings |-> FALSE]
    /\ moved = FALSE /\ irq = [r \in Rings |-> FALSE]
    /\ wedged = FALSE /\ recovered = FALSE
    /\ hangcheck = [armed |-> FALSE, count |-> 0]
    /\ work = [queued |-> FALSE, pc |-> "idle"]
    /\ retire = FALSE
    /\ th = [t \in Threads |-> Idle]
    /\ batches = 0 /\ hangs = 0

-----------------------------------------------------------------------------
(* The request and activity lists                                          *)

\* Mutant: the flush does not reset gpu_caches_dirty
AddRequestKeepsDirty(r, f) ==
    /\ requests' = [requests EXCEPT ![r] = Append(@, [s |-> olr[r], file |-> f])]
    /\ hw' = [hw EXCEPT ![r] = Append(@, Breadcrumb(olr[r]))]
    /\ olr' = [olr EXCEPT ![r] = 0]
    /\ hangcheck' = [hangcheck EXCEPT !.armed = Hangcheck]
    /\ retire' = (retire \/ requests[r] = <<>>)
    /\ UNCHANGED dirty

\* i915_add_request on ring r for file f: the breadcrumb carries the olr
AddRequest(r, f) ==
    /\ requests' = [requests EXCEPT ![r] = Append(@, [s |-> olr[r], file |-> f])]
    /\ hw' = [hw EXCEPT ![r] = Append(@, Breadcrumb(olr[r]))]
    /\ olr' = [olr EXCEPT ![r] = 0]
    /\ dirty' = [dirty EXCEPT ![r] = FALSE]
    /\ hangcheck' = [hangcheck EXCEPT !.armed = Hangcheck]
    /\ retire' = (retire \/ requests[r] = <<>>)

\* i915_gem_check_olr: a seqno that is still lazy gets its request now
CheckOlr(r, s) ==
    IF s = olr[r] THEN AddRequest(r, Nobody)
                  ELSE UNCHANGED <<requests, hw, olr, dirty, hangcheck, retire>>

\* i915_gem_object_move_to_inactive for every object of S; last_write_seqno
\* is also cleared for the objects of W
MoveToInactive(S, W) ==
    /\ ring' = [o \in Objects |-> IF o \in S THEN NoRing ELSE ring[o]]
    /\ lastRead' = [o \in Objects |-> IF o \in S THEN 0 ELSE lastRead[o]]
    /\ lastWrite' = [o \in Objects |-> IF o \in S \cup W THEN 0 ELSE lastWrite[o]]

Drop(q, n) == SubSeq(q, n + 1, Len(q))

\* i915_gem_retire_requests_ring for every ring of R: from the head of each
\* list, until one is not done.  A ring without requests is skipped.
Remaining(R) ==
    [r \in Rings |-> IF r \notin R THEN requests[r]
        ELSE Drop(requests[r], PassedPrefix(requests[r], LAMBDA q : Done(r, q.s)))]

\* Mutant: an object whose seqno is just done stays
RetireObjectsStrict(R, W) ==
    LET Old(r) == IF r \notin R \/ requests[r] = <<>> THEN 0
                  ELSE PassedPrefix(active[r], LAMBDA o : Done(r, lastRead[o]) /\ hws[r] # lastRead[o])
    IN  /\ active' = [r \in Rings |-> Drop(active[r], Old(r))]
        /\ MoveToInactive(UNION {{active[r][i] : i \in 1 .. Old(r)} : r \in Rings}, W)

RetireObjects(R, W) ==
    LET Old(r) == IF r \notin R \/ requests[r] = <<>> THEN 0
                  ELSE PassedPrefix(active[r], LAMBDA o : Done(r, lastRead[o]))
    IN  /\ active' = [r \in Rings |-> Drop(active[r], Old(r))]
        /\ MoveToInactive(UNION {{active[r][i] : i \in 1 .. Old(r)} : r \in Rings}, W)

Retire(R, W) == requests' = Remaining(R) /\ RetireObjects(R, W)

-----------------------------------------------------------------------------
(* Sleeping for a seqno: __wait_seqno                                      *)

\* i915_wait_seqno up to __wait_seqno, with struct_mutex held
WaitSeqno(t, r, s, then) ==
    IF wedged
    THEN /\ Return(t)
         /\ UNCHANGED <<requests, hw, olr, dirty, hangcheck, retire>>
    ELSE /\ CheckOlr(r, s)
         /\ Goto(t, [th[t] EXCEPT !.pc = "check", !.on = r, !.s = s, !.then = then])
         /\ UNCHANGED mutex

\* An error from __wait_seqno: the nonblocking caller takes the mutex back
\* first, to retire (s = 0 stands for the error); any other caller returns.
WaitFails(t) ==
    IF th[t].then = "relock"
    THEN Goto(t, [th[t] EXCEPT !.pc = "relock", !.s = 0]) /\ UNCHANGED mutex
    ELSE Return(t)

\* Completed: go on, or return from an ioctl that only waits
WaitSucceeds(t) ==
    IF th[t].then = "idle" THEN Return(t) ELSE Go(t, th[t].then) /\ UNCHANGED mutex

waitFrame == <<gemVars, seqVars, gpuVars, errVars, hangcheck, bounds>>

\* The test before irq_get
WaitCheck(t) ==
    /\ At(t, "check")
    /\ IF Done(th[t].on, th[t].s)
       THEN WaitSucceeds(t)
       ELSE Go(t, "cond") /\ UNCHANGED mutex
    \* i915_gem_ring_throttle kicks the retire work
    /\ retire' = (retire \/ (th[t].op = "throttle" /\ Done(th[t].on, th[t].s)))
    /\ UNCHANGED waitFrame

\* Mutant: waiters do not look at mm.wedged
NeverAborted == FALSE

\* i915_gem_check_wedge: an error even if the seqno has passed
Aborted == wedged

\* EXIT_COND, tested with irq_lock held
WaitCond(t) ==
    /\ At(t, "cond") \/ At(t, "woken") \/ At(t, "expired")
    /\ LET done == Done(th[t].on, th[t].s)
       IN  /\ \/ Aborted /\ WaitFails(t)
              \/ ~Aborted /\ done /\ WaitSucceeds(t)
              \/ /\ ~Aborted /\ ~done /\ At(t, "cond")
                 /\ Go(t, "sleepy") /\ UNCHANGED mutex
              \* end = 0 and a timeout: -ETIMEDOUT
              \/ ~Aborted /\ ~done /\ ~At(t, "cond") /\ WaitFails(t)
           /\ retire' = (retire \/ (th[t].op = "throttle" /\ done /\ ~wedged))
    /\ UNCHANGED waitFrame

\* msleep puts the thread on the queue; a wakeup before that is lost
WaitSleep(t) ==
    /\ At(t, "sleepy") /\ Go(t, "asleep")
    /\ UNCHANGED <<mutex, waitFrame, retire>>

\* The timeout of msleep: one second, or that of the ioctl
WaitExpires(t) ==
    /\ At(t, "asleep") /\ Go(t, IF th[t].op \in Bounded THEN "expired" ELSE "cond")
    /\ UNCHANGED <<mutex, waitFrame, retire>>

WaitInterrupted(t) ==
    /\ Signals /\ At(t, "asleep")
    /\ WaitFails(t)
    /\ UNCHANGED <<waitFrame, retire>>

Woken(R) == [t \in Threads |-> IF At(t, "asleep") /\ th[t].on \in R
              THEN [th[t] EXCEPT !.pc = IF th[t].op \in Bounded THEN "woken" ELSE "cond"]
              ELSE th[t]]

-----------------------------------------------------------------------------
(* The ioctls                                                              *)

\* i915_gem_wait_for_error: a wedged GPU is waited for until it has been
\* reset, or its reset has failed
Start(t) ==
    /\ At(t, "idle")
    /\ ~wedged \/ recovered
    /\ \E op \in Ops \ {"throttle"}, o \in Objects :
         \E r \in IF op = "exec" THEN Rings ELSE {NoRing},
            w \in IF op = "exec" THEN BOOLEAN ELSE {FALSE} :
           /\ op = "exec" => batches < MaxBatches
           /\ batches' = IF op = "exec" THEN batches + 1 ELSE batches
           /\ Goto(t, [Idle EXCEPT !.pc = "lock", !.op = op, !.obj = o, !.to = r, !.write = w])
    /\ UNCHANGED <<mutex, gemVars, seqVars, gpuVars, errVars, hangcheck, retire, hangs>>

FirstStep(op) ==
    CASE op = "exec" -> "sync"
      [] op = "unbind" -> "render"
      [] op \in {"read", "write"} -> "nonblock"
      [] op \in {"wait", "waitfor"} -> "flush"

LockMutex(t) ==
    /\ At(t, "lock") /\ mutex = Nobody
    /\ mutex' = t
    /\ Go(t, FirstStep(th[t].op))
    /\ UNCHANGED <<gemVars, seqVars, gpuVars, errVars, hangcheck, retire, bounds>>

\* i915_gem_ring_throttle: the last of its requests that is old enough
Throttle(t) ==
    /\ At(t, "idle") /\ "throttle" \in Ops /\ ~wedged
    /\ \E r \in Rings : \E q \in Elements(requests[r]) :
         /\ q.file = t
         /\ Goto(t, [Idle EXCEPT !.pc = "check", !.op = "throttle", !.on = r, !.s = q.s])
    /\ UNCHANGED <<mutex, gemVars, seqVars, gpuVars, errVars, hangcheck, retire, bounds>>

\* The seqno i915_gem_object_wait_rendering waits for, 0 if none
RenderSeqno(t) == IF th[t].op = "read" THEN lastWrite[th[t].obj] ELSE lastRead[th[t].obj]

AfterRender(t) == IF th[t].op = "exec" THEN "begin" ELSE "access"

\* i915_gem_object_wait_rendering, up to the sleep
WaitRendering(t) ==
    /\ At(t, "render")
    /\ IF RenderSeqno(t) = 0
       THEN /\ Go(t, AfterRender(t))
            /\ UNCHANGED <<mutex, requests, hw, olr, dirty, hangcheck, retire>>
       ELSE WaitSeqno(t, ring[th[t].obj], RenderSeqno(t), "rendered")
    /\ UNCHANGED <<active, ring, lastRead, lastWrite, next, sync, semaphores,
                   hws, mbox, hung, moved, irq, errVars, bounds>>

\* Mutant: without the comparison of seqnos
FinishRenderingAlways(t) ==
    Retire({th[t].on}, IF th[t].s # 0 THEN {th[t].obj} ELSE {})

\* After the sleep: retire, and clear last_write_seqno if the wait covers it
FinishRendering(t) ==
    LET o == th[t].obj
        covered == th[t].s # 0 /\ lastWrite[o] # 0 /\ Passed(th[t].s, lastWrite[o])
    IN  Retire({th[t].on}, IF covered THEN {o} ELSE {})

Rendered(t) ==
    /\ At(t, "rendered")
    /\ FinishRendering(t)
    /\ Goto(t, [th[t] EXCEPT !.pc = AfterRender(t), !.on = NoRing, !.s = 0, !.then = "idle"])
    /\ UNCHANGED <<mutex, seqVars, gpuVars, errVars, hangcheck, retire, bounds>>

\* i915_gem_object_wait_rendering__nonblocking: the same without the mutex
Nonblocking(t) ==
    /\ At(t, "nonblock")
    /\ IF RenderSeqno(t) = 0
       THEN /\ Go(t, "render")
            /\ UNCHANGED <<mutex, requests, hw, olr, dirty, hangcheck, retire>>
       ELSE IF wedged
       THEN /\ Return(t) /\ UNCHANGED <<requests, hw, olr, dirty, hangcheck, retire>>
       ELSE /\ CheckOlr(ring[th[t].obj], RenderSeqno(t))
            /\ mutex' = Nobody
            /\ Goto(t, [th[t] EXCEPT !.pc = "check", !.on = ring[th[t].obj],
                                     !.s = RenderSeqno(t), !.then = "relock"])
    /\ UNCHANGED <<active, ring, lastRead, lastWrite, next, sync, semaphores,
                   hws, mbox, hung, moved, irq, errVars, bounds>>

Relock(t) ==
    /\ At(t, "relock") /\ mutex = Nobody
    /\ FinishRendering(t)
    /\ IF th[t].s = 0 THEN Return(t)
       ELSE /\ mutex' = t
            /\ Goto(t, [th[t] EXCEPT !.pc = "render", !.on = NoRing, !.s = 0, !.then = "idle"])
    /\ UNCHANGED <<seqVars, gpuVars, errVars, hangcheck, retire, bounds>>

\* The ioctl is done with the object: unbound, or in a CPU domain
Access(t) ==
    /\ At(t, "access") /\ Return(t)
    /\ UNCHANGED <<gemVars, seqVars, gpuVars, errVars, hangcheck, retire, bounds>>

\* i915_gem_wait_ioctl: i915_gem_object_flush_active, then wait unlocked
FlushOlr(t) ==
    /\ At(t, "flush")
    /\ LET o == th[t].obj IN
         IF ring[o] = NoRing
         THEN Return(t) /\ UNCHANGED <<requests, hw, olr, dirty, hangcheck, retire>>
         ELSE IF lastRead[o] = olr[ring[o]] /\ wedged
         THEN Return(t) /\ UNCHANGED <<requests, hw, olr, dirty, hangcheck, retire>>
         ELSE /\ CheckOlr(ring[o], lastRead[o])
              /\ Go(t, "flushed") /\ UNCHANGED mutex
    /\ UNCHANGED <<active, ring, lastRead, lastWrite, next, sync, semaphores,
                   hws, mbox, hung, moved, irq, errVars, bounds>>

FlushRetire(t) ==
    /\ At(t, "flushed")
    /\ LET o == th[t].obj IN
         /\ Retire({ring[o]}, {})
         /\ mutex' = Nobody
         /\ IF ring'[o] = NoRing THEN Goto(t, Idle)
            ELSE Goto(t, [th[t] EXCEPT !.pc = "check", !.on = ring[o], !.s = lastRead[o]])
    /\ UNCHANGED <<seqVars, gpuVars, errVars, hangcheck, retire, bounds>>

-----------------------------------------------------------------------------
(* i915_gem_do_execbuffer                                                  *)

\* Ring to already waits for seqno s of ring from
Synced(from, to, s) == s <= sync[from][to]

\* i915_gem_object_sync, up to the ring access
ObjectSync(t) ==
    /\ At(t, "sync")
    /\ LET o == th[t].obj
           from == ring[o]
           idle == UNCHANGED <<requests, hw, olr, dirty, hangcheck, retire>>
       IN  \/ /\ from \in {NoRing, th[t].to}
              /\ Go(t, "begin") /\ idle /\ UNCHANGED mutex
           \/ /\ from \notin {NoRing, th[t].to} /\ ~semaphores
              /\ Go(t, "render") /\ idle /\ UNCHANGED mutex
           \/ /\ from \notin {NoRing, th[t].to} /\ semaphores
              /\ IF Synced(from, th[t].to, lastRead[o])
                 THEN Go(t, "begin") /\ idle /\ UNCHANGED mutex
                 ELSE IF wedged /\ lastRead[o] = olr[from]
                 THEN Return(t) /\ idle
                 ELSE /\ CheckOlr(from, lastRead[o])
                      /\ Goto(t, [th[t] EXCEPT !.pc = "begin", !.from = from, !.sem = lastRead[o]])
                      /\ UNCHANGED mutex
    /\ UNCHANGED <<active, ring, lastRead, lastWrite, next, sync, semaphores,
                   hws, mbox, hung, moved, irq, errVars, bounds>>

\* intel_ring_begin: allocate the seqno the commands will complete with.
\* intel_ring_invalidate_all_caches, which comes first, may have flushed when
\* a later access fails.
RingBegin(t) ==
    /\ At(t, "begin")
    /\ LET r == th[t].to
           invalidate == dirty' \in {dirty, [dirty EXCEPT ![r] = FALSE]}
           take(n) == /\ olr' = [olr EXCEPT ![r] = n]
                      /\ next' = (n + 1) % Mod
                      /\ Go(t, "dispatch") /\ invalidate /\ UNCHANGED mutex
       IN  \/ wedged /\ Return(t) /\ UNCHANGED <<olr, next, dirty>>
           \/ /\ ~wedged /\ olr[r] # 0
              /\ Go(t, "dispatch") /\ invalidate /\ UNCHANGED <<mutex, olr, next>>
           \/ ~wedged /\ olr[r] = 0 /\ next # 0 /\ take(next)
           \* i915_gem_handle_seqno_wrap
           \/ /\ ~wedged /\ olr[r] = 0 /\ next = 0
              /\ IF \E p, q \in Rings : sync[p][q] # 0
                 THEN /\ Goto(t, [th[t] EXCEPT !.pc = "wrap", !.on = 1])
                      /\ UNCHANGED <<mutex, olr, next, dirty>>
                 ELSE take(1)
    /\ UNCHANGED <<gemVars, sync, semaphores, gpuVars, errVars, hangcheck, retire, bounds>>

\* i915_gpu_idle for ring th.on: intel_ring_idle adds the lazy request and
\* waits for the last one
IdleRing(t) ==
    /\ At(t, "wrap")
    /\ LET r == th[t].on
           idle == UNCHANGED <<requests, hw, olr, dirty, hangcheck, retire>>
       IN  \/ wedged /\ (olr[r] # 0 \/ requests[r] # <<>>) /\ Return(t) /\ idle
           \/ ~wedged /\ olr[r] # 0 /\ AddRequest(r, Nobody) /\ UNCHANGED <<mutex, th>>
           \/ olr[r] = 0 /\ requests[r] = <<>> /\ Go(t, "wrapped") /\ UNCHANGED mutex /\ idle
           \/ /\ ~wedged /\ olr[r] = 0 /\ requests[r] # <<>>
              /\ WaitSeqno(t, r, requests[r][Len(requests[r])].s, "wrapped")
    /\ UNCHANGED <<active, ring, lastRead, lastWrite, next, sync, semaphores,
                   hws, mbox, hung, moved, irq, errVars, bounds>>

\* Mutant: only the first ring is made idle
FirstIsLast(r) == TRUE
LastRing(r) == r = NumRings

\* All rings idle: retire, forget the semaphores, restart the seqnos
Wrapped(t) ==
    /\ At(t, "wrapped")
    /\ IF ~LastRing(th[t].on)
       THEN /\ Goto(t, [th[t] EXCEPT !.pc = "wrap", !.on = @ + 1])
            /\ UNCHANGED <<gemVars, sync, next>>
       ELSE /\ Goto(t, [th[t] EXCEPT !.pc = "begin", !.on = NoRing, !.s = 0, !.then = "idle"])
            /\ Retire(Rings, {})
            /\ sync' = [r \in Rings |-> [q \in Rings |-> 0]]
            /\ next' = 1
    /\ UNCHANGED <<mutex, olr, dirty, semaphores, gpuVars, errVars, hangcheck, retire, bounds>>

\* list_move_tail: the object leaves the list it is on
Without(q, o) ==
    IF o \notin Elements(q) THEN q
    ELSE LET i == CHOOSE i \in DOMAIN q : q[i] = o IN SubSeq(q, 1, i - 1) \o SubSeq(q, i + 1, Len(q))
MoveTail(o, r) == [q \in Rings |-> IF q = r THEN Append(Without(active[q], o), o) ELSE Without(active[q], o)]

\* Mutant: an object that is active on the ring keeps its seqno
MoveToActiveOnce(o, r, w) ==
    /\ ring' = [ring EXCEPT ![o] = r]
    /\ active' = MoveTail(o, r)
    /\ lastRead' = [lastRead EXCEPT ![o] = IF ring[o] = r THEN @ ELSE olr[r]]
    /\ lastWrite' = [lastWrite EXCEPT ![o] = IF w THEN olr[r] ELSE @]

\* i915_gem_object_move_to_active, with the write of move_to_active's caller
MoveToActive(o, r, w) ==
    /\ ring' = [ring EXCEPT ![o] = r]
    /\ active' = MoveTail(o, r)
    /\ lastRead' = [lastRead EXCEPT ![o] = olr[r]]
    /\ lastWrite' = [lastWrite EXCEPT ![o] = IF w THEN olr[r] ELSE @]

\* ring_wait_for_space: retire, and if that does not help wait for the
\* oldest request and retire again
WaitForSpace(t) ==
    /\ At(t, "dispatch") /\ ~wedged /\ Len(requests[th[t].to]) >= RingRequests
    /\ LET r == th[t].to
       IN  IF Remaining({r}) # requests
           THEN /\ Retire({r}, {})
                /\ Goto(t, [th[t] EXCEPT !.on = NoRing, !.s = 0, !.then = "idle"])
                /\ UNCHANGED <<mutex, hw, olr, dirty, hangcheck, retire>>
           ELSE /\ WaitSeqno(t, r, requests[r][1].s, "dispatch")
                /\ UNCHANGED <<active, ring, lastRead, lastWrite>>
    /\ UNCHANGED <<next, sync, semaphores, hws, mbox, hung, moved, irq, errVars, bounds>>

\* Such a wait, interrupted, in the middle of a sequence of ring accesses
Interrupted(r) == Signals /\ requests[r] # <<>>

\* sync_to and dispatch_execbuffer.  A ring access between the two may fail;
\* with several cliprects there is one after the first dispatch.
Dispatch(t) ==
    /\ At(t, "dispatch")
    /\ LET r == th[t].to
           o == th[t].obj
           sem == IF th[t].sem = 0 THEN <<>> ELSE <<SemWait(th[t].from, th[t].sem)>>
           batch == <<Batch(o, th[t].write)>>
           emit(b) == /\ ~wedged /\ Len(requests[r]) < RingRequests
                      /\ hw' = [hw EXCEPT ![r] = @ \o sem \o b]
                      /\ sync' = IF sem = <<>> THEN sync
                                 ELSE [sync EXCEPT ![th[t].from][r] = lastRead[o]]
           same == UNCHANGED <<active, ring, lastRead, lastWrite>>
       IN  \/ /\ emit(batch)
              /\ MoveToActive(o, r, th[t].write)
              /\ dirty' = [dirty EXCEPT ![r] = TRUE]
              /\ Goto(t, [th[t] EXCEPT !.pc = "request", !.from = NoRing, !.sem = 0])
              /\ UNCHANGED mutex
           \/ wedged /\ UNCHANGED <<hw, sync, dirty>> /\ same /\ Return(t)
           \/ /\ Interrupted(r) /\ same /\ Return(t)
              /\ \E b \in IF Cliprects THEN {<<>>, batch} ELSE {<<>>} :
                   /\ emit(b)
                   /\ dirty' = [dirty EXCEPT ![r] = @ /\ b = <<>>]
    /\ UNCHANGED <<requests, next, olr, semaphores, hws, mbox, hung, moved, irq,
                   errVars, hangcheck, retire, bounds>>

\* i915_gem_execbuffer_retire_commands
Request(t) ==
    /\ At(t, "request") /\ Return(t)
    /\ ~wedged /\ AddRequest(th[t].to, t)
    /\ UNCHANGED <<active, ring, lastRead, lastWrite, next, sync, semaphores,
                   hws, mbox, hung, moved, irq, errVars, bounds>>

\* The ring whose lazy request thread t has to add where it is, or NoRing
Adding(t) ==
    LET o == th[t].obj
        lazy(s) == IF ring[o] # NoRing /\ s # 0 /\ s = olr[ring[o]] THEN ring[o] ELSE NoRing
    IN  CASE At(t, "request") -> th[t].to
          [] th[t].pc \in {"render", "nonblock"} -> lazy(RenderSeqno(t))
          [] At(t, "flush") -> lazy(lastRead[o])
          [] At(t, "sync") /\ semaphores /\ ring[o] \notin {NoRing, th[t].to} ->
               IF Synced(ring[o], th[t].to, lastRead[o]) THEN NoRing ELSE lazy(lastRead[o])
          [] At(t, "wrap") -> IF olr[th[t].on] = 0 THEN NoRing ELSE th[t].on
          [] OTHER -> NoRing

\* i915_add_request fails in its flush, or after it in ring->add_request: the
\* caches are then no longer dirty and there is no request.  The execbuffer
\* ignores the error, any other caller returns it.
AddFails(t) ==
    /\ Adding(t) # NoRing
    /\ wedged \/ Interrupted(Adding(t))
    /\ dirty' \in {dirty, [dirty EXCEPT ![Adding(t)] = FALSE]}
    /\ Return(t)
    /\ UNCHANGED <<gemVars, next, olr, sync, semaphores, gpuVars, errVars, hangcheck, retire, bounds>>

-----------------------------------------------------------------------------
(* Workers, timers, interrupts and the GPU                                 *)

\* Mutant: the worker does not run again
RequeueNever == FALSE
Requeue == \E r \in Rings : requests'[r] # <<>>

\* i915_gem_retire_work_handler; while the mutex is taken it comes back
\* later.  A ring with dirty caches gets a request so that it will retire; if
\* the GPU is wedged there is none, but the flush may have been before that.
RetireWork ==
    /\ retire /\ mutex = Nobody
    /\ RetireObjects(Rings, {})
    /\ LET flush == {r \in Rings : dirty[r] /\ ~wedged}
           half  == {r \in Rings : dirty[r] /\ wedged}
       IN  /\ requests' = [r \in Rings |-> IF r \in flush
                              THEN Append(Remaining(Rings)[r], [s |-> olr[r], file |-> Nobody])
                              ELSE Remaining(Rings)[r]]
           /\ hw' = [r \in Rings |-> IF r \in flush THEN Append(hw[r], Breadcrumb(olr[r])) ELSE hw[r]]
           /\ olr' = [r \in Rings |-> IF r \in flush THEN 0 ELSE olr[r]]
           /\ \E F \in SUBSET half : dirty' = [r \in Rings |-> dirty[r] /\ r \notin flush \cup F]
           /\ hangcheck' = [hangcheck EXCEPT !.armed = @ \/ (Hangcheck /\ flush # {})]
    /\ retire' = Requeue
    /\ UNCHANGED <<mutex, next, sync, semaphores, hws, mbox, hung, moved, irq, errVars, th, bounds>>

Head1(r) == hw[r][1]

\* The command streamer of ring r executes its next command.  A semaphore
\* compares strictly, with one less than the seqno waited for.
Execute(r) ==
    /\ hw[r] # <<>> /\ ~hung[r]
    /\ Head1(r).cmd = "wait" => mbox[Head1(r).from] > Head1(r).s - 1
    /\ hw' = [hw EXCEPT ![r] = Tail(@)]
    /\ moved' = TRUE
    /\ IF Head1(r).cmd = "seqno"
       THEN /\ hws' = [hws EXCEPT ![r] = Head1(r).s]
            /\ mbox' = [mbox EXCEPT ![r] = Head1(r).s]
            \* masked unless some waiter holds irq_get
            /\ irq' = [irq EXCEPT ![r] = @ \/ \E t \in Threads : th[t].pc \in Waiting /\ th[t].on = r]
       ELSE UNCHANGED <<hws, mbox, irq>>
    /\ UNCHANGED <<mutex, gemVars, seqVars, hung, errVars, hangcheck, retire, th, bounds>>

Hang(r) ==
    /\ hangs < MaxHangs /\ hw[r] # <<>> /\ ~hung[r]
    /\ hung' = [hung EXCEPT ![r] = TRUE]
    /\ hangs' = hangs + 1
    /\ UNCHANGED <<mutex, gemVars, seqVars, hw, hws, mbox, moved, irq, errVars,
                   hangcheck, retire, th, batches>>

NotifyRing(r) ==
    /\ irq[r]
    /\ irq' = [irq EXCEPT ![r] = FALSE]
    /\ th' = Woken({r})
    /\ hangcheck' = [armed |-> Hangcheck, count |-> 0]
    /\ UNCHANGED <<mutex, gemVars, seqVars, hw, hws, mbox, hung, moved, errVars, retire, bounds>>

\* i915_hangcheck_ring_idle may see: the lists are read without the mutex,
\* so a request that is being retired or reset may count or not
RingIdle(r) ==
    IF requests[r] = <<>> THEN {TRUE}
    ELSE IF Done(r, requests[r][Len(requests[r])].s) \/ (wedged /\ work.queued) THEN BOOLEAN
    ELSE {FALSE}

\* i915_hangcheck_hung: the third check without progress declares the GPU
\* wedged by i915_handle_error; a ring that could be kicked out of a wait
\* keeps the timer going.  wakes: the sleepers of the idle rings are woken.
HangcheckHung(kicked, wakes) ==
    IF hangcheck.count > 1
    THEN /\ wedged' = TRUE /\ recovered' = FALSE
         /\ work' = [work EXCEPT !.queued = TRUE]
         /\ th' = Woken(Rings)
         /\ hangcheck' = [hangcheck EXCEPT !.armed = kicked]
    ELSE /\ hangcheck' = [armed |-> TRUE, count |-> hangcheck.count + 1]
         /\ th' = wakes
         /\ UNCHANGED errVars

HangcheckElapsed ==
    /\ hangcheck.armed
    /\ \E idle \in {f \in [Rings -> BOOLEAN] : \A r \in Rings : f[r] \in RingIdle(r)},
          kicked \in BOOLEAN :
         LET quiet == {r \in Rings : idle[r]}
             err   == \E t \in Threads : At(t, "asleep") /\ th[t].on \in quiet
         IN  \/ /\ quiet = Rings /\ ~err
                /\ hangcheck' = [armed |-> FALSE, count |-> 0]
                /\ UNCHANGED <<errVars, th, moved>>
             \/ /\ IF quiet = Rings THEN err ELSE ~moved
                /\ HangcheckHung(kicked, Woken(quiet))
                /\ UNCHANGED moved
             \/ /\ quiet # Rings /\ moved
                /\ moved' = FALSE /\ th' = Woken(quiet)
                /\ hangcheck' = [armed |-> TRUE, count |-> 0]
                /\ UNCHANGED errVars
    /\ UNCHANGED <<mutex, gemVars, seqVars, hw, hws, mbox, hung, irq, retire, bounds>>

\* Mutant: the requests survive the reset
ResetListsActive ==
    /\ active' = [r \in Rings |-> <<>>]
    /\ MoveToInactive({o \in Objects : ring[o] # NoRing}, {})
    /\ UNCHANGED requests

\* i915_gem_reset: the requests are dropped, every active object retires
ResetLists ==
    /\ requests' = [r \in Rings |-> <<>>]
    /\ active' = [r \in Rings |-> <<>>]
    /\ MoveToInactive({o \in Objects : ring[o] # NoRing}, {})

\* i915_error_work_func up to the end of i915_reset: i915_gem_reset empties
\* the lists, then the chip is reset unless it hangs too fast.  The seqnos
\* in the status page and the lazy requests stay as they are.  Without
\* i915_try_reset nothing is reset, and that is a success.
ErrorWork ==
    /\ work.pc = "idle" /\ work.queued
    /\ wedged /\ TryReset => mutex = Nobody
    /\ IF ~wedged \/ ~TryReset
       THEN /\ work' = [queued |-> FALSE, pc |-> IF wedged THEN "unwedge" ELSE "idle"]
            /\ UNCHANGED <<gemVars, gpuVars>>
       ELSE /\ ResetLists
            /\ \/ /\ hw' = [r \in Rings |-> <<>>] /\ mbox' = [r \in Rings |-> 0]
                  /\ hung' = [r \in Rings |-> FALSE] /\ irq' = [r \in Rings |-> FALSE]
                  /\ moved' = TRUE
                  /\ work' = [queued |-> FALSE, pc |-> "unwedge"]
               \/ /\ UNCHANGED <<hw, mbox, hung, irq, moved>>
                  /\ work' = [queued |-> FALSE, pc |-> "complete"]
            /\ UNCHANGED hws
    /\ UNCHANGED <<mutex, seqVars, wedged, recovered, hangcheck, retire, th, bounds>>

Unwedge ==
    /\ work.pc = "unwedge"
    /\ wedged' = FALSE /\ work' = [work EXCEPT !.pc = "complete"]
    /\ UNCHANGED <<mutex, gemVars, seqVars, gpuVars, recovered, hangcheck, retire, th, bounds>>

\* Mutant: nobody is told that the reset has failed
CompleteIfReset ==
    /\ work.pc = "complete"
    /\ recovered' = (recovered \/ ~wedged) /\ work' = [work EXCEPT !.pc = "idle"]
    /\ UNCHANGED <<mutex, gemVars, seqVars, gpuVars, wedged, hangcheck, retire, th, bounds>>

CompleteAll ==
    /\ work.pc = "complete"
    /\ recovered' = TRUE /\ work' = [work EXCEPT !.pc = "idle"]
    /\ UNCHANGED <<mutex, gemVars, seqVars, gpuVars, wedged, hangcheck, retire, th, bounds>>

-----------------------------------------------------------------------------
Step(t) == \/ LockMutex(t) \/ WaitCheck(t) \/ WaitCond(t) \/ WaitSleep(t)
           \/ WaitRendering(t) \/ Rendered(t) \/ Nonblocking(t) \/ Relock(t)
           \/ Access(t) \/ FlushOlr(t) \/ FlushRetire(t)
           \/ ObjectSync(t) \/ RingBegin(t) \/ IdleRing(t) \/ Wrapped(t)
           \/ WaitForSpace(t) \/ Dispatch(t) \/ Request(t) \/ AddFails(t)

Next == \/ \E t \in Threads : \/ Start(t) \/ Throttle(t)
                              \/ Step(t) \/ WaitExpires(t) \/ WaitInterrupted(t)
        \/ \E r \in Rings : Execute(r) \/ Hang(r) \/ NotifyRing(r)
        \/ RetireWork \/ HangcheckElapsed \/ ErrorWork \/ Unwedge \/ CompleteAll

Spec == Init /\ [][Next]_vars

\* The scheduler, the timers, the taskqueue and a GPU that does not hang
\* make progress; nobody is made to start an ioctl or to hang.  A mutex or
\* work that keeps finding the mutex taken gets it in the end.
Fairness ==
    /\ \A t \in Threads : /\ WF_vars(Step(t)) /\ WF_vars(WaitExpires(t))
                          /\ SF_vars(LockMutex(t)) /\ SF_vars(Relock(t))
    /\ \A r \in Rings : WF_vars(Execute(r)) /\ WF_vars(NotifyRing(r))
    /\ SF_vars(RetireWork) /\ WF_vars(HangcheckElapsed)
    /\ SF_vars(ErrorWork) /\ WF_vars(Unwedge) /\ WF_vars(CompleteAll)

LiveSpec == Spec /\ Fairness

-----------------------------------------------------------------------------
(* Properties                                                              *)

PCs == {"idle", "lock", "sync", "begin", "wrap", "wrapped", "dispatch", "request",
        "render", "rendered", "nonblock", "relock", "access", "flush", "flushed",
        "check"} \cup Waiting

Commands == [cmd : {"batch", "wait", "seqno"}, obj : Objects \cup {NoObject},
             write : BOOLEAN, from : Rings \cup {NoRing}, s : Seqnos]

\* Types; a lazy request has no entry in the list yet, dirty caches have a
\* lazy request to flush them, and an object is on the list of its ring.
TypeOK ==
    /\ mutex \in Threads \cup {Nobody} /\ next \in Seqnos
    /\ olr \in [Rings -> Seqnos] /\ dirty \in [Rings -> BOOLEAN]
    /\ semaphores \in BOOLEAN
    /\ requests \in [Rings -> Seq([s : Seqnos \ {0}, file : Threads \cup {Nobody}])]
    /\ active \in [Rings -> Seq(Objects)]
    /\ ring \in [Objects -> Rings \cup {NoRing}]
    /\ lastRead \in [Objects -> Seqnos] /\ lastWrite \in [Objects -> Seqnos]
    /\ sync \in [Rings -> [Rings -> Seqnos]]
    /\ hw \in [Rings -> Seq(Commands)]
    /\ hws \in [Rings -> Seqnos] /\ mbox \in [Rings -> Seqnos]
    /\ hung \in [Rings -> BOOLEAN] /\ moved \in BOOLEAN /\ irq \in [Rings -> BOOLEAN]
    /\ wedged \in BOOLEAN /\ recovered \in BOOLEAN
    /\ hangcheck \in [armed : BOOLEAN, count : 0 .. 2]
    /\ work \in [queued : BOOLEAN, pc : {"idle", "unwedge", "complete"}]
    /\ retire \in BOOLEAN
    /\ th \in [Threads -> [pc : PCs, op : OpNames \cup {"none"}, obj : Objects \cup {NoObject},
                           to : Rings \cup {NoRing}, write : BOOLEAN,
                           on : Rings \cup {NoRing}, s : Seqnos, then : PCs,
                           from : Rings \cup {NoRing}, sem : Seqnos]]
    /\ batches \in 0 .. MaxBatches /\ hangs \in 0 .. MaxHangs
    /\ \A r \in Rings : dirty[r] => olr[r] # 0
    /\ \A r \in Rings : \A o \in Objects : ring[o] = r <=> o \in Elements(active[r])

Used(o)    == \E r \in Rings : \E c \in Elements(hw[r]) : c.cmd = "batch" /\ c.obj = o
Written(o) == \E r \in Rings : \E c \in Elements(hw[r]) : c.cmd = "batch" /\ c.obj = o /\ c.write

\* An inactive object can be unbound and its pages given back, so no batch
\* that is still to execute may use it (obj->active, i915_drv.h:1031).
InactiveUnused == \A o \in Objects : ring[o] = NoRing /\ ~wedged => ~Used(o)

\* Once i915_gem_object_wait_rendering has succeeded the GPU no longer uses
\* the object, or for a reader in the CPU domain, no longer writes it.
AccessSafe == \A t \in Threads : At(t, "access") /\ ~wedged =>
                IF th[t].op = "read" THEN ~Written(th[t].obj) ELSE ~Used(th[t].obj)

\* last_write_seqno is not cleared while a batch that writes the object is
\* to execute: later readers would not wait for it.
WriteTracked == \A o \in Objects : Written(o) /\ ~wedged => lastWrite[o] # 0

\* A batch waits for what other rings still do with its object: no two rings
\* are at a batch of the same object (i915_gem_object_sync).
RenderOrder == \A p, q \in Rings : \A o \in Objects :
    p # q /\ hw[p] # <<>> /\ hw[q] # <<>> =>
      ~(\A r \in {p, q} : Head1(r).cmd = "batch" /\ Head1(r).obj = o)

\* Every request in a list is done or has its breadcrumb in the command
\* stream, so whoever waits for it, maybe with struct_mutex held, is not
\* waiting for nothing; i915_gem_reset must not leave one behind.
RequestsComplete == \A r \in Rings : \A q \in Elements(requests[r]) :
    \/ Done(r, q.s)
    \/ \E c \in Elements(hw[r]) : c.cmd = "seqno" /\ c.s = q.s

\* Every active object has a request, or a lazy one, that will retire it.
ActiveTracked == \A o \in Objects : ring[o] # NoRing =>
    \/ lastRead[o] = olr[ring[o]]
    \/ \E q \in Elements(requests[ring[o]]) : q.s = lastRead[o]

\* What uses an object is known until it is over: the last write, and the request
\* that will retire it (i915_gem_object_move_to_active and the way back).
ActivityTracked == WriteTracked /\ ActiveTracked

\* The CPU gets an object when the GPU has done with it, and until then its last
\* write and the request that will retire it are known (i915_gem.c); for one ring.
ActivitySafe == TypeOK /\ AccessSafe /\ ActivityTracked

\* The seqnos have started again from 1; the mailboxes still hold numbers from before.
Restarted == next # 0 /\ \A n \in FirstSeqnos : next < n

\* An object that is not active is unused, and rings take turns at it, but for
\* rings that signal each other by mailboxes that a restart of the seqnos has
\* left as they are (i915_gem_object_move_to_inactive, i915_gem_object_sync).
RingsApart == (semaphores /\ Restarted) \/ (InactiveUnused /\ RenderOrder)

\* A wedged GPU is about to be reset or its reset has failed, so whoever is
\* in i915_gem_wait_for_error is told.
WedgeHandled == wedged => work.queued \/ work.pc # "idle" \/ recovered

\* A reset leaves no request that nobody completes and no wedged GPU that nobody
\* will reset (i915_reset, i915_error_work_func).
ResetSafe == RequestsComplete /\ WedgeHandled

\* When the seqnos restart and rings have waited for each other, nothing is
\* left that carries an old seqno.
WrapIdle == [][next = 0 /\ next' # 0 /\ (\E p, q \in Rings : sync[p][q] # 0) =>
                 \A r \in Rings : requests'[r] = <<>> /\ hw'[r] = <<>>]_vars

\* Whoever sleeps with struct_mutex held wakes up, even if the GPU hangs:
\* the reset itself needs the mutex.
MutexReleased == \A t \in Threads : mutex = t ~> mutex # t

\* A wait for a seqno ends, by its completion or by a reset.
WaitEnds == \A t \in Threads : th[t].pc \in Waiting ~> th[t].pc \notin Waiting

\* Nothing but another request on its ring will retire the object: its seqno has
\* no request and nothing is left to flush, which would make the retire work add one.
Forgotten(o) == /\ ring[o] # NoRing /\ lastRead[o] = olr[ring[o]]
                /\ ~dirty[ring[o]]

\* Active objects do not stay active for ever, as i915_gem_retire_work_handler
\* promises, but for one that is forgotten, and that is the work of a ring access
\* that failed after the flush: of i915_add_request, of an execbuffer between
\* intel_ring_invalidate_all_caches and its request, or of the worker on a wedged GPU.
GoesInactive ==
    /\ \A o \in Objects : ring[o] # NoRing ~> ring[o] = NoRing \/ Forgotten(o)
    /\ [][\A o \in Objects : Forgotten(o)' /\ ~Forgotten(o) =>
            \/ \E t \in Threads : AddFails(t) \/ RingBegin(t) \/ Dispatch(t)
            \/ RetireWork /\ wedged]_vars
=============================================================================
