------------------------------ MODULE DrmVblank ------------------------------
(***************************************************************************)
(* The vblank machinery of drm/drm_irq.c and the event queue of            *)
(* drm/drm_fops.c: the software ("cooked") vblank counter of each crtc,    *)
(* the reference count that keeps the vblank interrupt on, the delayed     *)
(* disable timer, the clients that sleep for a count, and the events that  *)
(* are queued for one and read from the file.                              *)
(*                                                                         *)
(* Grain: one action per critical section.  vbl_lock, vblank_time_lock and *)
(* event_lock are not variables; an action that the code splits between    *)
(* two sections keeps them in the state of its owner (hdl, off, pc), and   *)
(* the guards VblLockFree, TimeLockFree and EventLockFree read them there. *)
(* Time is the number of vblanks the hardware has seen: the timestamp of a *)
(* vblank is its number, and 0 is a cleared slot.                          *)
(***************************************************************************)
EXTENDS Integers, FiniteSets, TLC

CONSTANTS
    NumCrtcs,       \* dev->num_crtcs
    Files,          \* open files; each has one thread in the driver
    NoFile,         \* of an event that is free
    Events,         \* the drm_pending_vblank_events that kzalloc can return
    EventSpace,     \* file_priv->event_space, counted in events
    CountMod,       \* width of _vblank_count (2^32 in the code)
    Window,         \* 1 << 23, how far back a sequence counts as passed
    HwMod,          \* width of the frame counter of the hardware
    MaxVblankCount, \* dev->max_vblank_count
    Precise,        \* the driver has get_vblank_timestamp
    Kms,            \* a modesetting driver: disable is allowed from load on
    OffDelays,      \* whether drm_vblank_offdelay is positive: values it is given
    InitFrames,     \* frame numbers the hardware may show at load
    MaxFrame,       \* bound: vblanks of one behaviour
    MaxOffs,        \* bound: calls of drm_vblank_off
    MaxUninstalls   \* bound: calls of drm_irq_uninstall

ASSUME VblankAssumption ==
    /\ NumCrtcs \in Nat \ {0}
    /\ IsFiniteSet(Files) /\ IsFiniteSet(Events) /\ NoFile \notin Files
    /\ EventSpace \in Nat
    /\ CountMod \in Nat \ {0} /\ Window \in Nat
    /\ HwMod \in Nat \ {0} /\ MaxVblankCount \in Nat
    /\ Precise \in BOOLEAN /\ Kms \in BOOLEAN
    /\ OffDelays \subseteq BOOLEAN
    /\ InitFrames \subseteq Nat \ {0}
    /\ MaxFrame \in Nat /\ MaxOffs \in Nat /\ MaxUninstalls \in Nat

Crtcs  == 0 .. NumCrtcs - 1
NoCrtc == NumCrtcs
Counts == 0 .. CountMod - 1
RB     == 2                       \* DRM_VBLANKTIME_RBSIZE

VARIABLES
    frame,        \* hardware: vblanks seen so far by each crtc
    irqPending,   \* hardware: a vblank interrupt waits for its handler
    count,        \* dev->_vblank_count
    refcount,     \* dev->vblank_refcount
    enabled,      \* dev->vblank_enabled
    last,         \* dev->last_vblank
    time,         \* dev->_vblank_time, a ring of RB slots per crtc
    inmodeset,    \* dev->vblank_inmodeset: 0, 1 or 3
    allowed,      \* dev->vblank_disable_allowed
    irqEnabled,   \* dev->irq_enabled
    timer,        \* vblank_disable_timer is pending
    scan,         \* next crtc of a running vblank_disable_fn, or NoCrtc
    hdl,          \* crtc whose interrupt handler is about to send events
    off,          \* crtc whose drm_vblank_off is about to send events
    uninst,       \* drm_irq_uninstall has cleared irq_enabled only
    flip,         \* a page flip holds a reference on the crtc
    offdelay,     \* drm_vblank_offdelay > 0: idle interrupts are turned off
    ev,           \* the events: free, queued on a crtc, ready, or being made
    space,        \* file_priv->event_space
    pc, req,      \* where the thread of each file is, and its request
    offs, uninsts \* bounds' counters

hwVars     == <<frame, irqPending>>
countVars  == <<count, last, time>>
devVars    == <<inmodeset, allowed, irqEnabled, flip, offdelay>>
timerVars  == <<timer, scan>>
lockVars   == <<hdl, off, uninst>>
eventVars  == <<ev, space>>
clientVars == <<pc, req>>
boundVars  == <<offs, uninsts>>
vars == <<hwVars, countVars, refcount, enabled, devVars, timerVars, lockVars,
          eventVars, clientVars, boundVars>>


Event(st, c, f, s) == [st |-> st, pipe |-> c, file |-> f, seq |-> s]
FreeEvent     == Event("free", 0, NoFile, 0)
ReadyEvent(f) == Event("ready", 0, f, 0)
Queued(c) == {e \in Events : ev[e].st = "queued" /\ ev[e].pipe = c}
OwnedBy(f) == {e \in Events : ev[e].st \in {"queued", "ready"} /\ ev[e].file = f}

\* Mutant: vblank_time_lock is dropped before msleep has queued the thread.
TimeLockDroppedEarly == hdl = NoCrtc

VblLockFree   == off = NoCrtc
TimeLockFree  == hdl = NoCrtc /\ \A f \in Files : pc[f] # "slpq"
EventLockFree == \A f \in Files : pc[f] # "commit"

\* seq - req <= (1 << 23) in u32 arithmetic.
Passed(seq, r) == (seq - r) % CountMod <= Window

HwCounter(c) == frame[c] % HwMod
Wake(S) == pc' = [f \in Files |-> IF pc[f] = "sleep" /\ f \in S THEN "check" ELSE pc[f]]
Waiting(C) == {f \in Files : req[f].crtc \in C}

-----------------------------------------------------------------------------
(* Reference counting.                                                      *)

\* Mutant: a put that never arms the disable timer.
PutNoTimer(c, n) ==
    /\ refcount' = [refcount EXCEPT ![c] = @ - n]
    /\ timer' = timer

\* drm_vblank_put, n times on crtc c: the last user arms the disable timer.
Put(c, n) ==
    /\ refcount' = [refcount EXCEPT ![c] = @ - n]
    /\ timer' = (timer \/ (n > 0 /\ refcount[c] = n /\ offdelay))

\* drm_update_vblank_count: frames missed while the interrupt was off.
UpdateCount(c) ==
    LET cur  == HwCounter(c)
        diff == cur - last[c] + (IF cur < last[c] THEN MaxVblankCount ELSE 0)
        cnt  == (count[c] + diff) % CountMod
    IN  /\ count' = [count EXCEPT ![c] = cnt]
        /\ time' = IF Precise THEN [time EXCEPT ![c][cnt % RB] = frame[c]] ELSE time
        /\ last' = last

\* drm_vblank_get succeeds.  0 -> 1 turns the interrupt on if it is off.
GetOk(c) ==
    /\ VblLockFree
    /\ refcount' = [refcount EXCEPT ![c] = @ + 1]
    /\ \/ /\ refcount[c] = 0 /\ ~enabled[c] /\ TimeLockFree
          /\ enabled' = [enabled EXCEPT ![c] = TRUE]
          /\ UpdateCount(c)
       \/ /\ refcount[c] = 0 /\ enabled[c] /\ TimeLockFree
          /\ UNCHANGED <<enabled, countVars>>
       \/ /\ refcount[c] # 0 /\ enabled[c]
          /\ UNCHANGED <<enabled, countVars>>

\* drm_vblank_get fails: the driver cannot enable the interrupt, or another
\* user holds a reference while the interrupt is off.
GetFails(c) ==
    /\ VblLockFree
    /\ refcount[c] = 0 => TimeLockFree
    /\ ~enabled[c]
    /\ UNCHANGED <<refcount, enabled, countVars>>

\* Mutant: a vblank whose interrupt was not handled yet is not counted.
DisableForgetsMissed(c) ==
    /\ TimeLockFree
    /\ enabled' = [enabled EXCEPT ![c] = FALSE]
    /\ last' = [last EXCEPT ![c] = HwCounter(c)]
    /\ time' = [time EXCEPT ![c] = [i \in 0 .. RB - 1 |-> 0]]
    /\ UNCHANGED count

\* vblank_disable_and_save: turn the interrupt off; if a vblank has begun
\* whose interrupt was not handled, count it here.
DisableAndSave(c) ==
    LET missed == Precise /\ frame[c] # time[c][count[c] % RB]
    IN  /\ TimeLockFree
        /\ enabled' = [enabled EXCEPT ![c] = FALSE]
        /\ last' = [last EXCEPT ![c] = HwCounter(c)]
        /\ count' = [count EXCEPT ![c] = IF missed THEN (@ + 1) % CountMod ELSE @]
        /\ time' = [time EXCEPT ![c] = [i \in 0 .. RB - 1 |-> 0]]

\* send_vblank_event for a set of events.
Send(S) == ev' = [e \in Events |-> IF e \in S THEN ReadyEvent(ev[e].file) ELSE ev[e]]

-----------------------------------------------------------------------------
(* The hardware and its interrupt.                                          *)

\* A vblank begins.  The handler is assumed to keep up with the refresh rate.
Vblank(c) ==
    /\ frame[c] < MaxFrame
    /\ enabled[c] => ~irqPending[c]
    /\ frame' = [frame EXCEPT ![c] = @ + 1]
    /\ irqPending' = [irqPending EXCEPT ![c] = @ \/ enabled[c]]
    /\ UNCHANGED <<countVars, refcount, enabled, devVars, timerVars, lockVars,
                   eventVars, clientVars, boundVars>>

\* drm_handle_vblank up to drm_handle_vblank_events: count and wake.  An
\* interrupt for a vblank already counted is redundant.
HandleVblank(c) ==
    /\ irqPending[c] /\ TimeLockFree
    /\ irqPending' = [irqPending EXCEPT ![c] = FALSE]
    /\ IF ~enabled[c]
       THEN UNCHANGED <<countVars, hdl, pc>>
       ELSE /\ IF Precise /\ frame[c] = time[c][count[c] % RB]
               THEN UNCHANGED countVars
               ELSE LET cnt == (count[c] + 1) % CountMod
                    IN  /\ count' = [count EXCEPT ![c] = cnt]
                        /\ time' = [time EXCEPT ![c][cnt % RB] = frame[c]]
                        /\ last' = last
            /\ hdl' = c
            /\ Wake(Waiting({c}))
    /\ UNCHANGED <<frame, refcount, enabled, devVars, timerVars, off, uninst,
                   eventVars, req, boundVars>>

\* Mutant: the handler does not take event_lock.
SendsUnlocked ==
    /\ hdl # NoCrtc
    /\ LET due == {e \in Queued(hdl) : Passed(count[hdl], ev[e].seq)}
       IN  Send(due) /\ Put(hdl, Cardinality(due))
    /\ hdl' = NoCrtc
    /\ UNCHANGED <<hwVars, countVars, enabled, devVars, scan, off, uninst, space,
                   clientVars, boundVars>>

\* drm_handle_vblank_events: send what has passed.
HandleVblankEvents ==
    /\ hdl # NoCrtc /\ EventLockFree
    /\ LET due == {e \in Queued(hdl) : Passed(count[hdl], ev[e].seq)}
       IN  Send(due) /\ Put(hdl, Cardinality(due))
    /\ hdl' = NoCrtc
    /\ UNCHANGED <<hwVars, countVars, enabled, devVars, scan, off, uninst, space,
                   clientVars, boundVars>>

-----------------------------------------------------------------------------
(* The delayed disable.                                                     *)

\* The timer fires and vblank_disable_fn starts, unless it is not allowed to.
TimerFires ==
    /\ timer /\ scan = NoCrtc
    /\ timer' = FALSE
    /\ scan' = IF allowed THEN 0 ELSE NoCrtc
    /\ UNCHANGED <<hwVars, countVars, refcount, enabled, devVars, lockVars, eventVars,
                   clientVars, boundVars>>

\* One round of the loop of vblank_disable_fn, under vbl_lock.
DisableFn ==
    /\ scan # NoCrtc /\ VblLockFree
    /\ IF refcount[scan] = 0 /\ enabled[scan]
       THEN DisableAndSave(scan)
       ELSE UNCHANGED <<enabled, countVars>>
    /\ scan' = scan + 1
    /\ UNCHANGED <<hwVars, refcount, devVars, timer, lockVars, eventVars, clientVars,
                   boundVars>>

-----------------------------------------------------------------------------
(* Kernel callers.                                                          *)

\* drm_vblank_off: disable, then (without vblank_time_lock) wake and send.
VblankOff(c) ==
    /\ offs < MaxOffs /\ offs' = offs + 1
    /\ VblLockFree
    /\ DisableAndSave(c)
    /\ off' = c
    /\ UNCHANGED <<hwVars, refcount, devVars, timerVars, hdl, uninst, eventVars,
                   clientVars, uninsts>>

\* Mutant: the events of the other crtcs are sent too ("e->pipe != crtc" lost).
OffSendsAllPipes ==
    /\ off # NoCrtc /\ EventLockFree
    /\ Wake(Waiting({off}))
    /\ LET all == UNION {Queued(c) : c \in Crtcs} IN Send(all) /\ Put(off, Cardinality(all))
    /\ off' = NoCrtc
    /\ UNCHANGED <<hwVars, countVars, enabled, devVars, scan, hdl, uninst, space,
                   req, boundVars>>

VblankOffSends ==
    /\ off # NoCrtc /\ EventLockFree
    /\ Wake(Waiting({off}))
    /\ Send(Queued(off)) /\ Put(off, Cardinality(Queued(off)))
    /\ off' = NoCrtc
    /\ UNCHANGED <<hwVars, countVars, enabled, devVars, scan, hdl, uninst, space,
                   req, boundVars>>

PreModeset(c) ==
    /\ inmodeset[c] = 0
    /\ \/ GetOk(c)    /\ inmodeset' = [inmodeset EXCEPT ![c] = 3]
       \/ GetFails(c) /\ inmodeset' = [inmodeset EXCEPT ![c] = 1]
    /\ UNCHANGED <<hwVars, allowed, irqEnabled, flip, offdelay, timerVars, lockVars,
                   eventVars, clientVars, boundVars>>

\* Mutant: the reference is given back even if drm_vblank_get had failed.
PostModesetAlwaysPuts(c) ==
    /\ inmodeset[c] # 0 /\ VblLockFree
    /\ allowed' = TRUE
    /\ Put(c, 1)
    /\ inmodeset' = [inmodeset EXCEPT ![c] = 0]
    /\ UNCHANGED <<hwVars, countVars, enabled, irqEnabled, flip, offdelay, scan,
                   lockVars, eventVars, clientVars, boundVars>>

PostModeset(c) ==
    /\ inmodeset[c] # 0 /\ VblLockFree
    /\ allowed' = TRUE
    /\ IF inmodeset[c] = 3 THEN Put(c, 1) ELSE UNCHANGED <<refcount, timer>>
    /\ inmodeset' = [inmodeset EXCEPT ![c] = 0]
    /\ UNCHANGED <<hwVars, countVars, enabled, irqEnabled, flip, offdelay, scan,
                   lockVars, eventVars, clientVars, boundVars>>

\* A page flip holds a reference from its request to its completion.
FlipGet(c) ==
    /\ ~flip[c] /\ GetOk(c)
    /\ flip' = [flip EXCEPT ![c] = TRUE]
    /\ UNCHANGED <<hwVars, inmodeset, allowed, irqEnabled, offdelay, timerVars,
                   lockVars, eventVars, clientVars, boundVars>>

FlipPut(c) ==
    /\ flip[c] /\ EventLockFree
    /\ Put(c, 1)
    /\ flip' = [flip EXCEPT ![c] = FALSE]
    /\ UNCHANGED <<hwVars, countVars, enabled, inmodeset, allowed, irqEnabled, offdelay,
                   scan, lockVars, eventVars, clientVars, boundVars>>

\* drm_irq_uninstall: irq_enabled goes under struct_mutex, the rest under vbl_lock
\* but not under vblank_time_lock; all of it also when irq_enabled was 0 already.
IrqUninstall ==
    /\ ~uninst
    /\ uninsts < MaxUninstalls /\ uninsts' = uninsts + 1
    /\ irqEnabled' = FALSE /\ uninst' = TRUE
    /\ UNCHANGED <<hwVars, countVars, refcount, enabled, inmodeset, allowed, flip,
                   offdelay, timerVars, hdl, off, eventVars, clientVars, offs>>

IrqUninstallOff ==
    /\ uninst /\ VblLockFree
    /\ Wake(Files)
    /\ enabled' = [c \in Crtcs |-> FALSE]
    /\ last' = [c \in Crtcs |-> HwCounter(c)]
    /\ uninst' = FALSE
    /\ UNCHANGED <<hwVars, count, time, refcount, devVars, timerVars, hdl, off,
                   eventVars, req, boundVars>>

IrqInstall ==
    /\ ~irqEnabled /\ ~uninst
    /\ irqEnabled' = TRUE
    /\ UNCHANGED <<hwVars, countVars, refcount, enabled, inmodeset, allowed, flip,
                   offdelay, timerVars, lockVars, eventVars, clientVars, boundVars>>

\* The sysctl vblank_offdelay is set to 0, which leaves idle interrupts on, or back.
SetOffDelay ==
    /\ offdelay' \in OffDelays \ {offdelay}
    /\ UNCHANGED <<hwVars, countVars, refcount, enabled, inmodeset, allowed, irqEnabled,
                   flip, timerVars, lockVars, eventVars, clientVars, boundVars>>

-----------------------------------------------------------------------------
(* Clients.                                                                 *)

Goto(f, l) == pc' = [pc EXCEPT ![f] = l]
Request(c, s, next) == [crtc |-> c, seq |-> s, nextonmiss |-> next]
NoReq == Request(0, 0, FALSE)
\* The ioctl returns and its locals are gone.
Return(f) == Goto(f, "idle") /\ req' = [req EXCEPT ![f] = NoReq]

\* request.sequence, after _DRM_VBLANK_NEXTONMISS has been applied at count n.
Target(r, n) == IF r.nextonmiss /\ Passed(n, r.seq) THEN (n + 1) % CountMod ELSE r.seq

\* drm_wait_vblank is called; irq_enabled is read without a lock.
WaitVblank(f) ==
    /\ pc[f] = "idle" /\ irqEnabled
    /\ Goto(f, "get")
    /\ UNCHANGED <<hwVars, countVars, refcount, enabled, devVars, timerVars, lockVars,
                   eventVars, req, boundVars>>

\* drm_vblank_get for a request; a blocking one then fixes its target.
WaitGet(f) ==
    /\ pc[f] = "get"
    /\ \E c \in Crtcs :
         \/ /\ GetOk(c)
            /\ \E s \in Counts, next \in BOOLEAN :
                 LET r == Request(c, s, next)
                 IN  /\ s <= MaxFrame
                     /\ \/ /\ Goto(f, "queue")
                           /\ req' = [req EXCEPT ![f] = r]
                        \/ /\ Goto(f, "check")
                           /\ req' = [req EXCEPT ![f] =
                                        Request(c, Target(r, count'[c]), FALSE)]
         \/ GetFails(c) /\ Return(f)
    /\ UNCHANGED <<hwVars, devVars, timerVars, lockVars, eventVars, boundVars>>

\* The loop condition, under vblank_time_lock; a sleeper keeps the lock until
\* msleep has put it on the queue (pc = "slpq").
WaitCheck(f) ==
    /\ pc[f] = "check" /\ TimeLockFree
    /\ Goto(f, IF Passed(count[req[f].crtc], req[f].seq) \/ ~irqEnabled
               THEN "put" ELSE "slpq")
    /\ UNCHANGED <<hwVars, countVars, refcount, enabled, devVars, timerVars, lockVars,
                   eventVars, req, boundVars>>

WaitSleep(f) ==
    /\ pc[f] = "slpq"
    /\ Goto(f, "sleep")
    /\ UNCHANGED <<hwVars, countVars, refcount, enabled, devVars, timerVars, lockVars,
                   eventVars, req, boundVars>>

\* Mutant: a timed out wait is tried again.
TimeoutRetries(f) ==
    /\ pc[f] = "sleep"
    /\ Goto(f, "check")
    /\ UNCHANGED <<hwVars, countVars, refcount, enabled, devVars, timerVars, lockVars,
                   eventVars, req, boundVars>>

\* msleep returns with an error: the three seconds are over, or a signal.
WaitTimeout(f) ==
    /\ pc[f] = "sleep"
    /\ Goto(f, "put")
    /\ UNCHANGED <<hwVars, countVars, refcount, enabled, devVars, timerVars, lockVars,
                   eventVars, req, boundVars>>

WaitPut(f) ==
    /\ pc[f] = "put"
    /\ Put(req[f].crtc, 1)
    /\ Return(f)
    /\ UNCHANGED <<hwVars, countVars, enabled, devVars, scan, lockVars, eventVars,
                   boundVars>>

\* drm_queue_vblank_event takes event_lock, claims room and reads the count;
\* it backs out without memory or room.
QueueRead(f) ==
    /\ pc[f] = "queue"
    /\ LET n == count[req[f].crtc]
       IN  \/ /\ Goto(f, "put") /\ UNCHANGED <<eventVars, req>>
           \/ /\ EventLockFree /\ space[f] > 0
              /\ \E e \in Events :
                   /\ ev[e].st = "free"
                   /\ ev' = [ev EXCEPT ![e] =
                               Event("new", req[f].crtc, f, Target(req[f], n))]
              /\ space' = [space EXCEPT ![f] = @ - 1]
              /\ req' = [req EXCEPT ![f] = Request(req[f].crtc, n, FALSE)]
              /\ Goto(f, "commit")
    /\ UNCHANGED <<hwVars, countVars, refcount, enabled, devVars, timerVars, lockVars,
                   boundVars>>

\* Mutant: the reference is dropped with the ioctl, not with the event.
CommitPutsAlways(f) ==
    /\ pc[f] = "commit"
    /\ \E e \in Events :
         /\ ev[e].st = "new" /\ ev[e].file = f
         /\ IF Passed(req[f].seq, ev[e].seq)
            THEN Send({e})
            ELSE ev' = [ev EXCEPT ![e] = Event("queued", ev[e].pipe, f, ev[e].seq)]
    /\ Put(req[f].crtc, 1)
    /\ Return(f)
    /\ UNCHANGED <<hwVars, countVars, enabled, devVars, scan, lockVars, space, boundVars>>

\* The event is sent at once, or left for the interrupt handler.
QueueCommit(f) ==
    /\ pc[f] = "commit"
    /\ \E e \in Events :
         /\ ev[e].st = "new" /\ ev[e].file = f
         /\ IF Passed(req[f].seq, ev[e].seq)
            THEN Send({e}) /\ Put(req[f].crtc, 1)
            ELSE /\ ev' = [ev EXCEPT ![e] = Event("queued", ev[e].pipe, f, ev[e].seq)]
                 /\ UNCHANGED <<refcount, timer>>
    /\ Return(f)
    /\ UNCHANGED <<hwVars, countVars, enabled, devVars, scan, lockVars, space, boundVars>>

\* Mutant: the room of a read event is not given back.
ReadKeepsSpace(f) ==
    /\ pc[f] = "idle" /\ EventLockFree
    /\ \E e \in Events :
         /\ ev[e].st = "ready" /\ ev[e].file = f
         /\ ev' = [ev EXCEPT ![e] = FreeEvent]
    /\ UNCHANGED <<hwVars, countVars, refcount, enabled, devVars, timerVars, lockVars,
                   space, clientVars, boundVars>>

\* drm_read / drm_dequeue_event.
Read(f) ==
    /\ pc[f] = "idle" /\ EventLockFree
    /\ \E e \in Events :
         /\ ev[e].st = "ready" /\ ev[e].file = f
         /\ ev' = [ev EXCEPT ![e] = FreeEvent]
         /\ space' = [space EXCEPT ![f] = @ + 1]
    /\ UNCHANGED <<hwVars, countVars, refcount, enabled, devVars, timerVars, lockVars,
                   clientVars, boundVars>>

\* Mutant: the references of the events that are destroyed are forgotten.
CloseKeepsRefs(f) ==
    /\ pc[f] = "idle" /\ EventLockFree
    /\ ev' = [e \in Events |-> IF e \in OwnedBy(f) THEN FreeEvent ELSE ev[e]]
    /\ space' = [space EXCEPT ![f] = EventSpace]
    /\ UNCHANGED <<hwVars, countVars, refcount, enabled, devVars, timerVars, lockVars,
                   clientVars, boundVars>>

\* drm_events_release on close; the file is then free to be opened again,
\* with all its event space.
Close(f) ==
    LET mine(c) == {e \in Queued(c) : ev[e].file = f}
    IN  /\ pc[f] = "idle" /\ EventLockFree
        /\ ev' = [e \in Events |-> IF e \in OwnedBy(f) THEN FreeEvent ELSE ev[e]]
        /\ refcount' = [c \in Crtcs |-> refcount[c] - Cardinality(mine(c))]
        /\ timer' = (timer \/ \E c \in Crtcs : mine(c) # {}
                                              /\ refcount[c] = Cardinality(mine(c)) /\ offdelay)
        /\ space' = [space EXCEPT ![f] = EventSpace]
        /\ UNCHANGED <<hwVars, countVars, enabled, devVars, scan, lockVars, clientVars,
                       boundVars>>

-----------------------------------------------------------------------------
Init ==
    /\ frame \in [Crtcs -> InitFrames]
    /\ irqPending = [c \in Crtcs |-> FALSE]
    /\ count = [c \in Crtcs |-> 0] /\ last = [c \in Crtcs |-> 0]
    /\ refcount = [c \in Crtcs |-> 0]
    /\ enabled = [c \in Crtcs |-> FALSE]
    /\ time = [c \in Crtcs |-> [i \in 0 .. RB - 1 |-> 0]]
    /\ inmodeset = [c \in Crtcs |-> 0]
    /\ allowed = Kms
    /\ irqEnabled \in BOOLEAN
    /\ timer = FALSE /\ scan = NoCrtc
    /\ hdl = NoCrtc /\ off = NoCrtc /\ uninst = FALSE
    /\ flip = [c \in Crtcs |-> FALSE] /\ offdelay \in OffDelays
    /\ ev = [e \in Events |-> FreeEvent]
    /\ space = [f \in Files |-> EventSpace]
    /\ pc = [f \in Files |-> "idle"]
    /\ req = [f \in Files |-> NoReq]
    /\ offs = 0 /\ uninsts = 0

Hardware(c) == Vblank(c) \/ HandleVblank(c)
Kernel(c)   == VblankOff(c) \/ PreModeset(c) \/ PostModeset(c) \/ FlipGet(c) \/ FlipPut(c)
Device      == HandleVblankEvents \/ TimerFires \/ DisableFn \/ VblankOffSends
               \/ IrqUninstall \/ IrqUninstallOff \/ IrqInstall \/ SetOffDelay
Wait(f)     == WaitCheck(f) \/ WaitSleep(f) \/ WaitTimeout(f) \/ WaitPut(f)
Queue(f)    == QueueRead(f) \/ QueueCommit(f)
Client(f)   == WaitVblank(f) \/ WaitGet(f) \/ Wait(f) \/ Queue(f) \/ Read(f) \/ Close(f)

Next ==
    \/ \E c \in Crtcs : Hardware(c) \/ Kernel(c)
    \/ Device
    \/ \E f \in Files : Client(f)

Spec == Init /\ [][Next]_vars

\* Fairness: vblanks keep coming, the interrupt and timer machinery and the
\* threads inside the driver are scheduled, and a thread that waits for one of
\* the mutexes gets it some time.  Callers from outside need not call.
Fairness ==
    /\ \A c \in Crtcs : WF_vars(Vblank(c)) /\ SF_vars(HandleVblank(c))
    /\ SF_vars(HandleVblankEvents) /\ SF_vars(DisableFn) /\ SF_vars(VblankOffSends)
    /\ SF_vars(IrqUninstallOff) /\ WF_vars(TimerFires)
    /\ \A f \in Files : SF_vars(Wait(f)) /\ WF_vars(Queue(f))

FairSpec == Spec /\ Fairness

-----------------------------------------------------------------------------
(* Properties.                                                              *)

TypeOK ==
    /\ frame \in [Crtcs -> Nat] /\ irqPending \in [Crtcs -> BOOLEAN]
    /\ count \in [Crtcs -> Counts]
    /\ last \in [Crtcs -> Nat]
    /\ time \in [Crtcs -> [0 .. RB - 1 -> Nat]]
    /\ refcount \in [Crtcs -> Nat]
    /\ enabled \in [Crtcs -> BOOLEAN] /\ flip \in [Crtcs -> BOOLEAN]
    /\ inmodeset \in [Crtcs -> {0, 1, 3}]
    /\ allowed \in BOOLEAN /\ irqEnabled \in BOOLEAN /\ uninst \in BOOLEAN
    /\ timer \in BOOLEAN /\ offdelay \in BOOLEAN
    /\ scan \in 0 .. NumCrtcs /\ hdl \in 0 .. NumCrtcs /\ off \in 0 .. NumCrtcs
    /\ ev \in [Events -> [st : {"free", "new", "queued", "ready"}, pipe : Crtcs,
                          file : Files \cup {NoFile}, seq : Counts]]
    /\ space \in [Files -> 0 .. EventSpace]
    /\ pc \in [Files -> {"idle", "get", "check", "slpq", "sleep", "put", "queue",
                         "commit"}]
    /\ req \in [Files -> [crtc : Crtcs, seq : Counts, nextonmiss : BOOLEAN]]
    /\ offs \in Nat /\ uninsts \in Nat

One(b) == IF b THEN 1 ELSE 0
ClientHolds(c) == {f \in Files : pc[f] \notin {"idle", "get"} /\ req[f].crtc = c}

\* Every reference on a crtc has exactly one owner: a client between get and
\* put, a queued event, a mode set or a page flip.  A leaked reference keeps
\* the interrupt on for ever, a lost one turns it off under a waiter.
RefAccounting ==
    \A c \in Crtcs : refcount[c] = Cardinality(ClientHolds(c)) + Cardinality(Queued(c))
                                   + One(inmodeset[c] = 3) + One(flip[c])

\* A queued event whose sequence has passed is about to be sent: no event is
\* left behind by an interrupt or a vblank_off that ran while it was queued.
NoMissedEvent ==
    \A c \in Crtcs : \A e \in Queued(c) :
        Passed(count[c], ev[e].seq) => hdl = c \/ off = c

\* A client sleeps only while its count has not come: the wakeup of
\* drm_handle_vblank is never lost (that of drm_vblank_off is about to come).
NoLostWakeup ==
    \A f \in Files : pc[f] = "sleep" =>
        LET c == req[f].crtc IN Passed(count[c], req[f].seq) => off = c

\* file_priv->event_space and the events that occupy it add up.
SpaceAccounting ==
    \A f \in Files : space[f] + Cardinality(OwnedBy(f)) + One(pc[f] = "commit") = EventSpace

\* The interrupt of c is on, nobody uses it, and no timer or scan will turn it off.
LeftOn(c) == enabled[c] /\ refcount[c] = 0 /\ allowed /\ ~timer /\ scan > c

\* drm_irq.c:1052: an interrupt that nobody uses is turned off some time.  Only the
\* put of a last user while vblank_offdelay is 0 leaves one on with no timer.
IdleIsTimed == [][\A c \in Crtcs : LeftOn(c)' => LeftOn(c) \/ ~offdelay]_vars

\* The software counter is the number of vblanks, whatever was missed while
\* the interrupt was off, and however disable and enable race with it.
CountExact ==
    \A c \in Crtcs : enabled[c] /\ ~irqPending[c] => count[c] = frame[c] % CountMod

\* A client that sleeps for a vblank comes back.
WaitReturns == \A f \in Files : pc[f] = "sleep" ~> pc[f] = "idle"

\* drm_irq.c:1339: "must hold on to the vblank ref until the event fires", and
\* it does fire, once the hardware gets there.
EventFires ==
    \A e \in Events :
        (ev[e].st = "queued" /\ ev[e].seq <= MaxFrame) ~> ev[e].st # "queued"

\* Files and events are only compared: renaming them changes nothing.
Symmetry == Permutations(Files) \cup Permutations(Events)

=============================================================================
