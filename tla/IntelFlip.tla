------------------------------ MODULE IntelFlip ------------------------------
(***************************************************************************)
(* Page flips of one crtc (intel_display.c, i915_irq.c): the caller that   *)
(* queues a flip on the ring, the interrupt handler that completes it, the *)
(* worker that unpins the old framebuffer, and the display hardware, which *)
(* takes a new address at the next vertical blank.  Only one thread is in  *)
(* a call (mode_config.mutex); struct_mutex is `mutex`.                    *)
(***************************************************************************)
EXTENDS Integers, Sequences, FiniteSets

CONSTANTS FlipGens,    \* "gen3" | "gen4" | "ilk": how a flip is reported
          FlipFbs, FlipFiles, MaxMishaps, None

VARIABLES gen, crtc, user, work, queue, count, bit, pins, vref, mutex, hw, irq, open, astray
flipVars == <<gen, crtc, user, work, queue, count, bit, pins, vref, mutex, hw, irq, open, astray>>

FlipAssumption == FlipGens \subseteq {"gen3", "gen4", "ilk"} /\ MaxMishaps \in Nat

FlipCall == {"flush", "lock", "queue", "emit", "advance", "undo"}
Outside == [pc |-> "idle", fb |-> None, old |-> None, seen |-> FALSE]
NoWork == [old |-> None, new |-> None, file |-> None, pending |-> 0, check |-> FALSE]
Calm == [pc |-> "idle", flip |-> {}, vbl |-> FALSE, masked |-> TRUE]
FlipInit ==
    /\ gen \in FlipGens /\ crtc = [on |-> FALSE, fb |-> None] /\ work = NoWork /\ queue = <<>> /\ count = 0
    /\ user = Outside
    /\ bit = [f \in FlipFbs |-> FALSE] /\ pins = [f \in FlipFbs |-> 0] /\ vref = 0 /\ mutex = None
    /\ hw = [ring |-> <<>>, surf |-> None, scan |-> None, flip |-> {}, vbl |-> FALSE, due |-> {}]
    /\ irq = Calm /\ open = [f \in FlipFiles |-> "open"] /\ astray = {}

At(pc) == user.pc = pc
Returns == user' = Outside
Goes(pc) == user' = [user EXCEPT !.pc = pc]
Holds(who) == mutex = None /\ mutex' = who
------------------------------------------------------------------------------
\* intel_crtc_page_flip.  The crtc has one flip at a time.
FlipStart(file, fb) ==
    /\ At("idle") /\ open[file] = "open" /\ crtc.fb # None /\ crtc.on /\ work = NoWork
    /\ work' = [NoWork EXCEPT !.old = crtc.fb, !.new = fb, !.file = file]
    /\ vref' = vref + 1
    /\ user' = [user EXCEPT !.pc = "flush", !.fb = fb]
    /\ UNCHANGED <<gen, crtc, queue, count, bit, pins, mutex, hw, irq, open, astray>>
\* With two old framebuffers to unpin the caller waits for the worker,
FlipFlush ==
    /\ At("flush") /\ (count < 2 \/ queue = <<>>)
    /\ Goes("lock")
    /\ UNCHANGED <<gen, crtc, work, queue, count, bit, pins, vref, mutex, hw, irq, open, astray>>
\* takes the lock unless a signal comes, and shows the new framebuffer to the
\* rest of the driver
FlipLock ==
    /\ At("lock") /\ Holds("user")
    /\ crtc' = [crtc EXCEPT !.fb = user.fb]
    /\ bit' = [bit EXCEPT ![work.old] = TRUE]
    /\ count' = count + 1
    /\ work' = [work EXCEPT !.check = TRUE]
    /\ Goes("queue")
    /\ UNCHANGED <<gen, queue, pins, vref, hw, irq, open, astray>>
FlipSignal ==
    /\ At("lock") /\ Goes("undo")
    /\ UNCHANGED <<gen, crtc, work, queue, count, bit, pins, vref, mutex, hw, irq, open, astray>>
\* before the flip is pinned,
PinFlip ==
    /\ At("queue") /\ Goes("emit")
    /\ pins' = [pins EXCEPT ![work.new] = @ + 1]
    /\ UNCHANGED <<gen, crtc, work, queue, count, bit, vref, mutex, hw, irq, open, astray>>
\* written into the ring and marked,
MarkActive ==
    /\ At("emit") /\ Goes("advance")
    /\ work' = [work EXCEPT !.pending = 1]
    /\ UNCHANGED <<gen, crtc, queue, count, bit, pins, vref, mutex, hw, irq, open, astray>>
\* and given to the hardware.
QueueFlip ==
    /\ At("advance")
    /\ hw' = [hw EXCEPT !.ring = Append(@, user.fb)]
    /\ mutex' = None /\ Returns
    /\ UNCHANGED <<gen, crtc, work, queue, count, bit, pins, vref, irq, open, astray>>
\* The pin or the ring may fail.
QueueFailsBitLeft ==    \* (mutant: the old framebuffer stays marked)
    /\ user.pc \in {"queue", "emit"}
    /\ pins' = IF At("emit") THEN [pins EXCEPT ![work.new] = @ - 1] ELSE pins
    /\ crtc' = [crtc EXCEPT !.fb = work.old]
    /\ count' = count - 1
    /\ mutex' = None /\ Goes("undo")
    /\ UNCHANGED <<gen, work, queue, bit, vref, hw, irq, open, astray>>
QueueFails ==
    /\ user.pc \in {"queue", "emit"}
    /\ pins' = IF At("emit") THEN [pins EXCEPT ![work.new] = @ - 1] ELSE pins
    /\ crtc' = [crtc EXCEPT !.fb = work.old]
    /\ bit' = [bit EXCEPT ![work.old] = FALSE]
    /\ count' = count - 1
    /\ mutex' = None /\ Goes("undo")
    /\ UNCHANGED <<gen, work, queue, vref, hw, irq, open, astray>>
FlipUndo ==
    /\ At("undo")
    /\ work' = NoWork /\ vref' = vref - 1 /\ Returns
    /\ UNCHANGED <<gen, crtc, queue, count, bit, pins, mutex, hw, irq, open, astray>>

\* intel_pipe_set_base, which waits for flips away from the framebuffer shown
\* now, writes the address register itself, which is reported like a flip, and waits
\* for a vertical blank.
BaseStart(fb) ==
    /\ At("idle") /\ crtc.on /\ Holds("user")
    /\ pins' = [pins EXCEPT ![fb] = @ + 1]
    /\ user' = [user EXCEPT !.pc = "base", !.fb = fb]
    /\ UNCHANGED <<gen, crtc, work, queue, count, bit, vref, hw, irq, open, astray>>
BaseUpdate ==
    /\ At("base") /\ ~bit[crtc.fb]
    /\ hw' = [hw EXCEPT !.surf = user.fb, !.due = @ \cup {"base"}, !.flip = @ \cup {f \in {"base"} : gen = "gen4"}]
    /\ crtc' = [crtc EXCEPT !.fb = user.fb]
    /\ user' = [user EXCEPT !.pc = "vblank", !.old = crtc.fb, !.seen = FALSE]
    /\ astray' = IF work.pending > 0 THEN astray \cup {"base"} ELSE astray
    /\ UNCHANGED <<gen, work, queue, count, bit, pins, vref, mutex, irq, open>>
BaseDone ==    \* after 50 ms without one
    /\ At("vblank")
    /\ astray' = IF user.seen THEN astray ELSE astray \cup {"slow"}
    /\ pins' = [pins EXCEPT ![user.old] = @ - 1]
    /\ mutex' = None /\ Returns
    /\ UNCHANGED <<gen, crtc, work, queue, count, bit, vref, hw, irq, open>>

\* The crtc goes off when no flip is pending: for a while (dpms), or for good.
Unpinned(fb) == pins' = [pins EXCEPT ![fb] = @ - 1]
CrtcOff(good) ==
    /\ At("idle") /\ crtc.on /\ work = NoWork /\ mutex = None /\ ~bit[crtc.fb]
    /\ crtc' = [on |-> FALSE, fb |-> IF good THEN None ELSE crtc.fb]
    /\ IF good THEN Unpinned(crtc.fb) ELSE UNCHANGED pins
    /\ hw' = [hw EXCEPT !.scan = None, !.surf = None]
    /\ UNCHANGED <<gen, user, work, queue, count, bit, vref, mutex, irq, open, astray>>
CrtcOn(fb) ==
    /\ At("idle") /\ ~crtc.on /\ mutex = None /\ crtc.fb \in {None, fb}
    /\ pins' = IF crtc.fb = None THEN [pins EXCEPT ![fb] = @ + 1] ELSE pins
    /\ crtc' = [on |-> TRUE, fb |-> fb]
    /\ hw' = [hw EXCEPT !.surf = fb, !.scan = fb]
    /\ UNCHANGED <<gen, user, work, queue, count, bit, vref, mutex, irq, open, astray>>
\* A file closes (drm_release): its events are freed, but the one a flip will
\* send is in neither list;
CloseEvents(file) ==
    /\ open[file] = "open" /\ (user.pc \in FlipCall => work.file # file)
    /\ open' = [open EXCEPT ![file] = "closing"]
    /\ UNCHANGED <<gen, crtc, user, work, queue, count, bit, pins, vref, mutex, hw, irq, astray>>
\* its framebuffers go (and before it a crtc that shows one: CrtcOff), and so
\* does the file.
Close(file) ==
    /\ At("idle") /\ open[file] = "closing"
    /\ open' = [open EXCEPT ![file] = "gone"]
    /\ UNCHANGED <<gen, crtc, user, work, queue, count, bit, pins, vref, mutex, hw, irq, astray>>
------------------------------------------------------------------------------
\* What goes astray: "base" (the base is updated under a flip that is queued),
\* "slow" (no vertical blank in 50 ms after an update), "lost" (gen3: a report
\* read without the vertical blank), "stale" (a report read with another moment's
\* vertical blank), "stalled" (the stall check before the flip is shown),
\* "spurious" (a base update's report taken for the flip's), "reset"; then
\* "early" (a flip completed before it is shown), "closing" and "gone" (the event
\* goes to a file that is closing, or freed).  "stale" and "stalled" concern
\* one flip.
Doubts == {"stale", "stalled"}
Settled == IF work.pending = 2 THEN astray ELSE astray \ Doubts
Executed == work.pending = 1 /\ ~At("advance") /\ hw.ring = <<>>
Shown == work # NoWork /\ user.pc \notin FlipCall /\ hw.scan = work.new /\ hw.due = {} /\ hw.ring = <<>>
\* The interrupt handler reads what has happened, then looks at the flip.  On
\* gen3 the flip bit stays until a vertical blank has come with it.
IrqRead ==
    /\ irq.pc \in {"idle", "again"} /\ (hw.vbl \/ (hw.flip # {} /\ (gen = "gen3" => ~irq.masked)))
    /\ irq' = [irq EXCEPT !.pc = "prepare", !.flip = hw.flip, !.vbl = hw.vbl]
    /\ hw' = [hw EXCEPT !.vbl = FALSE, !.flip = IF gen = "gen3" /\ irq.masked THEN @ ELSE {}]
    /\ astray' = Settled
                  \cup (IF gen = "gen3" /\ hw.flip # {} /\ ~irq.masked /\ ~hw.vbl /\ Executed THEN {"lost"} ELSE {})
                  \cup (IF gen # "ilk" /\ hw.flip # {} /\ hw.vbl /\ ~Shown THEN {"stale"} ELSE {})
    /\ UNCHANGED <<gen, crtc, user, work, queue, count, bit, pins, vref, mutex, open>>
IrqEnd ==
    /\ irq.pc = "again" /\ ~hw.vbl /\ (hw.flip = {} \/ irq.masked)
    /\ irq' = Calm /\ astray' = Settled
    /\ UNCHANGED <<gen, crtc, user, work, queue, count, bit, pins, vref, mutex, hw, open>>
\* intel_prepare_page_flip: a flip that has been queued has been taken.
Taken(w) == [w EXCEPT !.pending = IF @ = 0 THEN 0 ELSE 2]
Reported == irq.flip # {} /\ (gen = "gen3" => irq.vbl)
IrqPrepare ==
    /\ irq.pc = "prepare"
    /\ work' = IF Reported THEN Taken(work) ELSE work
    /\ irq' = [irq EXCEPT !.pc = IF gen = "gen4" THEN (IF irq.vbl THEN "stall" ELSE "again")
                                 ELSE IF Reported THEN "finish" ELSE "again",
                          !.masked = @ /\ ~(Reported /\ gen = "gen3")]
    /\ astray' = IF Reported /\ irq.flip = {"base"} /\ work.pending = 1
                 THEN astray \cup {"spurious"} ELSE astray
    /\ UNCHANGED <<gen, crtc, user, queue, count, bit, pins, vref, mutex, hw, open>>
\* i915_pageflip_stall_check: with the new address in the register the
\* interrupt is taken to be lost.
IrqStall ==
    LET stalled == work.check /\ work.pending < 2 /\ hw.surf = work.new IN
    /\ irq.pc = "stall"
    /\ irq' = [irq EXCEPT !.pc = IF stalled THEN "stalled" ELSE "finish"]
    /\ astray' = IF stalled /\ ~Shown THEN astray \cup {"stalled"} ELSE astray
    /\ UNCHANGED <<gen, crtc, user, work, queue, count, bit, pins, vref, mutex, hw, open>>
IrqStalled ==
    /\ irq.pc = "stalled"
    /\ work' = Taken(work)
    /\ irq' = [irq EXCEPT !.pc = "finish"]
    /\ UNCHANGED <<gen, crtc, user, queue, count, bit, pins, vref, mutex, hw, open, astray>>
\* do_intel_finish_page_flip: the event goes out, and the old framebuffer to
\* the worker.
IrqFinish ==
    LET done == work.pending = 2 IN
    /\ irq.pc = "finish"
    /\ irq' = [irq EXCEPT !.pc = "again", !.flip = {}, !.vbl = FALSE]
    /\ work' = IF done THEN NoWork ELSE work
    /\ vref' = IF done THEN vref - 1 ELSE vref
    /\ bit' = IF done THEN [bit EXCEPT ![work.old] = FALSE] ELSE bit
    /\ queue' = IF done THEN Append(queue, work.old) ELSE queue
    /\ astray' = (IF done /\ ~Shown THEN astray \cup {"early"} ELSE astray \ Doubts)
                  \cup (IF done /\ open[work.file] # "open" THEN {open[work.file]} ELSE {})
    /\ UNCHANGED <<gen, crtc, user, count, pins, mutex, hw, open>>
\* intel_unpin_work_fn
UnpinWork ==
    /\ queue # <<>> /\ mutex = None
    /\ Unpinned(Head(queue))
    /\ queue' = Tail(queue) /\ count' = count - 1
    /\ UNCHANGED <<gen, crtc, user, work, bit, vref, mutex, hw, irq, open, astray>>

\* The ring executes a flip (on gen3 after the one before it), the pipe takes
\* the address at the next vertical blank.
Execute ==
    /\ hw.ring # <<>> /\ (gen = "gen3" => hw.surf = hw.scan)
    /\ hw' = [hw EXCEPT !.ring = Tail(@), !.surf = Head(hw.ring), !.due = @ \cup {"ring"},
                        !.flip = @ \cup {f \in {"ring"} : gen # "ilk"}]
    /\ UNCHANGED <<gen, crtc, user, work, queue, count, bit, pins, vref, mutex, irq, open, astray>>
Vblank ==
    /\ crtc.on
    /\ hw' = [hw EXCEPT !.scan = hw.surf, !.vbl = TRUE, !.due = {}, !.flip = @ \cup {f \in hw.due : gen = "ilk"}]
    /\ user' = [user EXCEPT !.seen = At("vblank")] /\ astray' = astray \ {"slow"}
    /\ UNCHANGED <<gen, crtc, work, queue, count, bit, pins, vref, mutex, irq, open>>
\* The GPU hangs and is reset: what was on the ring is gone.
Reset ==
    /\ hw.ring # <<>>
    /\ hw' = [hw EXCEPT !.ring = <<>>]
    /\ astray' = astray \cup {"reset"}
    /\ UNCHANGED <<gen, crtc, user, work, queue, count, bit, pins, vref, mutex, irq, open>>

\* The model stops when memory that was freed is written, when a flip has
\* completed early, and after MaxMishaps mishaps.
FlipNext ==
    /\ astray \cap {"early", "gone"} = {} /\ Cardinality(astray) < MaxMishaps
    /\ \/ \E file \in FlipFiles, fb \in FlipFbs : FlipStart(file, fb)
       \/ FlipFlush \/ FlipLock \/ FlipSignal \/ PinFlip \/ MarkActive \/ QueueFlip \/ QueueFails \/ FlipUndo
       \/ \E fb \in FlipFbs : BaseStart(fb) \/ CrtcOn(fb)
       \/ BaseUpdate \/ BaseDone \/ (\E good \in BOOLEAN : CrtcOff(good)) \/ (\E file \in FlipFiles : CloseEvents(file) \/ Close(file))
       \/ IrqRead \/ IrqEnd \/ IrqPrepare \/ IrqStall \/ IrqStalled \/ IrqFinish
       \/ UnpinWork \/ Execute \/ Vblank \/ Reset

FlipTypeOK ==
    /\ gen \in FlipGens /\ crtc \in [on : BOOLEAN, fb : FlipFbs \cup {None}]
    /\ pins \in [FlipFbs -> Nat] /\ bit \in [FlipFbs -> BOOLEAN] /\ count \in 0..3 /\ vref \in 0..1
    /\ queue \in Seq(FlipFbs) /\ work.pending \in 0..2 /\ mutex \in {None, "user"} /\ open \in [FlipFiles -> {"open", "closing", "gone"}]

\* Every pin has its owner: the framebuffer the crtc shows, the old one of the
\* flip that is queued, those for the worker, and those of the call.
Owned(f) ==
    LET shown == IF At("queue") THEN work.old ELSE crtc.fb IN
    (IF shown = f THEN 1 ELSE 0) + (IF (work.pending > 0 \/ At("emit")) /\ work.old = f THEN 1 ELSE 0)
      + Cardinality({i \in DOMAIN queue : queue[i] = f})
      + (IF At("base") /\ user.fb = f THEN 1 ELSE 0) + (IF At("vblank") /\ user.old = f THEN 1 ELSE 0)
FlipPinsExact == \A f \in FlipFbs : pins[f] = Owned(f)
\* What the hardware scans out, or will, is pinned, unless a flip completed
\* early, the base was updated under a flip, or no vertical blank came in 50 ms.
ScanoutPinned ==
    crtc.on /\ astray \cap {"early", "base", "slow"} = {} =>
        \A f \in {hw.scan, hw.surf} \cup {hw.ring[i] : i \in DOMAIN hw.ring} : pins[f] > 0
\* A flip that is queued will be completed: it is on the ring, in the
\* registers, or reported; unless the GPU was reset, or (gen3) the report was
\* read without the vertical blank.
FlipOnItsWay ==
    work.pending = 1 /\ astray \cap {"lost", "reset"} = {} =>
        \/ \E i \in DOMAIN hw.ring : hw.ring[i] = work.new
        \/ At("advance") \/ "ring" \in hw.due \cup hw.flip \cup irq.flip \/ (gen = "gen4" /\ hw.surf = work.new)
\* Who waits for a flip away from a framebuffer waits for a flip that exists.
BitsExact == \A f \in FlipFbs : bit[f] <=> work.check /\ work.old = f /\ (~At("undo"))
\* A flip completes early only by the report of a base update taken for its
\* own, or, before Ironlake, by a report that the handler matches with another
\* moment's vertical blank or that it infers from the address register.
EarlyIsExplained ==
    "early" \in astray => astray \cap {"base", "spurious"} # {} \/ (gen # "ilk" /\ astray \cap Doubts # {})
FlipSafe == FlipPinsExact /\ BitsExact /\ ScanoutPinned /\ FlipOnItsWay /\ EarlyIsExplained
=============================================================================
