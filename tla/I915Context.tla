---------------------------- MODULE I915Context ----------------------------
(***************************************************************************)
(* Hardware contexts (i915_gem_context.c): the images into which the GPU   *)
(* saves its state, one for everybody and one for each that a client has   *)
(* made.  The GPU saves the old image when it executes the switch to the   *)
(* next, long after the driver has queued it, so an image must stay in     *)
(* place until then: pinned while it is the last the driver switched to,   *)
(* and after that on the active list until a request behind the switch is  *)
(* done.  All calls hold struct_mutex.  One client owns UserCtxs; other    *)
(* objects, which only wait beside these, are left to I915Gem.             *)
(***************************************************************************)
EXTENDS Integers, Sequences, SequencesExt, FiniteSets

CONSTANTS UserCtxs, MaxQueue, MaxResets, None

\* hwctx: img (of each context: made = somebody has it, refs and pins of its object, act = on the
\* active list, bound = it has a place), last (last_context_obj), cur (what the GPU runs on and
\* will save into), queue (commands in the ring), olr (a seqno is outstanding) with lazy (what
\* waits for it), passed (what waits for a seqno that is done), disabled, op (a longer call that
\* has the mutex), resets and lost (what went wrong: a batch that ran without its context, a
\* reference put by context_fini that was not there).
VARIABLE hwctx

Ctxs == UserCtxs \cup {"default"}
CtxAssumption == "default" \notin UserCtxs /\ None \notin Ctxs /\ MaxQueue \in Nat /\ MaxResets \in Nat
CtxOps == {"load", "run", "evict", "freeze", "asleep", "unload", "fini", "gone", "wedged"}

One(b) == IF b THEN 1 ELSE 0
NoImage == [made |-> FALSE, refs |-> 0, pins |-> 0, act |-> FALSE, bound |-> FALSE]
New == [NoImage EXCEPT !.made = TRUE, !.refs = 1]
Set(c) == [cmd |-> "set", of |-> {c}]
Batch(c) == [cmd |-> "batch", of |-> {c}]
Crumb(S) == [cmd |-> "crumb", of |-> S]

CtxInit == hwctx = [img |-> [c \in Ctxs |-> NoImage], last |-> None, cur |-> None, queue |-> <<>>, olr |-> FALSE,
                    lazy |-> {}, passed |-> {}, disabled |-> FALSE, op |-> "load", resets |-> 0, lost |-> {}]
------------------------------------------------------------------------------
\* drm_gem_object_unreference, whose last one frees the object and its place
Unreference(h, c) ==
    [h EXCEPT !.img[c] = IF @.refs = 1 THEN NoImage ELSE [@ EXCEPT !.refs = @ - 1]]
Pin(h, c) == [h EXCEPT !.img[c].pins = @ + 1, !.img[c].bound = TRUE]
Unpin(h, c) == [h EXCEPT !.img[c].pins = @ - 1]
\* The command goes behind the others; its intel_ring_begin has taken a seqno.
Emit(h, command) == [h EXCEPT !.queue = Append(@, command), !.olr = TRUE]
\* i915_gem_object_move_to_active: the object waits for the outstanding seqno, no longer for one before.
MoveToActive(h, c) ==
    [h EXCEPT !.img[c].refs = @ + One(~h.img[c].act), !.img[c].act = TRUE, !.lazy = @ \cup {c}, !.passed = @ \ {c},
              !.queue = [i \in DOMAIN @ |-> IF @[i].cmd = "crumb" THEN Crumb(@[i].of \ {c}) ELSE @[i]]]
AddRequest(h) == [h EXCEPT !.queue = Append(@, Crumb(h.lazy)), !.olr = FALSE, !.lazy = {}]

\* Mutant: the context that is left goes at once, without waiting for the switch
LeaveAtOnce(h, from) == Unreference(Unpin(h, from), from)
\* do_switch leaves the old image to the active list.
Leave(h, from) == Unreference(Unpin(MoveToActive(h, from), from), from)
\* do_switch: the pin may fail (the object has no place), and so may the move to the GTT
\* domain or mi_set_context (it has one, and perhaps a seqno is taken).
Failed(h, to) == {h} \cup {[Unpin(Pin(h, to), to) EXCEPT !.olr = o] : o \in {h.olr, TRUE}}
Switched(h, to) ==
    IF h.disabled \/ h.last = to THEN h
    ELSE LET sent == Emit(Pin(h, to), Set(to))
             left == IF h.last = None THEN sent ELSE Leave(sent, h.last)
         IN [left EXCEPT !.img[to].refs = @ + 1, !.last = to]
CanFail(h, to) == ~h.disabled /\ h.last # to

\* do_destroy: the id goes, and the reference of the creation.
Destroyed(h, c) == Unreference([h EXCEPT !.img[c].made = FALSE], c)
Retired(h) ==
    LET off(g, c) == Unreference([g EXCEPT !.img[c].act = FALSE], c) IN
    [FoldLeft(off, h, SetToSeq(h.passed)) EXCEPT !.passed = {}]
Running == hwctx.op = "run" /\ hwctx.lost = {}
Room(n) == Len(hwctx.queue) + n <= MaxQueue
------------------------------------------------------------------------------
\* i915_gem_context_init with create_default_context: its own pin and the one of the switch.
\* When it fails there are no contexts.
CreateDefault ==
    /\ hwctx.op = "load"
    /\ LET made == [hwctx EXCEPT !.img["default"] = New, !.op = "run"]
           pinned == Pin(made, "default")
       IN \/ hwctx' = Switched(pinned, "default")
          \/ \E f \in {made} \cup {Unpin(g, "default") : g \in Failed(pinned, "default")} :
                hwctx' = [Destroyed(f, "default") EXCEPT !.disabled = TRUE]

Create(c) ==
    /\ Running /\ ~hwctx.disabled /\ hwctx.img[c] = NoImage /\ c # "default"
    /\ hwctx' = [hwctx EXCEPT !.img[c] = New]
Destroy(c) ==
    /\ Running /\ c # "default" /\ hwctx.img[c].made
    /\ hwctx' = Destroyed(hwctx, c)
\* i915_gem_context_close, of a file that may have none
Close ==
    /\ Running
    /\ hwctx' = FoldLeft(Destroyed, hwctx, SetToSeq({c \in UserCtxs : hwctx.img[c].made}))

\* The end of i915_gem_do_execbuffer: the switch, the batch, the request.  An error
\* leaves what is in the ring to a later request.
Execbuffer(c) ==
    /\ Running /\ Room(3) /\ (c = "default" \/ hwctx.img[c].made)
    /\ \/ CanFail(hwctx, c) /\ hwctx' \in Failed(hwctx, c)
       \/ LET h == Switched(hwctx, c) IN
          hwctx' \in {h, Emit(h, Batch(c)), AddRequest(Emit(h, Batch(c)))}

RetireWork == Running /\ hwctx.passed # {} /\ hwctx' = Retired(hwctx)
\* i915_gem_object_unbind, for a place somebody needs: it waits for the GPU first.
Unbind(c) ==
    /\ Running /\ hwctx.img[c].bound /\ hwctx.img[c].pins = 0
    /\ \/ ~hwctx.img[c].act /\ hwctx' = [hwctx EXCEPT !.img[c].bound = FALSE]
       \/ c \in hwctx.lazy /\ Room(1) /\ hwctx' = AddRequest(hwctx)    \* i915_gem_check_olr

\* i915_gpu_idle for an eviction of everything, a suspend or the unload: it switches
\* to the default context, adds the request and waits with the mutex.
Idle(op) ==
    /\ Running /\ Room(2)
    /\ \/ LET h == Switched(hwctx, "default") IN
          hwctx' = [IF h.olr THEN AddRequest(h) ELSE h EXCEPT !.op = op]
       \/ /\ CanFail(hwctx, "default")
          /\ \E f \in Failed(hwctx, "default") : hwctx' = [f EXCEPT !.op = IF op = "unload" THEN "fini" ELSE "run"]
Idled ==
    /\ hwctx.op \in {"evict", "freeze", "unload"} /\ hwctx.queue = <<>>
    /\ LET h == Retired(hwctx)
           left == [h EXCEPT !.img = [c \in Ctxs |-> [@[c] EXCEPT !.bound = @ /\ (h.img[c].pins > 0 \/ h.img[c].act)]]]
       IN hwctx' = CASE h.op = "evict" -> [left EXCEPT !.op = "run"]
                     [] h.op = "freeze" -> [h EXCEPT !.op = "asleep", !.cur = None]
                     [] h.op = "unload" -> [h EXCEPT !.op = "fini"]
\* The power comes back, and i915_gem_context_init finds the default context there.
Thaw == hwctx.op = "asleep" /\ hwctx' = [hwctx EXCEPT !.op = "run"]

\* A hang: i915_reset takes everything off the lists and resets the chip, and a waiter gives up.
\* It loads no context, while last_context_obj stays.
Reset ==
    /\ hwctx.op \in {"run", "evict", "freeze", "unload"} /\ hwctx.queue # <<>> /\ hwctx.resets < MaxResets
    /\ hwctx.lost = {}
    /\ LET all == {c \in Ctxs : hwctx.img[c].act}
           h == [Retired([hwctx EXCEPT !.passed = all]) EXCEPT !.lazy = {}]
       IN \/ hwctx' = [h EXCEPT !.cur = None, !.queue = <<>>, !.resets = @ + 1,
                                !.op = IF @ = "unload" THEN "fini" ELSE "run"]
          \/ hwctx' = [h EXCEPT !.op = "wedged"]    \* too soon after the last one

\* i915_gem_context_fini: the chip is reset, and the default context loses the references of
\* its switch and of its creation, whichever context is the last.
Fini ==
    /\ hwctx.op = "fini"
    /\ IF hwctx.disabled THEN hwctx' = [hwctx EXCEPT !.op = "gone"]
       ELSE LET h == [Unpin(hwctx, "default") EXCEPT !.cur = None, !.queue = <<>>, !.op = "gone"] IN
            hwctx' = IF h.img["default"].refs = 1 THEN [h EXCEPT !.lost = {"overput"}]
                     ELSE [Destroyed(Unreference(h, "default"), "default") EXCEPT
                              !.last = None, !.lost = {"orphan" : c \in {d \in UserCtxs : h.last = d}}]

\* The GPU executes the next command.
Execute ==
    /\ hwctx.queue # <<>> /\ hwctx.op # "wedged" /\ hwctx.lost = {}
    /\ LET x == Head(hwctx.queue)
           h == [hwctx EXCEPT !.queue = Tail(@)]
       IN hwctx' = CASE x.cmd = "set" -> [h EXCEPT !.cur = CHOOSE c \in x.of : TRUE]
                     [] x.cmd = "crumb" -> [h EXCEPT !.passed = @ \cup x.of]
                     [] x.cmd = "batch" -> [h EXCEPT !.lost = {"unloaded" : c \in {d \in x.of \cap UserCtxs : h.cur # d}}]

CtxNext ==
    \/ CreateDefault \/ (\E c \in Ctxs : Create(c) \/ Destroy(c) \/ Execbuffer(c) \/ Unbind(c))
    \/ Close \/ RetireWork \/ (\E op \in {"evict", "freeze", "unload"} : Idle(op)) \/ Idled \/ Thaw
    \/ Reset \/ Fini \/ Execute
CtxSpec == CtxInit /\ [][CtxNext]_hwctx
------------------------------------------------------------------------------
CtxTypeOK ==
    /\ \A c \in Ctxs : hwctx.img[c].refs \in 0..4 /\ hwctx.img[c].pins \in 0..3
    /\ hwctx.last \in Ctxs \cup {None} /\ hwctx.cur \in Ctxs \cup {None} /\ Len(hwctx.queue) <= MaxQueue
    /\ hwctx.op \in CtxOps /\ hwctx.lazy \cup hwctx.passed \subseteq Ctxs /\ (hwctx.lazy # {} => hwctx.olr)

\* The GPU saves into places that are held: what it runs on, and what a switch in the
\* ring names, is bound, and pinned or waiting for a request behind that switch.
Targets == {c \in Ctxs : hwctx.cur = c \/ \E i \in DOMAIN hwctx.queue : hwctx.queue[i] = Set(c)}
SavedSafely ==
    hwctx.op # "wedged" => \A c \in Targets : hwctx.img[c].bound /\ (hwctx.img[c].pins > 0 \/ hwctx.img[c].act)
\* An image has a reference for its creation, its use and the active list, and a pin
\* for its use; the default context has one more pin.
CountsHeld ==
    hwctx.lost = {} => \A c \in Ctxs :
        /\ hwctx.img[c].refs = One(hwctx.img[c].made) + One(hwctx.last = c) + One(hwctx.img[c].act)
        /\ hwctx.img[c].pins = One(hwctx.last = c)
                               + One(c = "default" /\ hwctx.img[c].made /\ ~hwctx.disabled)
\* A batch runs on its own context unless a reset came between, and the end
\* takes what was given unless the GPU could not be idled.
CtxLost == hwctx.lost # {} => hwctx.resets > 0 \/ hwctx.op = "gone"
CtxSafe == SavedSafely /\ CountsHeld /\ CtxLost
=============================================================================
