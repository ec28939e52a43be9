----------------------------- MODULE I915Fence -----------------------------
(***************************************************************************)
(* Fence registers (i915_gem.c, i915_gem_tiling.c): the detiling of the    *)
(* aperture that processes map, that the display of old generations scans  *)
(* and that their GPU uses.  A step is one hold of struct_mutex; only      *)
(* i915_gem_set_tiling looks at an object before it takes the lock.        *)
(***************************************************************************)
EXTENDS Integers, Sequences, SequencesExt, FiniteSets

CONSTANTS FenceObjs, FenceRegs,
          Slots, Fenceable,    \* places of an object in the aperture, those a fence can cover
          Tilings,             \* "none" and others
          None

VARIABLES fobj, freg, fenceLru,
          old,          \* a generation before 4: the GPU and the display use fences
          tilingJob,    \* a set_tiling that has not got the lock
          amiss
fenceVars == <<fobj, freg, fenceLru, old, tilingJob, amiss>>

FenceAssumption == Fenceable \subseteq Slots /\ "none" \in Tilings

FreshObject == [slot |-> None, tiling |-> "none", mf |-> TRUE, reg |-> None, dirty |-> FALSE, gpu |-> FALSE,
                last |-> FALSE, using |-> None, mapped |-> FALSE, scan |-> None]
FreeReg == [obj |-> None, pin |-> 0, val |-> None]
NoTiling == [obj |-> None, mode |-> "none"]

FenceInit ==
    /\ fobj = [o \in FenceObjs |-> FreshObject] /\ freg = [r \in FenceRegs |-> FreeReg] /\ fenceLru = <<>>
    /\ old \in BOOLEAN /\ tilingJob = NoTiling /\ amiss = {}

Machine == [obj |-> fobj, reg |-> freg, lru |-> fenceLru, ret |-> "0"]
Become(m) == fobj' = m.obj /\ freg' = m.reg /\ fenceLru' = m.lru /\ UNCHANGED old
------------------------------------------------------------------------------
\* i915_gem_write_fence
Value(m, o) == [slot |-> m.obj[o].slot, tiling |-> m.obj[o].tiling]
Touched(m, r) == [m EXCEPT !.lru = Append(SelectSeq(@, LAMBDA q : q # r), r)]
UpdateFence(m, o, r, enable) ==
    IF enable THEN [Touched(m, r) EXCEPT !.reg[r] = [@ EXCEPT !.val = Value(m, o), !.obj = o], !.obj[o].reg = r]
    ELSE [m EXCEPT !.reg[r] = [@ EXCEPT !.val = None, !.obj = None], !.obj[o].reg = None,
                   !.lru = SelectSeq(@, LAMBDA q : q # r)]
FlushFence(m, o, ok) ==
    IF m.obj[o].last /\ ~ok THEN [m EXCEPT !.ret = "EINTR"]
    ELSE [m EXCEPT !.obj[o] = [@ EXCEPT !.last = FALSE, !.gpu = FALSE, !.using = None]]
\* Mutant: the mapping is left to whoever has it
FenceLostMapped(m, o) == [m EXCEPT !.obj[o] = [@ EXCEPT !.dirty = FALSE, !.reg = None]]
FenceLost(m, o) ==
    [m EXCEPT !.obj[o] = [@ EXCEPT !.mapped = @ /\ m.obj[o].tiling = "none", !.dirty = FALSE, !.reg = None]]
PutFence(m, o, ok) ==
    LET f == FlushFence(m, o, ok) IN
    IF f.ret # "0" \/ f.obj[o].reg = None THEN f ELSE FenceLost(UpdateFence(f, o, f.obj[o].reg, FALSE), o)

\* i915_find_fence_reg: a free one, else the least recently used that is not pinned
FindFence(m) ==
    LET free == {r \in FenceRegs : m.reg[r].obj = None}
        idle == SelectSeq(m.lru, LAMBDA r : m.reg[r].pin = 0)
    IN  IF free # {} THEN CHOOSE r \in free : \A q \in free : r <= q
        ELSE IF idle = <<>> THEN None ELSE Head(idle)
Stolen(m, r, ok) ==
    LET o == m.reg[r].obj
        f == FlushFence(m, o, ok)
    IN  IF o = None THEN m ELSE IF f.ret # "0" THEN f ELSE FenceLost(f, o)

\* i915_gem_object_get_fence
GetFence(m, o, ok) ==
    LET enable == m.obj[o].tiling # "none"
        f == IF m.obj[o].dirty THEN FlushFence(m, o, ok) ELSE m
        r == f.obj[o].reg
        new == FindFence(f)
        s == IF new = None THEN [f EXCEPT !.ret = "EDEADLK"] ELSE Stolen(f, new, ok)
        clean(n) == [n EXCEPT !.obj[o].dirty = FALSE]
    IN  IF f.ret # "0" THEN f
        ELSE IF r # None THEN IF ~f.obj[o].dirty THEN Touched(f, r) ELSE clean(UpdateFence(f, o, r, enable))
        ELSE IF ~enable THEN f
        ELSE IF s.ret # "0" THEN s ELSE clean(UpdateFence(s, o, new, TRUE))
PinFence(m, o) == IF m.obj[o].reg = None THEN m ELSE [m EXCEPT !.reg[m.obj[o].reg].pin = @ + 1]
UnpinFence(m, o) == IF m.obj[o].reg = None THEN m ELSE [m EXCEPT !.reg[m.obj[o].reg].pin = @ - 1]

\* What of pin and unbind concerns the fences; a binding may need another place
Good(s, tiling) == ~old \/ tiling = "none" \/ s \in Fenceable
Unbind(m, o, ok) ==
    LET f == PutFence([m EXCEPT !.obj[o].mapped = FALSE], o, ok) IN
    IF m.obj[o].slot = None THEN m
    ELSE IF m.obj[o].scan # None THEN [m EXCEPT !.ret = "EBUSY"]
    ELSE IF f.ret # "0" THEN f ELSE [f EXCEPT !.obj[o].slot = None, !.obj[o].mf = TRUE]
Pin(m, o, mappable, ok) ==
    LET u == IF mappable /\ ~m.obj[o].mf THEN Unbind(m, o, ok) ELSE m
        free == {s \in Slots : (mappable => Good(s, u.obj[o].tiling)) /\ \A p \in FenceObjs : u.obj[p].slot # s}
    IN  IF u.ret # "0" \/ u.obj[o].slot # None THEN {u}
        ELSE IF free = {} THEN {[u EXCEPT !.ret = "ENOSPC"]}
        ELSE {[u EXCEPT !.obj[o].slot = s, !.obj[o].mf = Good(s, u.obj[o].tiling)] : s \in free}
------------------------------------------------------------------------------
Keep == UNCHANGED <<tilingJob, amiss>>

\* A fault of a mapping (i915_gem_pager_populate)
Fault(o, ok) ==
    /\ ~fobj[o].mapped
    /\ \E m \in Pin(Machine, o, TRUE, ok) :
          LET g == GetFence(m, o, ok) IN
          Become(IF m.ret # "0" THEN m ELSE IF g.ret # "0" THEN g ELSE [g EXCEPT !.obj[o].mapped = TRUE])
    /\ Keep
\* pwrite through the aperture, which goes without a fence
PwriteGtt(o, ok) ==
    /\ fobj[o].tiling = "none"
    /\ \E m \in Pin(Machine, o, TRUE, ok) : Become(IF m.ret # "0" THEN m ELSE PutFence(m, o, ok))
    /\ Keep
\* intel_pin_and_fence_fb_obj and intel_unpin_fb_obj
Display(o, ok) ==
    /\ fobj[o].scan = None /\ fobj[o].tiling # "Y"
    /\ \E m \in Pin(Machine, o, TRUE, ok) :
          LET g == GetFence(m, o, ok) IN
          Become(IF m.ret # "0" THEN m ELSE IF g.ret # "0" THEN g
                 ELSE [PinFence(g, o) EXCEPT !.obj[o].scan = g.obj[o].tiling])
    /\ Keep
Undisplay(o) ==
    /\ fobj[o].scan # None
    /\ Become([UnpinFence(Machine, o) EXCEPT !.obj[o].scan = None]) /\ Keep

\* A batch of the objects in s, in this order; an old GPU uses fences for those it
\* says need one.  What fails unreserves what came before it.
Reserve(m, o, fenced, ok) ==
    {LET g == GetFence(p, o, ok) IN
     IF p.ret # "0" \/ ~old \/ ~fenced THEN p ELSE IF g.ret # "0" THEN g ELSE PinFence(g, o) :
        p \in Pin(m, o, old /\ fenced /\ m.obj[o].tiling # "none", ok)}
MoveToActive(m, o, fenced) ==
    LET gpu == old /\ fenced
        u == IF gpu THEN UnpinFence(m, o) ELSE m
        a == [u EXCEPT !.obj[o] = [@ EXCEPT !.gpu = gpu, !.last = @ \/ gpu,
                                            !.using = IF gpu /\ u.obj[o].reg # None THEN u.reg[u.obj[o].reg].val ELSE @]]
    IN  IF gpu /\ a.obj[o].reg # None THEN Touched(a, a.obj[o].reg) ELSE a
Exec(s, fenced, ok) ==
    /\ \E m \in Reserve(Machine, s[1], fenced, ok) :
       \E n \in IF Len(s) = 1 \/ m.ret # "0" THEN {m} ELSE Reserve(m, s[2], fenced, ok) :
          LET held == IF n.ret = "0" THEN s ELSE IF m.ret = "0" /\ Len(s) = 2 THEN <<s[1]>> ELSE <<>> IN
          Become(FoldLeft(LAMBDA a, o : IF n.ret = "0" THEN MoveToActive(a, o, fenced)
                                        ELSE IF old /\ fenced THEN UnpinFence(a, o) ELSE a, n, held))
    /\ Keep
\* i915_gem_object_move_to_inactive
Retire(o) ==
    /\ fobj[o].last \/ fobj[o].gpu
    /\ Become([Machine EXCEPT !.obj[o] = [@ EXCEPT !.last = FALSE, !.gpu = FALSE, !.using = None]]) /\ Keep
Evict(o, ok) == fobj[o].slot # None /\ fobj[o].scan = None /\ Become(Unbind(Machine, o, ok)) /\ Keep

\* i915_gem_set_tiling
SetTiling(o, mode) ==
    /\ tilingJob = NoTiling /\ fobj[o].scan = None /\ fobj[o].tiling # mode
    /\ tilingJob' = [obj |-> o, mode |-> mode]
    /\ UNCHANGED <<fobj, freg, fenceLru, old, amiss>>
SetTilingLocked(ok) ==
    LET o == tilingJob.obj
        mode == tilingJob.mode
        mf == fobj[o].slot = None \/ Good(fobj[o].slot, mode)
        m == [Machine EXCEPT !.obj[o].mf = mf]
        u == IF mf THEN m ELSE Unbind(m, o, ok)
        b == u.obj[o]
    IN  /\ tilingJob # NoTiling /\ tilingJob' = NoTiling
        /\ Become(IF mode = fobj[o].tiling THEN Machine ELSE IF u.ret # "0" THEN u
                  ELSE [u EXCEPT !.obj[o] = [@ EXCEPT !.dirty = b.gpu \/ b.reg # None, !.tiling = mode, !.mapped = FALSE]])
        /\ amiss' = IF fobj[o].scan # None /\ u.ret = "0" THEN {"raced"} ELSE {}

\* i915_gem_reset, and i915_gem_idle before a suspend
ResetFences ==
    /\ Become([obj |-> [o \in FenceObjs |->
                         LET b == [fobj[o] EXCEPT !.last = FALSE, !.gpu = FALSE, !.using = None] IN
                         IF b.reg = None THEN b
                         ELSE [b EXCEPT !.reg = None, !.dirty = FALSE, !.mapped = @ /\ b.tiling = "none"]],
               reg |-> [r \in FenceRegs |-> FreeReg], lru |-> <<>>])
    /\ amiss' = IF \E r \in FenceRegs : freg[r].pin > 0 THEN {"reset"} ELSE {}
    /\ UNCHANGED tilingJob

FenceNext ==
    /\ amiss = {}
    /\ \/ \E o \in FenceObjs, ok \in {TRUE, \A p \in FenceObjs : ~fobj[p].last} :
             \/ Fault(o, ok) \/ PwriteGtt(o, ok) \/ Display(o, ok) \/ Evict(o, ok)
             \/ \E fenced \in BOOLEAN : Exec(<<o>>, fenced, ok)
             \/ \E p \in FenceObjs \ {o} : Exec(<<o, p>>, TRUE, ok)
       \/ \E o \in FenceObjs : Undisplay(o) \/ Retire(o) \/ (\E mode \in Tilings : SetTiling(o, mode))
       \/ \E ok \in BOOLEAN : SetTilingLocked(ok)
       \/ ResetFences
FenceSpec == FenceInit /\ [][FenceNext]_fenceVars
------------------------------------------------------------------------------
FenceTypeOK ==
    /\ \A o \in FenceObjs : /\ fobj[o].slot \in Slots \cup {None} /\ fobj[o].reg \in FenceRegs \cup {None}
                            /\ fobj[o].tiling \in Tilings
    /\ fenceLru \in Seq(FenceRegs)

\* Registers and objects agree, in the driver and in the hardware.
FencesAgree ==
    /\ \A r \in FenceRegs :
          IF freg[r].obj = None THEN freg[r].val = None /\ freg[r].pin = 0
          ELSE LET o == freg[r].obj IN
               /\ fobj[o].reg = r /\ freg[r].val.slot = fobj[o].slot
               /\ freg[r].val.tiling = fobj[o].tiling \/ fobj[o].dirty
    /\ \A o \in FenceObjs : fobj[o].reg # None => freg[fobj[o].reg].obj = o
    /\ IsInjective(fenceLru) /\ ToSet(fenceLru) = {r \in FenceRegs : freg[r].obj # None}
\* What a process reaches through a mapping is detiled as the object is now.
MappingDetiled ==
    \A o \in FenceObjs : fobj[o].mapped =>
        IF fobj[o].tiling = "none" THEN \A r \in FenceRegs : freg[r].val = None \/ freg[r].val.slot # fobj[o].slot
        ELSE fobj[o].reg # None /\ ~fobj[o].dirty
\* The GPU finds its fence as it was when its batch was made.
GpuFenced == \A o \in FenceObjs : fobj[o].using # None => \E r \in FenceRegs : freg[r].val = fobj[o].using
\* A scanned out object keeps the fence it was given.
ScanoutFenced ==
    /\ \A o \in FenceObjs : fobj[o].scan \notin {None, "none"} => fobj[o].reg # None /\ ~fobj[o].dirty
    /\ \A r \in FenceRegs : freg[r].pin = Cardinality({o \in FenceObjs : fobj[o].scan # None /\ fobj[o].reg = r})
FenceSafe == amiss = {} => FencesAgree /\ MappingDetiled /\ GpuFenced /\ ScanoutFenced
=============================================================================
