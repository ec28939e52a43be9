------------------------------ MODULE MCIntel ------------------------------
(***************************************************************************)
(* The parts of drm/i915, each for itself: a behaviour belongs to the part *)
(* chosen at its start, and the variables of the others stay None.         *)
(***************************************************************************)
EXTENDS IntelRing, TLC

CONSTANTS o1, o2, o3, p1, p2, other, LastEntry, MaxUserPins, MaxOpens, MaxCycles, MaxCalls, None

VARIABLES part,
          mm, llc, aliasing, mishap,
          fobj, freg, fenceLru, old, tilingJob, unfenced,
          dom, cpu, work, right, shown, pwrite, crooked,
          up, phase, queued, polling, opens, astray,
          chip, regs, regfile, lit, was, at, restoring,
          want, handles, space, value, presumed, call, pending, calls, unreported, wrong,
          irqchip, installed, opened, imr, holders, scanning, iir, stat, message, handler, parity, owed, deaf, errs,
          feature, fbc, rps, ips, wake,
          family, crtc, sprite, scaling, reg, writes, doing, overruled,
          hwctx, dri

bindVars == <<mm, llc, aliasing, mishap>>
fenceVars == <<fobj, freg, fenceLru, old, tilingJob, unfenced>>
domainVars == <<dom, cpu, work, right, shown, pwrite, crooked>>
lifeVars == <<up, phase, queued, polling, opens, astray>>
savedVars == <<chip, regs, regfile, lit, was, at, restoring>>
execVars == <<want, handles, space, value, presumed, call, pending, calls, unreported, wrong>>
irqVars == <<irqchip, installed, opened, imr, holders, scanning, iir, stat, message, handler, parity, owed, deaf, errs>>
powerVars == <<feature, fbc, rps, ips, wake>>
wmVars == <<family, crtc, sprite, scaling, reg, writes, doing, overruled>>

Bind == INSTANCE I915Bind WITH BindObjs <- {o1, o2, o3}, BindFiles <- {other},
            PageLen <- o1 :> 1 @@ o2 :> 1 @@ o3 :> 2, FenceLen <- o1 :> 1 @@ o2 :> 2 @@ o3 :> 2,
            Mappable <- 2, Advised <- {o1}, Cached <- {o2}, PinnedByUser <- {o2}, Shown <- {o3}
Fence == INSTANCE I915Fence WITH FenceObjs <- {p1, p2}, FenceRegs <- {1}, Slots <- {"a", "b"},
            Fenceable <- {"a"}, Tilings <- {"none", "X"}, amiss <- unfenced
Domain == INSTANCE I915Domain WITH hw <- cpu
Life == INSTANCE I915Life WITH pending <- queued, todo <- restoring
Execbuffer == INSTANCE I915Exec WITH ExecObjs <- {p1, p2}, Foreign <- other, Slots <- {1, 2}, Mappable <- {1}
Irq == INSTANCE I915Irq WITH IrqChips <- {"i8xx", "i915", "i965", "ilk", "ivb", "vlv", "errors"},
            MaxHolders <- 2, Captures <- {1, 2}, NoCapture <- None
Power == INSTANCE IntelPower WITH Crtcs <- {1, 2}, Fbs <- {o1, o2}, Flat <- {o2}, MaxDelay <- 3,
            MaxDue <- 2, Writers <- {1, 2}, FifoSize <- 4, FifoReserved <- 1, NoFb <- None
Low == [clock |-> 25175, htotal |-> 800, hdisplay |-> 640, cpp |-> 2]
High == [clock |-> 148500, htotal |-> 2200, hdisplay |-> 1920, cpp |-> 4]
Wm == INSTANCE IntelWm WITH todo <- writes, Configs <- <<{Low, High}, {High}, {Low}>>,
            Sprites <- {1, 2}, WmFifo <- <<63, 64>>, WmLatency <- 0 :> 7 @@ 1 :> 4 @@ 2 :> 8 @@ 3 :> 32,
            WmFamilies <- {"i830", "i9xx", "i965", "pnv", "g4x", "vlv", "ilk", "snb", "ivb", "hsw"}
Dri == INSTANCE I915Dri WITH Cells <- 3, MaxCounter <- 2
Context == INSTANCE I915Context WITH UserCtxs <- {"u1", "u2"}, MaxQueue <- 5, MaxResets <- 1
ASSUME Bind!BindAssumption /\ Fence!FenceAssumption /\ Execbuffer!ExecAssumption
        /\ Power!PowerAssumption /\ Wm!WmAssumption /\ Context!CtxAssumption /\ Dri!DriAssumption

Init ==
    /\ part \in {"ring", "bind", "fence", "domain", "life", "saved", "exec", "irq", "power", "wm", "context", "dri"}
    /\ RingInit /\ (part # "ring" => gen = 2)
    /\ IF part = "bind" THEN Bind!BindInit /\ llc = aliasing
       ELSE /\ mm = None /\ llc = None /\ aliasing = None /\ mishap = None
    /\ IF part = "fence" THEN Fence!FenceInit
       ELSE /\ fobj = None /\ freg = None /\ fenceLru = None /\ old = None /\ tilingJob = None
            /\ unfenced = None
    /\ IF part = "domain" THEN Domain!DomainInit
       ELSE /\ dom = None /\ cpu = None /\ work = None /\ right = None /\ shown = None /\ pwrite = None
            /\ crooked = None
    /\ IF part = "life" THEN Life!LifeInit
       ELSE /\ up = None /\ phase = None /\ queued = None /\ polling = None /\ opens = None
            /\ astray = None
    /\ IF part = "saved" THEN Life!SavedInit
       ELSE /\ chip = None /\ regs = None /\ regfile = None /\ lit = None /\ was = None /\ at = None
            /\ restoring = None
    /\ IF part = "exec" THEN Execbuffer!ExecInit
       ELSE /\ want = None /\ handles = None /\ space = None /\ value = None /\ presumed = None
            /\ call = None /\ pending = None /\ calls = None /\ unreported = None /\ wrong = None
    /\ IF part = "irq" THEN Irq!IrqInit
       ELSE /\ irqchip = None /\ installed = None /\ opened = None /\ imr = None /\ holders = None
            /\ scanning = None /\ iir = None /\ stat = None /\ message = None /\ handler = None
            /\ parity = None /\ owed = None /\ deaf = None /\ errs = None
    /\ IF part = "power" THEN Power!PowerInit
       ELSE /\ feature = None /\ fbc = None /\ rps = None /\ ips = None /\ wake = None
    /\ IF part = "wm" THEN Wm!WmInit
       ELSE /\ family = None /\ crtc = None /\ sprite = None /\ scaling = None /\ reg = None
            /\ writes = None /\ doing = None /\ overruled = None
    /\ IF part = "context" THEN Context!CtxInit ELSE hwctx = None
    /\ IF part = "dri" THEN Dri!DriInit ELSE dri = None

Next ==
    \/ part = "ring" /\ RingNext
       /\ UNCHANGED <<part, bindVars, fenceVars, domainVars, lifeVars, savedVars, execVars, irqVars, powerVars, wmVars, hwctx, dri>>
    \/ part = "bind" /\ Bind!BindNext
       /\ UNCHANGED <<part, ringVars, fenceVars, domainVars, lifeVars, savedVars, execVars, irqVars, powerVars, wmVars, hwctx, dri>>
    \/ part = "fence" /\ Fence!FenceNext
       /\ UNCHANGED <<part, ringVars, bindVars, domainVars, lifeVars, savedVars, execVars, irqVars, powerVars, wmVars, hwctx, dri>>
    \/ part = "domain" /\ Domain!DomainNext
       /\ UNCHANGED <<part, ringVars, bindVars, fenceVars, lifeVars, savedVars, execVars, irqVars, powerVars, wmVars, hwctx, dri>>
    \/ part = "life" /\ Life!LifeNext
       /\ UNCHANGED <<part, ringVars, bindVars, fenceVars, domainVars, savedVars, execVars, irqVars, powerVars, wmVars, hwctx, dri>>
    \/ part = "saved" /\ Life!SavedNext
       /\ UNCHANGED <<part, ringVars, bindVars, fenceVars, domainVars, lifeVars, execVars, irqVars, powerVars, wmVars, hwctx, dri>>
    \/ part = "exec" /\ Execbuffer!ExecNext
       /\ UNCHANGED <<part, ringVars, bindVars, fenceVars, domainVars, lifeVars, savedVars, irqVars, powerVars, wmVars, hwctx, dri>>
    \/ part = "irq" /\ Irq!IrqNext
       /\ UNCHANGED <<part, ringVars, bindVars, fenceVars, domainVars, lifeVars, savedVars, execVars, powerVars, wmVars, hwctx, dri>>
    \/ part = "power" /\ Power!PowerNext
       /\ UNCHANGED <<part, ringVars, bindVars, fenceVars, domainVars, lifeVars, savedVars, execVars, irqVars, wmVars, hwctx, dri>>
    \/ part = "wm" /\ Wm!WmNext
       /\ UNCHANGED <<part, ringVars, bindVars, fenceVars, domainVars, lifeVars, savedVars, execVars, irqVars, powerVars, hwctx, dri>>
    \/ part = "context" /\ Context!CtxNext
       /\ UNCHANGED <<part, ringVars, bindVars, fenceVars, domainVars, lifeVars, savedVars, execVars, irqVars, powerVars, wmVars, dri>>
    \/ part = "dri" /\ Dri!DriNext
       /\ UNCHANGED <<part, ringVars, bindVars, fenceVars, domainVars, lifeVars, savedVars, execVars, irqVars, powerVars, wmVars, hwctx>>

vars == <<part, ringVars, bindVars, fenceVars, domainVars, lifeVars, savedVars, execVars, irqVars, powerVars, wmVars, hwctx, dri>>
Spec == Init /\ [][Next]_vars

\* Every variable keeps its type.
TypeOK == CASE part = "ring" -> RingTypeOK [] part = "bind" -> Bind!BindTypeOK
            [] part = "fence" -> Fence!FenceTypeOK [] part = "domain" -> Domain!DomainTypeOK
            [] part = "life" -> Life!LifeTypeOK [] part = "saved" -> Life!SavedTypeOK
            [] part = "exec" -> Execbuffer!ExecTypeOK
            [] part = "irq" -> Irq!IrqTypeOK
            [] part = "power" -> Power!PowerTypeOK
            [] part = "wm" -> Wm!WmTypeOK
            [] part = "context" -> Context!CtxTypeOK [] part = "dri" -> Dri!DriTypeOK

\* What the GPU and the CPU reach is what they should: the page tables name the pages
\* of bound objects and nothing freed (i915_gem_gtt.c), a tiled object is accessed
\* through a fence that covers it (i915_gem.c), nobody reads stale data
\* (the domains of i915_gem.c), what execbuffer dispatches sits at places that fit
\* and is relocated, save a relocation whose report to the user was lost, and is the
\* batch that was looked up unless its handle was closed while the slow path had no
\* mutex (i915_gem_execbuffer.c), and the image of a hardware context stays in place
\* until the GPU has saved it (i915_gem_context.c).
MemorySafe ==
    CASE part = "bind" -> Bind!BindSafe [] part = "fence" -> Fence!FenceSafe
      [] part = "domain" -> Domain!DomainSafe [] part = "exec" -> Execbuffer!ExecSafe
      [] part = "context" -> Context!CtxSafe [] OTHER -> TRUE
\* Nothing runs on what is not set up, between load, suspend, resume and unload
\* (i915_dma.c, i915_drv.c), the X server and the driver do not spoil what the
\* other has put into their ring (i915_dma.c), and a resume brings the registers
\* back in an order that the pipes survive (i915_suspend.c).
ServicesSafe == CASE part = "life" -> Life!LifeSafe [] part = "saved" -> Life!SavedSafe
      [] part = "irq" -> Irq!IrqSafe
      [] part = "power" -> Power!PowerSafe
      [] part = "wm" -> Wm!WmSafe
      [] part = "dri" -> Dri!DriSafe [] OTHER -> TRUE

Symmetric == Permutations({p1, p2})
=============================================================================
