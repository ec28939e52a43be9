----------------------------- MODULE I915Domain -----------------------------
(***************************************************************************)
(* The domains of an object and what they are for: whoever may read it     *)
(* sees what was written last (i915_gem.c, i915_gem_execbuffer.c).  The    *)
(* machine: CPU cache lines appear and go by themselves, writes through    *)
(* the aperture wait in a buffer, the GPU works later; an object that is   *)
(* not snooped (level "none") has the GPU and the aperture past the cache. *)
(***************************************************************************)
VARIABLES dom,    \* the object as the driver has it
          hw,     \* [cache, fresh, wc, page]: where the last value is
          work,   \* what the GPU was asked: "none", "read" or "write"
          right,  \* what the client may do since its last set_domain
          shown,  \* the display needs what is there now
          pwrite, \* a pwrite that has let the lock go
          crooked
domainVars == <<dom, hw, work, right, shown, pwrite, crooked>>

NoPwrite == [at |-> "none", after |-> FALSE, before |-> FALSE, part |-> FALSE]
DomainInit ==
    /\ \E level \in {"none", "llc"} :
          dom = [read |-> {"CPU"}, write |-> "CPU", level |-> level, bound |-> FALSE, pages |-> FALSE,
                 pinned |-> FALSE, dirty |-> FALSE, mapped |-> FALSE]
    /\ hw = [cache |-> "none", fresh |-> {"mem", "disk"}, wc |-> FALSE, page |-> FALSE]
    /\ work = "none" /\ right = {} /\ shown = FALSE /\ pwrite = NoPwrite /\ crooked = {}

State == [d |-> dom, h |-> hw, work |-> work]
Become(s) == dom' = s.d /\ hw' = s.h /\ work' = s.work /\ UNCHANGED crooked
------------------------------------------------------------------------------
(* The machine                                                             *)

\* A place is overwritten by another: fresh if that was.
Copied(fresh, from, to) == IF from \in fresh THEN fresh \cup {to} ELSE fresh \ {to}
CacheOut(h) == [h EXCEPT !.cache = "none", !.fresh = (IF h.cache = "dirty" THEN Copied(@, "cache", "mem") ELSE @) \ {"cache"}]
CacheIn(h) == [h EXCEPT !.cache = "clean", !.fresh = Copied(@, "mem", "cache")]
Drained(h, level) ==    \* a snooped write takes the lines from the cache
    IF ~h.wc THEN h
    ELSE LET c == IF level = "llc" THEN CacheOut(h) ELSE h IN
         [c EXCEPT !.wc = FALSE, !.fresh = Copied(@, "wc", "mem") \ {"wc"}]
\* A write that does not cover whole lines leaves in them what they had.
CpuStore(h, whole) ==
    LET b == IF h.cache = "none" THEN CacheIn(h) ELSE h IN
    [b EXCEPT !.cache = "dirty", !.page = TRUE, !.fresh = IF whole \/ "cache" \in b.fresh THEN {"cache"} ELSE {}]
GttStore(h) == [h EXCEPT !.wc = TRUE, !.fresh = {"wc"}]
CpuSees(h) == IF h.cache = "none" THEN "mem" \in h.fresh ELSE "cache" \in h.fresh
GttSees(h, level) == "wc" \in h.fresh \/ (IF level = "llc" THEN CpuSees(h) ELSE "mem" \in h.fresh)
GpuSees(h, level) == IF level = "llc" THEN CpuSees(h) ELSE "mem" \in h.fresh
GpuStore(h, level) == LET c == IF level = "llc" THEN CacheOut(h) ELSE h IN [c EXCEPT !.fresh = {"mem"}]

Prefetch == hw.cache = "none" /\ dom.pages /\ Become([State EXCEPT !.h = CacheIn(hw)]) /\ UNCHANGED <<right, shown, pwrite>>
WriteBack == hw.cache # "none" /\ Become([State EXCEPT !.h = CacheOut(hw)]) /\ UNCHANGED <<right, shown, pwrite>>
Drain == hw.wc /\ Become([State EXCEPT !.h = Drained(hw, dom.level)]) /\ UNCHANGED <<right, shown, pwrite>>
\* The page daemon takes pages that nobody has wired, and writes them when they
\* are marked dirty.
PageOut ==
    /\ ~dom.pages
    /\ LET h == CacheOut(hw)
           w == IF h.page THEN [h EXCEPT !.fresh = Copied(@, "mem", "disk")] ELSE h
       IN  Become([State EXCEPT !.h = [w EXCEPT !.page = FALSE, !.fresh = Copied(@, "disk", "mem")]])
    /\ UNCHANGED <<right, shown, pwrite>>
------------------------------------------------------------------------------
(* The driver                                                              *)

\* The batch has run, and what it asked for was retired.
Ran(s) ==
    IF s.work = "none" THEN s
    ELSE [s EXCEPT !.work = "none", !.d.write = IF @ = "GPU" THEN "none" ELSE @,
                   !.h = IF s.work = "write" THEN [GpuStore(@, s.d.level) EXCEPT !.fresh = {"mem"}] ELSE @]
Rendered(s, readonly) == IF readonly /\ s.work = "read" THEN s ELSE Ran(s)

\* The flush of the lines is fenced, which drains the other buffers as well.
Clflush(s) == IF s.d.pages /\ s.d.level = "none" THEN [s EXCEPT !.h = CacheOut(Drained(@, "none"))] ELSE s
FlushGtt(s) == IF s.d.write # "GTT" THEN s ELSE [s EXCEPT !.h = Drained(@, s.d.level), !.d.write = "none"]
\* Mutant: the lines are written when the CPU next needs them
FlushCpuLater(s) == IF s.d.write # "CPU" THEN s ELSE [s EXCEPT !.d.write = "none"]
FlushCpu(s) == IF s.d.write # "CPU" THEN s ELSE [Clflush(s) EXCEPT !.d.write = "none"]

SetToGtt(s, write) ==
    LET f == FlushCpu(Rendered(s, ~write)) IN
    IF ~s.d.bound \/ s.d.write = "GTT" THEN s
    ELSE IF write THEN [f EXCEPT !.d = [@ EXCEPT !.read = {"GTT"}, !.write = "GTT", !.dirty = TRUE]]
    ELSE [f EXCEPT !.d.read = @ \cup {"GTT"}]
SetToCpu(s, write) ==
    LET f == FlushGtt(Rendered(s, ~write))
        c == IF "CPU" \in f.d.read THEN f ELSE [Clflush(f) EXCEPT !.d.read = @ \cup {"CPU"}]
    IN  IF s.d.write = "CPU" THEN s
        ELSE IF write THEN [c EXCEPT !.d = [@ EXCEPT !.read = {"CPU"}, !.write = "CPU"]] ELSE c

\* i915_gem_object_get_pages, and the pinning that binds
GotPages(s) == [s EXCEPT !.d.pages = TRUE]
Bound(s) == [GotPages(s) EXCEPT !.d.bound = TRUE]
FinishGtt(s) == [s EXCEPT !.h = Drained(@, s.d.level),
                          !.d = [@ EXCEPT !.mapped = FALSE, !.read = @ \ {"GTT"}, !.write = IF @ = "GTT" THEN "none" ELSE @]]
FinishGpu(s) == IF "GPU" \in s.d.read THEN [Ran(s) EXCEPT !.d.read = @ \ {"GPU"}] ELSE s
Unbound(s) == IF s.d.bound THEN [FinishGtt(FinishGpu(s)) EXCEPT !.d.bound = FALSE] ELSE s
PutPages(s) ==
    LET c == SetToCpu(s, TRUE) IN
    [c EXCEPT !.h.page = @ \/ c.d.dirty, !.d.dirty = FALSE, !.d.pages = FALSE]
SetCacheLevel(s, level) ==
    LET f == IF s.d.bound THEN FinishGtt(FinishGpu(s)) ELSE s IN
    IF level = "none" THEN [f EXCEPT !.d = [@ EXCEPT !.level = level, !.read = {"CPU"}, !.write = "CPU"]]
    ELSE [f EXCEPT !.d.level = level]
------------------------------------------------------------------------------
Idle == pwrite = NoPwrite
Writing(where) == IF where = "CPU" THEN "CPUw" ELSE "GTTw"

\* i915_gem_set_domain_ioctl; nothing is done for the aperture when it is not bound
SetDomain(where, write) ==
    /\ Idle
    /\ Become(IF where = "GTT" THEN SetToGtt(Rendered(State, ~write), write) ELSE SetToCpu(Rendered(GotPages(State), ~write), write))
    /\ right' = {where} \cup (IF write THEN {Writing(where)} ELSE {})
    /\ UNCHANGED <<shown, pwrite>>
\* The client uses its mappings; one of the aperture faults first.
Fault ==
    /\ "GTT" \in right /\ ~dom.mapped /\ Idle
    /\ Become([SetToGtt(Bound(State), TRUE) EXCEPT !.d.mapped = TRUE]) /\ UNCHANGED <<right, shown, pwrite>>
Store(where) ==
    /\ Writing(where) \in right /\ (where = "GTT" => dom.mapped) /\ Idle
    /\ Become([State EXCEPT !.h = IF where = "GTT" THEN GttStore(@) ELSE CpuStore(@, FALSE)])
    /\ shown' = (shown /\ where = "GTT") /\ UNCHANGED <<right, pwrite>>
SwFinish ==
    /\ Idle /\ Become(IF dom.pinned THEN FlushCpu(State) ELSE State)
    /\ shown' = (shown \/ dom.pinned) /\ right' = right \ {"CPUw"} /\ UNCHANGED pwrite
SetCaching(level) ==
    /\ Idle /\ dom.level # level /\ ~dom.pinned
    /\ LET s == SetCacheLevel(State, level) IN
       /\ dom' = s.d /\ hw' = s.h /\ work' = s.work
       /\ crooked' = IF level = "llc" /\ ~CpuSees(s.h) THEN {"snooped"} ELSE {}
    /\ right' = {} /\ UNCHANGED <<shown, pwrite>>

\* i915_gem_execbuffer_move_to_gpu and i915_gem_execbuffer_move_to_active
Exec(write) ==
    /\ Idle
    /\ LET b == Ran(Bound(State))
           c == IF b.d.write = "CPU" THEN Clflush(b) ELSE b
           g == [c EXCEPT !.h = Drained(@, b.d.level)]    \* by the write of the ring's tail at the latest
       IN  Become([g EXCEPT !.work = IF write THEN "write" ELSE "read",
                            !.d = [@ EXCEPT !.read = {"GPU"}, !.write = IF write THEN "GPU" ELSE "none", !.dirty = @ \/ write]])
    /\ right' = {} /\ UNCHANGED <<shown, pwrite>>
GpuRun == work # "none" /\ Become(Ran(State)) /\ UNCHANGED <<right, shown, pwrite>>

\* i915_gem_object_pin_to_display_plane
PinDisplay ==
    /\ ~dom.pinned
    /\ LET s == IF dom.level = "none" THEN Ran(State) ELSE SetCacheLevel(Ran(State), "none")
           b == FlushCpu(Bound(s))
           f == [b EXCEPT !.h = Drained(@, b.d.level)]    \* by the write of the plane's registers
       IN  Become([f EXCEPT !.d = [@ EXCEPT !.pinned = TRUE, !.write = "none", !.read = @ \cup {"GTT"}]])
    /\ shown' = Idle /\ right' = right \ {"CPUw"} /\ UNCHANGED pwrite
UnpinDisplay == dom.pinned /\ Become([State EXCEPT !.d.pinned = FALSE]) /\ shown' = FALSE /\ UNCHANGED <<right, pwrite>>
\* Memory or address space is short.
Unbind == dom.bound /\ ~dom.pinned /\ Become(Unbound(State)) /\ UNCHANGED <<right, shown, pwrite>>
Release == dom.pages /\ ~dom.bound /\ Idle /\ Become(PutPages(State)) /\ UNCHANGED <<right, shown, pwrite>>

\* Taking the mutex drains the buffers of the processor, too.
Locked == [State EXCEPT !.h = Drained(@, dom.level)]

\* i915_gem_shmem_pread: what it copies is what the CPU then sees.
Pread ==
    LET out == "CPU" \notin dom.read
        s == GotPages(IF out /\ dom.bound THEN SetToGtt(Locked, FALSE) ELSE Locked)
        c == IF out THEN Clflush(s) ELSE s
    IN  /\ Idle /\ dom' = c.d /\ hw' = c.h /\ work' = c.work
        /\ crooked' = IF CpuSees(c.h) THEN {} ELSE {"pread"}
        /\ UNCHANGED <<right, shown, pwrite>>

\* i915_gem_pwrite_ioctl: through the aperture, else through the pages; lines
\* written in part are flushed first, and the lock goes when the source faults.
ThroughGtt == dom.level = "none" /\ dom.write # "CPU"
PwriteGtt ==
    /\ Idle /\ ThroughGtt
    /\ LET s == SetToGtt(Bound(State), TRUE) IN Become([s EXCEPT !.h = GttStore(@)])
    /\ right' = {} /\ UNCHANGED <<shown, pwrite>>
CopyIn(s, p) ==
    LET b == IF p.before THEN [s EXCEPT !.h = CacheOut(@)] ELSE s
        c == [b EXCEPT !.h = CpuStore(@, ~p.part)]
    IN  IF p.after THEN [c EXCEPT !.h = CacheOut(@)] ELSE c
PwriteShmem(part, slow) ==
    LET after == dom.write # "CPU"
        s == IF after /\ dom.bound THEN SetToGtt(Locked, TRUE) ELSE Locked
        g == [GotPages(s) EXCEPT !.d.dirty = TRUE]
        p == [at |-> "copy", after |-> after /\ dom.level = "none",
              before |-> part /\ "CPU" \notin s.d.read /\ dom.level = "none", part |-> part]
    IN  /\ Idle
        /\ IF slow THEN Become(g) /\ pwrite' = p ELSE Become(CopyIn(g, p)) /\ UNCHANGED pwrite
        /\ right' = {} /\ shown' = (shown /\ p.after)
PwriteSlow ==
    /\ pwrite.at = "copy" /\ pwrite' = [pwrite EXCEPT !.at = "end"]
    /\ Become(CopyIn(State, pwrite)) /\ UNCHANGED <<right, shown>>
PwriteEnd ==
    /\ pwrite.at = "end" /\ pwrite' = NoPwrite
    /\ Become(IF dom.write # "CPU" THEN Clflush(State) ELSE State) /\ UNCHANGED <<right, shown>>

DomainNext ==
    /\ crooked = {}
    /\ \/ Prefetch \/ WriteBack \/ Drain \/ PageOut
       \/ \E where \in {"CPU", "GTT"} : Store(where) \/ \E write \in BOOLEAN : SetDomain(where, write)
       \/ \E write \in BOOLEAN : Exec(write)
       \/ Fault \/ SwFinish \/ GpuRun \/ PinDisplay \/ UnpinDisplay \/ Unbind \/ Release
       \/ \E level \in {"none", "llc"} : SetCaching(level)
       \/ Pread \/ PwriteGtt \/ PwriteSlow \/ PwriteEnd
       \/ \E part, slow \in BOOLEAN : PwriteShmem(part, slow)
DomainSpec == DomainInit /\ [][DomainNext]_domainVars
------------------------------------------------------------------------------
DomainTypeOK ==
    /\ dom.read \subseteq {"CPU", "GTT", "GPU"} /\ dom.write \in {"none", "CPU", "GTT", "GPU"}
    /\ hw.fresh \subseteq {"mem", "disk", "wc", "cache"} /\ right \subseteq {"CPU", "CPUw", "GTT", "GTTw"}

\* Who may look sees what was stored last: the client in the domain it asked for,
\* the GPU in the objects of its batch, the display in what it shows.
Coherent ==
    /\ "CPU" \in right => CpuSees(hw)
    /\ "GTT" \in right /\ dom.mapped => GttSees(hw, dom.level)
    /\ work # "none" => GpuSees(hw, dom.level) /\ dom.write \in {"none", "GPU"}
    /\ shown => hw.fresh \cap {"mem", "wc"} # {}
    /\ hw.fresh # {}
\* The write domain is the only one to be read, and an object out of the aperture
\* has no write waiting there.
DomainsAgree ==
    /\ dom.write # "none" => dom.read = {dom.write} \/ dom.pinned
    /\ ~dom.bound => dom.write \in {"none", "CPU"} /\ ~hw.wc /\ work = "none"
DomainSafe == "pread" \notin crooked /\ (crooked = {} /\ Idle => Coherent /\ DomainsAgree)
=============================================================================
