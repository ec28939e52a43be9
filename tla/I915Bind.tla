------------------------------ MODULE I915Bind ------------------------------
(***************************************************************************)
(* Pages, address space and page tables of GEM objects (i915_gem.c,        *)
(* i915_gem_gtt.c, i915_gem_evict.c).  Everything here runs under          *)
(* struct_mutex, so an ioctl is a step; the GPU works on beside it, and a  *)
(* wait for it may be interrupted (ok = FALSE).  Where a node is put is    *)
(* drm_mm's choice (DrmMm); that it finds a hole when there is one is its  *)
(* contract.                                                               *)
(***************************************************************************)
EXTENDS Integers, Sequences, SequencesExt, FiniteSets

CONSTANTS BindObjs, BindFiles,
          PageLen, FenceLen,     \* object -> its pages, and its fence's
          LastEntry, Mappable,   \* entries 0 .. LastEntry, those below Mappable for the CPU
          Advised, Cached, PinnedByUser, Shown,   \* the objects that clients do this to
          MaxUserPins, None

VARIABLES mm,          \* [obj, inactive, active, ggtt, ppgtt]
          llc, aliasing,
          mishap
bindVars == <<mm, llc, aliasing, mishap>>

Entries == 0 .. LastEntry
BindAssumption == /\ \A o \in BindObjs : PageLen[o] \in 1 .. FenceLen[o]
                  /\ Mappable \in 1 .. LastEntry

Scratch == [obj |-> None, page |-> 0, level |-> "llc"]
NewObject == [pages |-> FALSE, node |-> None, pin |-> 0, madv |-> "will", level |-> IF llc THEN "llc" ELSE "none",
              mf |-> TRUE, hasG |-> FALSE, hasP |-> FALSE, users |-> 0, filp |-> None, told |-> None, scan |-> FALSE]

BindInit ==
    /\ llc \in BOOLEAN /\ aliasing \in BOOLEAN /\ (aliasing => llc) /\ mishap = FALSE
    /\ mm = [obj |-> [o \in BindObjs |-> NewObject], inactive |-> <<>>, active |-> <<>>,
             ggtt |-> [e \in Entries |-> Scratch], ppgtt |-> [e \in Entries |-> Scratch]]
------------------------------------------------------------------------------
\* The entries of o in a table, and what they say when it is bound there
Span(m, o) == m.obj[o].node.start .. m.obj[o].node.start + PageLen[o] - 1
Entered(m, o, level, table) ==
    [e \in Entries |-> IF e \in Span(m, o) THEN [obj |-> o, page |-> e - m.obj[o].node.start, level |-> level] ELSE table[e]]
Cleared(m, o, table) == [e \in Entries |-> IF e \in Span(m, o) THEN Scratch ELSE table[e]]
GttBind(m, o, level) == [m EXCEPT !.ggtt = Entered(m, o, level, m.ggtt), !.obj[o].hasG = TRUE]
PpgttBind(m, o, level) == [m EXCEPT !.ppgtt = Entered(m, o, level, m.ppgtt), !.obj[o].hasP = TRUE]

Bound(m) == {o \in BindObjs : m.obj[o].node # None}
NodeEnd(m, o) == m.obj[o].node.start + m.obj[o].node.len

\* The places for r when `gone` are taken away.  Without an LLC a snooped and an
\* uncached object do not touch (i915_gtt_color_adjust); the head counts as one
\* that is not cached.
Fits(m, gone, r) ==
    {s \in 0 .. r.end - r.len :
        /\ s % r.align = 0 /\ (llc \/ r.level = "none" \/ s > 0)
        /\ \A p \in Bound(m) \ gone :
             LET gap == IF llc \/ m.obj[p].node.color = r.level THEN 0 ELSE 1 IN
             s >= NodeEnd(m, p) + gap \/ s + r.len + gap <= m.obj[p].node.start}

\* Mutant: the neighbours are not looked at
AnySpace(m, o, level) == TRUE

\* The node of o with another color between the neighbours it has
ValidSpace(m, o, level) ==
    llc \/ m.obj[o].node = None \/
    \A p \in Bound(m) \ {o} :
        NodeEnd(m, p) = m.obj[o].node.start \/ m.obj[p].node.start = NodeEnd(m, o) => m.obj[p].node.color = level

\* i915_gem_object_finish_gpu: what was asked of the GPU up to o is done and retired
Without(s, o) == SelectSeq(s, LAMBDA p : p # o)
FinishGpu(m, o) ==
    IF o \notin ToSet(m.active) THEN m
    ELSE LET n == CHOOSE i \in DOMAIN m.active : m.active[i] = o IN
         [m EXCEPT !.inactive = @ \o SubSeq(m.active, 1, n), !.active = SubSeq(@, n + 1, Len(@))]
MustWait(m, o) == o \in ToSet(m.active)

\* i915_gem_object_unbind: [mm, ret]
Unbound(m, o) ==
    [m EXCEPT !.obj[o] = [@ EXCEPT !.node = None, !.mf = TRUE, !.hasG = FALSE, !.hasP = FALSE],
              !.ggtt = IF m.obj[o].hasG THEN Cleared(m, o, @) ELSE @,
              !.ppgtt = IF m.obj[o].hasP THEN Cleared(m, o, @) ELSE @,
              !.inactive = Without(@, o)]
Unbind(m, o, ok) ==
    IF m.obj[o].node = None THEN [mm |-> m, ret |-> "0"]
    ELSE IF m.obj[o].pin > 0 THEN [mm |-> m, ret |-> "EBUSY"]
    ELSE IF MustWait(m, o) /\ ~ok THEN [mm |-> m, ret |-> "EINTR"]
    ELSE [mm |-> Unbound(FinishGpu(m, o), o), ret |-> "0"]

\* i915_gem_object_put_pages, whose contents go when they are not needed; it
\* asserts that they are not gone already.
PutPages(m, o) ==
    IF ~m.obj[o].pages \/ m.obj[o].node # None THEN m
    ELSE [m EXCEPT !.obj[o].pages = FALSE, !.obj[o].madv = IF @ = "dont" THEN "purged" ELSE @]
PurgedTwice(m) == \E o \in BindObjs : m.obj[o].pages /\ m.obj[o].madv = "purged"

\* i915_gem_evict_something: the oldest that make a hole, those of them that lie
\* in it are unbound, unless a wait fails.
Candidates(m, nonblocking) ==
    SelectSeq(m.inactive \o (IF nonblocking THEN <<>> ELSE m.active), LAMBDA o : m.obj[o].pin = 0)
Victims(m, s) ==    \* no node that stays lies between one of them and the last
    LET start(o) == m.obj[o].node.start IN
    SelectSeq(s, LAMBDA o : \A p \in Bound(m) \ ToSet(s) : (start(p) < start(o)) = (start(p) < start(Last(s))))
EvictAll(m, s, ok) ==
    FoldLeft(LAMBDA r, o : IF r.ret = "0" THEN Unbind(r.mm, o, ok) ELSE r, [mm |-> m, ret |-> "0"], s)
EvictSomething(m, r, nonblocking, ok) ==
    LET c == Candidates(m, nonblocking)
        enough == {n \in DOMAIN c : Fits(m, ToSet(SubSeq(c, 1, n)), r) # {}}
    IN  IF enough = {} THEN [mm |-> m, ret |-> "ENOSPC"]
        ELSE EvictAll(m, Victims(m, SubSeq(c, 1, CHOOSE n \in enough : \A k \in enough : n <= k)), ok)

\* i915_gem_object_bind_to_gtt: the set of its outcomes
Bind(m0, o, mappable, nonblocking, ok) ==
    LET m == [m0 EXCEPT !.obj[o].pages = TRUE]
        r == [len |-> IF mappable THEN FenceLen[o] ELSE PageLen[o], align |-> IF mappable THEN FenceLen[o] ELSE 1,
              level |-> m.obj[o].level, end |-> IF mappable THEN Mappable ELSE LastEntry + 1]
        e == IF Fits(m, {}, r) # {} THEN [mm |-> m, ret |-> "0"] ELSE EvictSomething(m, r, nonblocking, ok)
        at(s) == [e.mm EXCEPT !.obj[o].node = [start |-> s, len |-> r.len, color |-> r.level],
                              !.obj[o].mf = (r.len = FenceLen[o] /\ s % FenceLen[o] = 0 /\ s + PageLen[o] <= Mappable),
                              !.inactive = Append(@, o)]
    IN  IF m.obj[o].madv # "will" THEN {[mm |-> m0, ret |-> "EINVAL"]}
        ELSE IF PageLen[o] > r.end THEN {[mm |-> m0, ret |-> "E2BIG"]}
        ELSE IF e.ret # "0" THEN {e}
        ELSE {[mm |-> at(s), ret |-> "0"] : s \in Fits(e.mm, {}, r)}

\* i915_gem_object_pin
Mapped(m, o, mappable, fresh) ==
    IF (fresh /\ ~aliasing) \/ (mappable /\ ~m.obj[o].hasG) THEN GttBind(m, o, m.obj[o].level) ELSE m
Pinned(m, o) == [m EXCEPT !.obj[o].pin = @ + 1]
Pin(m, o, mappable, nonblocking, ok) ==
    LET u == IF mappable /\ ~m.obj[o].mf THEN Unbind(m, o, ok) ELSE [mm |-> m, ret |-> "0"]
        fresh == u.mm.obj[o].node = None
    IN  {IF b.ret = "0" THEN [b EXCEPT !.mm = Pinned(Mapped(b.mm, o, mappable, fresh), o)] ELSE b :
            b \in IF u.ret = "0" /\ fresh THEN Bind(u.mm, o, mappable, nonblocking, ok) ELSE {u}}
Unpinned(m, o) == [m EXCEPT !.obj[o].pin = @ - 1]

\* i915_gem_object_set_cache_level
SetCacheLevel(m, o, level, ok) ==
    LET u == IF ValidSpace(m, o, level) THEN [mm |-> m, ret |-> "0"] ELSE Unbind(m, o, ok)
        w == FinishGpu(u.mm, o)
        g == IF w.obj[o].hasG THEN GttBind(w, o, level) ELSE w
        p == IF g.obj[o].hasP THEN PpgttBind(g, o, level) ELSE g
        c == IF p.obj[o].node # None THEN [p EXCEPT !.obj[o].node.color = level] ELSE p
    IN  IF m.obj[o].level = level THEN [mm |-> m, ret |-> "0"]
        ELSE IF m.obj[o].pin > 0 THEN [mm |-> m, ret |-> "EBUSY"]
        ELSE IF u.ret # "0" THEN u
        ELSE IF MustWait(u.mm, o) /\ ~ok THEN [mm |-> u.mm, ret |-> "EINTR"]
        ELSE [mm |-> [c EXCEPT !.obj[o].level = level], ret |-> "0"]
------------------------------------------------------------------------------
Become(m) == /\ mm' = m
             /\ UNCHANGED <<llc, aliasing, mishap>>

PinIoctl(f, o, ok) ==
    LET b == mm.obj[o] IN
    /\ b.madv = "will" /\ b.filp \in {None, f} /\ b.users < MaxUserPins
    /\ \E r \in IF b.users = 0 THEN Pin(mm, o, TRUE, FALSE, ok) ELSE {[mm |-> mm, ret |-> "0"]} :
          Become(IF r.ret # "0" THEN r.mm
                 ELSE [r.mm EXCEPT !.obj[o].users = @ + 1, !.obj[o].filp = f, !.obj[o].told = r.mm.obj[o].node.start])
UnpinIoctl(f, o) ==
    LET b == mm.obj[o] IN
    /\ b.filp = f
    /\ Become(IF b.users > 1 THEN [mm EXCEPT !.obj[o].users = @ - 1]
              ELSE [Unpinned(mm, o) EXCEPT !.obj[o].users = 0, !.obj[o].filp = None, !.obj[o].told = None])

\* i915_gem_object_pin_to_display_plane, and intel_unpin_fb_obj
PinDisplay(o, ok) ==
    /\ ~mm.obj[o].scan
    /\ LET c == SetCacheLevel(mm, o, "none", ok) IN
       \E r \in IF c.ret = "0" THEN Pin(c.mm, o, TRUE, FALSE, ok) ELSE {c} :
          Become(IF r.ret = "0" THEN [r.mm EXCEPT !.obj[o].scan = TRUE] ELSE r.mm)
UnpinDisplay(o) == mm.obj[o].scan /\ Become([Unpinned(mm, o) EXCEPT !.obj[o].scan = FALSE])

\* An object of a batch: pinned by the reservation, bound to the address space
\* the GPU uses, active from then on (i915_gem_execbuffer.c).
Exec(o, mappable, ok) ==
    \E r \in Pin(mm, o, mappable, FALSE, ok) :
       LET p == IF aliasing /\ ~r.mm.obj[o].hasP THEN PpgttBind(r.mm, o, r.mm.obj[o].level) ELSE r.mm IN
       Become(IF r.ret # "0" THEN r.mm
              ELSE [Unpinned(p, o) EXCEPT !.active = Append(Without(@, o), o), !.inactive = Without(@, o)])

\* A fault of a mapping, and pwrite through the aperture
Access(o, nonblocking, ok) ==
    \E r \in Pin(mm, o, TRUE, nonblocking, ok) :
       Become(IF r.ret # "0" THEN r.mm
              ELSE [Unpinned(r.mm, o) EXCEPT !.inactive = IF o \in ToSet(@) THEN Append(Without(@, o), o) ELSE @])
\* pread and pwrite on the pages, whatever i915_gem_madvise_ioctl was told
GetPages(o) == ~mm.obj[o].pages /\ Become([mm EXCEPT !.obj[o].pages = TRUE])

Madvise(o, advice) ==
    LET b == mm.obj[o] IN
    /\ b.pin = 0 /\ b.madv # advice
    /\ Become(IF b.madv = "purged" THEN mm
              ELSE [mm EXCEPT !.obj[o].madv = IF advice = "dont" /\ ~b.pages THEN "purged" ELSE advice])
SetCaching(o, level, ok) == mm.obj[o].level # level /\ Become(SetCacheLevel(mm, o, level, ok).mm)

\* i915_gem_inactive_shrink: a purge, a shrink of everything, and when that gave
\* little, i915_gem_evict_everything and the pages of all that is unbound.
Shrunk(m, o) == PutPages(Unbind(m, o, TRUE).mm, o)
ShrinkAll(m, all, only) ==
    FoldLeft(Shrunk, m, SetToSeq({o \in BindObjs : m.obj[o].pages /\ m.obj[o].node = None /\ m.obj[o].madv \in only})
                        \o (IF all THEN SelectSeq(m.inactive, LAMBDA o : m.obj[o].madv \in only) ELSE <<>>))
EvictEverything(m) ==
    EvictAll(m, SelectSeq(m.inactive \o m.active, LAMBDA o : m.obj[o].pin = 0), TRUE).mm
Shrink(idle) ==
    LET m == ShrinkAll(ShrinkAll(mm, TRUE, {"dont"}), TRUE, {"will", "dont", "purged"})
        last == ShrinkAll(IF idle THEN EvictEverything(m) ELSE m, FALSE, {"will", "dont", "purged"})
    IN  /\ mishap' = PurgedTwice(mm)
        /\ mm' = last /\ UNCHANGED <<llc, aliasing>>

Retire == mm.active # <<>> /\ Become(FinishGpu(mm, Head(mm.active)))
\* The last reference goes, whoever had pinned it.
Free(o) ==
    /\ ~mm.obj[o].scan /\ o \notin ToSet(mm.active) /\ mm.obj[o] # NewObject
    /\ LET m == PutPages(Unbind([mm EXCEPT !.obj[o].pin = 0], o, TRUE).mm, o) IN
       /\ mishap' = (mm.obj[o].pages /\ mm.obj[o].madv = "purged")
       /\ mm' = [m EXCEPT !.obj[o] = NewObject] /\ UNCHANGED <<llc, aliasing>>
\* i915_gem_restore_gtt_mappings, after the table was lost in a suspend
RestoreMappings ==
    /\ mm.active = <<>>
    /\ Become(FoldSet(LAMBDA o, m : GttBind(m, o, m.obj[o].level),
                      [mm EXCEPT !.ggtt = [e \in Entries |-> Scratch]], Bound(mm)))

BindNext ==
    /\ ~mishap
    /\ \/ \E ok \in {TRUE, mm.active = <<>>} :
             \/ \E o \in PinnedByUser, f \in BindFiles : PinIoctl(f, o, ok)
             \/ \E o \in Shown : PinDisplay(o, ok)
             \/ \E o \in BindObjs, flag \in BOOLEAN : Exec(o, flag, ok) \/ Access(o, flag, ok)
             \/ \E o \in Cached, level \in {"none", "llc"} : SetCaching(o, level, ok)
       \/ \E o \in PinnedByUser, f \in BindFiles : UnpinIoctl(f, o)
       \/ \E o \in Shown : UnpinDisplay(o)
       \/ \E o \in BindObjs : GetPages(o) \/ Free(o)
       \/ \E o \in Advised, advice \in {"will", "dont"} : Madvise(o, advice)
       \/ \E idle \in BOOLEAN : Shrink(idle)
       \/ Retire \/ RestoreMappings
BindSpec == BindInit /\ [][BindNext]_bindVars
------------------------------------------------------------------------------
BindTypeOK ==
    /\ {mm.ggtt, mm.ppgtt} \subseteq [Entries -> [obj : BindObjs \cup {None}, page : Nat, level : {"none", "llc"}]]
    /\ \A o \in BindObjs : /\ mm.obj[o].pin \in 0 .. 2 /\ mm.obj[o].users \in 0 .. MaxUserPins
                           /\ mm.obj[o].madv \in {"will", "dont", "purged"}

\* A table says of every entry what is bound there, at its cache level; the
\* rest is the scratch page.
PtesExact ==
    \A e \in Entries :
        /\ mm.ggtt[e] = LET B == {o \in Bound(mm) : mm.obj[o].hasG /\ e \in Span(mm, o)} IN
              IF B = {} THEN Scratch ELSE LET o == CHOOSE o \in B : TRUE IN
              [obj |-> o, page |-> e - mm.obj[o].node.start, level |-> mm.obj[o].level]
        /\ mm.ppgtt[e].obj # None => LET o == mm.ppgtt[e].obj IN
              mm.obj[o].hasP /\ e \in Span(mm, o) /\ mm.ppgtt[e].level = mm.obj[o].level
\* What the tables show has its pages; an active object is in a table.
PagesHeld ==
    \A o \in BindObjs : /\ mm.obj[o].node # None => mm.obj[o].pages /\ mm.obj[o].madv # "purged"
                        /\ o \in ToSet(mm.active) => mm.obj[o].hasG \/ mm.obj[o].hasP
\* Nodes are apart, and a snooped one does not touch one that is not.
NodesApart ==
    \A o, p \in Bound(mm) : o # p /\ mm.obj[o].node.start <= mm.obj[p].node.start =>
        LET gap == IF llc \/ mm.obj[o].level = mm.obj[p].level THEN 0 ELSE 1 IN
        NodeEnd(mm, o) + gap <= mm.obj[p].node.start
\* A pinned object stays where its users were told it is, within the aperture.
PinsHold ==
    \A o \in BindObjs : LET b == mm.obj[o] IN
        /\ b.pin = (IF b.users > 0 THEN 1 ELSE 0) + (IF b.scan THEN 1 ELSE 0)
        /\ b.pin > 0 => b.node # None /\ b.hasG /\ b.mf
        /\ b.told # None => b.node.start = b.told
        /\ b.mf /\ b.node # None => b.node.start + PageLen[o] <= Mappable /\ b.node.start % FenceLen[o] = 0
        /\ b.scan => b.level = "none"
ListsExact ==
    /\ IsInjective(mm.inactive \o mm.active)
    /\ Bound(mm) = ToSet(mm.inactive) \cup ToSet(mm.active)
BindSafe == ~mishap => PtesExact /\ PagesHeld /\ NodesApart /\ PinsHold /\ ListsExact
=============================================================================
