------------------------------ MODULE DrmBufs ------------------------------
(***************************************************************************)
(* The maps of the legacy interface (drm_bufs.c): what a map holds, the    *)
(* hardware lock that lives in one of them, the AGP memory that others lie *)
(* in (drm_agpsupport.c), scatter memory (drm_scatter.c) and the contexts  *)
(* whose private area is a map (drm_context.c).                            *)
(*                                                                         *)
(* Grain: the ioctls run under drm_global_mutex, so each is one step.  A   *)
(* slot is the memory of a map and of its list entry, used again.          *)
(***************************************************************************)
EXTENDS Integers, FiniteSets

CONSTANTS Slots, Masters, Memories, NoSlot, NoMaster,
          Area,       \* the address of a register block and of a frame buffer
          Aperture,   \* the AGP aperture is Base .. Base + Aperture - 1
          Contexts,   \* bound: the context handles
          Bounds      \* bound: the values that may appear in a step's request

BufsAssumption ==
    /\ NoSlot \notin Slots /\ NoMaster \notin Masters /\ IsFiniteSet(Slots)
    /\ Area \in Nat \ {0} /\ Aperture \in Nat \ {0}
    /\ Contexts \subseteq Nat \ {0} /\ IsFiniteSet(Contexts)
    /\ Bounds \subseteq Nat \ {0}

VARIABLES
    topic,      \* bound: what the clients use of the interface
    map,        \* dev->maplist: a struct drm_map_list with its drm_local_map
    backing,    \* the pages mapped or allocated for a slot's map
    mtrr,       \* write-combining ranges that the maps have registered
    hw_lock,    \* master->lock.hw_lock, the slot whose memory it points into
    primary,    \* external: dev->primary->master
    acquired,   \* dev->agp->acquired
    memory,     \* dev->agp->memory: pages and bound address, 0 if not bound
    bridge,     \* external: where the AGP bridge has bound a memory
    sg,         \* dev->sg
    ctx_idr,    \* the private map of a context handle, NoSlot for none
    ctxlist,    \* dev->ctxlist, how often each handle is on it
    switch,     \* dev->last_context and context_flag
    slip        \* the first thing the code has let go wrong, and no step follows
bufsVars == <<topic, map, backing, mtrr, hw_lock, primary, acquired, memory, bridge, sg, ctx_idr,
              ctxlist, switch, slip>>

Base   == 100
KernelAddress == 2000
ENOMEM == -12
NoMap  == [type |-> "none"]
Listed == {s \in Slots : map[s].type # "none"}
Shared(s) == map[s].type = "shm"
Locks(s)  == Shared(s) /\ map[s].lock

BufsInit ==
    /\ topic \in {"maps", "memory", "contexts"}
    /\ map = [s \in Slots |-> NoMap] /\ backing = [s \in Slots |-> 0] /\ mtrr = 0
    /\ hw_lock = [m \in Masters |-> NoSlot] /\ primary \in Masters
    /\ acquired = FALSE /\ memory = [e \in Memories |-> [pages |-> 0, bound |-> 0]]
    /\ bridge = [e \in Memories |-> 0] /\ sg = FALSE
    /\ ctx_idr = [c \in {} |-> NoSlot] /\ ctxlist = [c \in Contexts \cup {ENOMEM} |-> 0]
    /\ switch = [last |-> 0, flag |-> FALSE] /\ slip = "none"

agpVars == <<acquired, memory, bridge>>
ctxVars == <<ctx_idr, ctxlist, switch>>

\* What a request for a map says.
Ask(t, o, n) == [type |-> t, offset |-> o, size |-> n, lock |-> FALSE, removable |-> FALSE, wc |-> FALSE]
MapRequests ==
    CASE topic = "maps" ->
           {[Ask(t, Area, n) EXCEPT !.wc = w] : t \in {"registers", "framebuffer"}, n \in Bounds, w \in BOOLEAN}
           \cup {[Ask("shm", 0, n) EXCEPT !.lock = l, !.removable = v] : n \in Bounds, l \in BOOLEAN, v \in BOOLEAN}
           \cup {Ask("consistent", 0, 1)}
      [] topic = "memory" -> {Ask("agp", 0, 1), Ask("agp", Base + 1, 1), Ask("scatter", 0, 1)}
      [] topic = "contexts" -> {[Ask("shm", 0, 1) EXCEPT !.lock = v, !.removable = v] : v \in BOOLEAN}

\* A request for the lock and nothing else takes any shared map for its own.
Matches(s, r) ==
    /\ map[s].type = r.type /\ map[s].master = primary
    /\ CASE r.type = "shm" -> (r.lock /\ ~r.removable) \/ map[s].offset = r.offset
         [] OTHER -> map[s].offset = r.offset
\* Not the code: only shared maps are looked for.
MatchShared(r) == IF r.type = "shm" THEN {s \in Listed : Matches(s, r)} ELSE {}
drm_find_matching_map(r) ==
    IF r.type \in {"registers", "framebuffer", "shm"} THEN {s \in Listed : Matches(s, r)} ELSE {}

WriteCombined(r) == r.type = "framebuffer" \/ (r.type = "registers" /\ r.wc)
InAperture(o) == o \in Base .. Base + Aperture - 1
AgpOffset(o)  == IF InAperture(o) THEN o ELSE Base + o
Covered(o, n) == \E e \in Memories : /\ memory[e].pages > 0
                                     /\ o >= memory[e].bound /\ o + n <= memory[e].bound + memory[e].pages
Allocated == {e \in Memories : memory[e].pages > 0}
Keys   == {map[s].key : s \in Listed}
HashKeys == 1001 .. 1000 + Cardinality(Slots)
\* The address of a shared map needs more than 32 bits.
drm_map_handle(s, r) ==
    IF r.type = "shm" \/ r.offset \in Keys
    THEN CHOOSE k \in HashKeys : k \notin Keys
    ELSE r.offset

\* An earlier map of the same thing is used again, with the new size.
UseAgain(r) ==
    \E s \in drm_find_matching_map(r) :
        /\ map' = [map EXCEPT ![s].size = r.size]
        /\ slip' = CASE r.lock /\ ~map[s].lock -> "lockless"
                    [] Shared(s) /\ r.size > backing[s] -> "resized"
                    [] OTHER -> slip
        /\ UNCHANGED <<backing, mtrr, hw_lock>>

\* The map is built in the order of the code; each allocation may fail.
Build(r, s, m) ==
    /\ drm_find_matching_map(r) = {}
    /\ r.type = "agp" => Allocated = {} \/ Covered(AgpOffset(r.offset), r.size)
    /\ r.type = "scatter" => sg
    /\ r.lock => hw_lock[primary] = NoSlot
    /\ mtrr' = mtrr + (IF WriteCombined(r) THEN 1 ELSE 0)
    /\ backing' = [backing EXCEPT ![s] = IF r.type \in {"registers", "shm", "consistent"} THEN r.size ELSE 0]
    /\ hw_lock' = IF r.lock THEN [hw_lock EXCEPT ![primary] = s] ELSE hw_lock
    /\ map' = [map EXCEPT ![s] =
         LET o == CASE r.type = "agp" -> AgpOffset(r.offset) [] r.type = "shm" -> KernelAddress [] OTHER -> r.offset
         IN  [type |-> r.type, offset |-> o, size |-> r.size, lock |-> r.lock, wc |-> r.wc,
              removable |-> r.removable,
              key |-> drm_map_handle(s, [r EXCEPT !.offset = o]), master |-> m]]
    /\ UNCHANGED slip

\* No memory for the list entry, or none to map the registers: what the map has
\* registered or allocated by then stays, and the lock stays in it.  No token for
\* it (listed): the entry is freed and stays on the list.
Fail(r, s) ==
    /\ drm_find_matching_map(r) = {}
    /\ r.lock => hw_lock[primary] = NoSlot
    /\ mtrr' = mtrr + (IF WriteCombined(r) THEN 1 ELSE 0)
    /\ hw_lock' = IF r.lock THEN [hw_lock EXCEPT ![primary] = s] ELSE hw_lock
    /\ \E listed \in BOOLEAN :
           slip' = CASE listed -> "dangling" [] WriteCombined(r) -> "mtrr" [] r.lock -> "lock"
                     [] r.type \in {"shm", "consistent"} -> "memory" [] OTHER -> slip
    /\ UNCHANGED <<map, backing>>

\* A slot that no map uses and no lock points into.
Unused(s) == s \notin Listed /\ \A m \in Masters : hw_lock[m] # s

drm_addmap_core ==
    /\ \E r \in MapRequests : \/ UseAgain(r)
                           \/ \E s \in Slots : Unused(s) /\ (Build(r, s, primary) \/ Fail(r, s))
    /\ UNCHANGED <<primary, sg, agpVars, ctxVars>>

\* A map of the driver has no master.
drm_addmap ==
    /\ \E s \in Slots : /\ Unused(s)
                        /\ Build(Ask("registers", Area + 1, 1), s, NoMaster)
    /\ \A s \in Listed : map[s].offset # Area + 1
    /\ UNCHANGED <<primary, sg, agpVars, ctxVars>>

\* drm_rmmap_locked of a set of maps.
Removed(gone) ==
    /\ map' = [s \in Slots |-> IF s \in gone THEN NoMap ELSE map[s]]
    /\ backing' = [s \in Slots |-> IF s \in gone THEN 0 ELSE backing[s]]
    /\ mtrr' = mtrr - Cardinality({s \in gone : WriteCombined(map[s])})

\* Not the code: the lock stays.
UnlockNone(s) == UNCHANGED hw_lock
\* Only a shared map may be removable.  Any shared map of a master takes the
\* master's lock with it.
Unlock(s) == hw_lock' = [m \in Masters |-> IF map[s].master = m THEN NoSlot ELSE hw_lock[m]]
drm_rmmap_ioctl ==
    /\ \E s \in Listed :
           /\ Shared(s) /\ map[s].removable /\ Removed({s}) /\ Unlock(s)
           /\ slip' = IF \E m \in Masters : map[s].master = m /\ hw_lock[m] \notin {s, NoSlot}
                      THEN "unlocked" ELSE slip
    /\ UNCHANGED <<primary, sg, agpVars, ctxVars>>

drm_setmaster == \E m \in Masters \ {primary} :
    primary' = m /\ UNCHANGED <<map, backing, mtrr, hw_lock, sg, agpVars, ctxVars, slip>>
\* The last reference to a master goes; its memory becomes that of a new one.
drm_master_destroy ==
    /\ \E m \in Masters \ {primary} : /\ Removed({s \in Listed : map[s].master = m})
                                      /\ hw_lock' = [hw_lock EXCEPT ![m] = NoSlot]
    /\ UNCHANGED <<primary, sg, agpVars, ctxVars, slip>>

---------------------------------------------------------------------------
\* AGP memory.  The bridge refuses what does not fit or overlaps.
drm_agp_acquire ==
    /\ ~acquired /\ acquired' = TRUE
    /\ UNCHANGED <<map, backing, mtrr, hw_lock, primary, memory, bridge, sg, ctxVars, slip>>
\* What is bound stays bound.
drm_agp_release ==
    /\ acquired /\ acquired' = FALSE
    /\ UNCHANGED <<map, backing, mtrr, hw_lock, primary, memory, bridge, sg, ctxVars, slip>>

drm_agp_alloc ==
    /\ acquired
    /\ \E e \in Memories \ Allocated, n \in Bounds :
           memory' = [memory EXCEPT ![e] = [pages |-> n, bound |-> 0]]
    /\ UNCHANGED <<map, backing, mtrr, hw_lock, primary, acquired, bridge, sg, ctxVars, slip>>

Span(e, at)  == at .. at + memory[e].pages - 1
Fits(e, at)  == /\ Span(e, at) \subseteq Base .. Base + Aperture - 1
                /\ \A o \in Allocated \ {e} : bridge[o] = 0 \/ Span(e, at) \cap Span(o, bridge[o]) = {}
drm_agp_bind ==
    /\ acquired
    /\ \E e \in Allocated, at \in Base .. Base + Aperture - 1 :
           /\ memory[e].bound = 0 /\ Fits(e, at) /\ bridge[e] = 0
           /\ memory' = [memory EXCEPT ![e].bound = at] /\ bridge' = [bridge EXCEPT ![e] = at]
    /\ UNCHANGED <<map, backing, mtrr, hw_lock, primary, acquired, sg, ctxVars, slip>>

drm_agp_unbind ==
    /\ acquired
    /\ \E e \in Allocated : /\ memory[e].bound # 0
                            /\ memory' = [memory EXCEPT ![e].bound = 0]
                            /\ bridge' = [bridge EXCEPT ![e] = 0]
    /\ UNCHANGED <<map, backing, mtrr, hw_lock, primary, acquired, sg, ctxVars, slip>>

\* Freeing unbinds what is bound; maps that lie in the memory are not looked for.
\* Not the code: bound memory is freed as it is.
FreeBound(e) ==
    /\ memory' = [memory EXCEPT ![e] = [pages |-> 0, bound |-> 0]]
    /\ UNCHANGED bridge
FreeAgp(e) ==
    /\ memory' = [memory EXCEPT ![e] = [pages |-> 0, bound |-> 0]]
    /\ bridge' = [bridge EXCEPT ![e] = IF memory[e].bound # 0 THEN 0 ELSE @]
drm_agp_free ==
    /\ acquired
    /\ \E e \in Allocated : FreeAgp(e)
    /\ UNCHANGED <<map, backing, mtrr, hw_lock, primary, acquired, sg, ctxVars, slip>>

drm_sg_alloc ==
    /\ ~sg /\ sg' = TRUE
    /\ UNCHANGED <<map, backing, mtrr, hw_lock, primary, agpVars, ctxVars, slip>>
\* dev->sg is cleared before the handle is compared: a wrong one loses the memory.
drm_sg_free ==
    /\ sg /\ sg' = FALSE /\ \E right \in BOOLEAN : slip' = IF right THEN slip ELSE "scatter"
    /\ UNCHANGED <<map, backing, mtrr, hw_lock, primary, agpVars, ctxVars>>

\* The last file closes (a driver without mode setting).
drm_lastclose ==
    /\ memory' = [e \in Memories |-> [pages |-> 0, bound |-> 0]]
    /\ bridge' = [e \in Memories |-> IF memory[e].bound # 0 THEN 0 ELSE bridge[e]]
    /\ acquired' = FALSE /\ sg' = FALSE
    /\ UNCHANGED <<map, backing, mtrr, hw_lock, primary, ctxVars, slip>>

---------------------------------------------------------------------------
\* Contexts.  A failed allocation of the list entry leaves the handle taken; a
\* failed one of the handle is compared with -1 and taken for a handle.
drm_ctxbitmap_next == {c \in Contexts \ DOMAIN ctx_idr : \A d \in Contexts \ DOMAIN ctx_idr : c <= d}
drm_addctx ==
    /\ \E c \in drm_ctxbitmap_next \cup {ENOMEM}, ok \in BOOLEAN :
           /\ ctx_idr' = [d \in DOMAIN ctx_idr \cup ({c} \ {ENOMEM}) |-> IF d = c THEN NoSlot ELSE ctx_idr[d]]
           /\ ctxlist' = IF ok THEN [ctxlist EXCEPT ![c] = @ + 1] ELSE ctxlist
           /\ slip' = CASE c = ENOMEM /\ ok -> "numberless" [] c # ENOMEM /\ ~ok -> "context" [] OTHER -> slip
    /\ UNCHANGED <<map, backing, mtrr, hw_lock, primary, agpVars, sg, switch>>

drm_rmctx ==
    /\ \E c \in Contexts :
           /\ ctx_idr' = [d \in DOMAIN ctx_idr \ {c} |-> ctx_idr[d]]
           /\ ctxlist' = [ctxlist EXCEPT ![c] = 0]
    /\ UNCHANGED <<map, backing, mtrr, hw_lock, primary, agpVars, sg, switch, slip>>

\* A context may name a map that is then removed: the name stays.
drm_setsareactx ==
    /\ \E c \in DOMAIN ctx_idr, s \in Listed : ctx_idr' = [ctx_idr EXCEPT ![c] = s]
    /\ UNCHANGED <<map, backing, mtrr, hw_lock, primary, agpVars, sg, ctxlist, switch, slip>>

drm_context_switch ==
    /\ ~switch.flag
    /\ \E c \in {0} \cup Contexts : switch' = [switch EXCEPT !.flag = c # switch.last]
    /\ UNCHANGED <<map, backing, mtrr, hw_lock, primary, agpVars, sg, ctx_idr, ctxlist, slip>>
drm_context_switch_complete ==
    /\ hw_lock[primary] # NoSlot
    /\ \E c \in {0} \cup Contexts : switch' = [last |-> c, flag |-> FALSE]
    /\ UNCHANGED <<map, backing, mtrr, hw_lock, primary, agpVars, sg, ctx_idr, ctxlist, slip>>

BufsNext ==
    /\ slip = "none"
    /\ \/ drm_addmap_core \/ drm_rmmap_ioctl
       \/ topic = "maps" /\ (drm_addmap \/ drm_setmaster \/ drm_master_destroy)
       \/ /\ topic = "memory"
          /\ \/ drm_agp_acquire \/ drm_agp_release \/ drm_agp_alloc \/ drm_agp_bind \/ drm_agp_unbind
             \/ drm_agp_free \/ drm_sg_alloc \/ drm_sg_free \/ drm_lastclose
       \/ /\ topic = "contexts"
          /\ \/ drm_addctx \/ drm_rmctx \/ drm_setsareactx
             \/ drm_context_switch \/ drm_context_switch_complete
    /\ UNCHANGED topic
BufsSpec == BufsInit /\ [][BufsNext]_bufsVars

---------------------------------------------------------------------------
BufsTypeOK ==
    /\ \A s \in Listed : map[s].master \in Masters \cup {NoMaster} /\ map[s].size \in Bounds \cup {1}
    /\ backing \in [Slots -> Nat] /\ mtrr \in Nat /\ hw_lock \in [Masters -> Slots \cup {NoSlot}]
    /\ primary \in Masters /\ acquired \in BOOLEAN /\ sg \in BOOLEAN
    /\ memory \in [Memories -> [pages : Nat, bound : Nat]] /\ bridge \in [Memories -> Nat]
    /\ DOMAIN ctx_idr \subseteq Contexts /\ ctxlist \in [Contexts \cup {ENOMEM} -> Nat]
    /\ switch \in [last : {0} \cup Contexts, flag : BOOLEAN]

\* The lock of a master lies in a shared map of that master which is still on
\* the list, and a map made for a lock is the one its master uses
\* (drm_bufs.c:345, 579).
LockBacked ==
    slip = "none" =>
        /\ \A m \in Masters : hw_lock[m] # NoSlot =>
               Locks(hw_lock[m]) /\ map[hw_lock[m]].master = m /\ backing[hw_lock[m]] > 0
        /\ \A s \in Listed : Locks(s) => hw_lock[map[s].master] = s

\* A master has one map of a register block or frame buffer, however often it
\* asks, and no two maps have one token.
MapsApart ==
    \A s, t \in Listed : s # t =>
        /\ map[s].key # map[t].key
        /\ map[s].type \in {"registers", "framebuffer"} =>
               <<map[s].type, map[s].offset, map[s].master>> # <<map[t].type, map[t].offset, map[t].master>>

\* What is mapped, allocated and registered is what the maps on the list need.
ResourcesOwned ==
    slip = "none" =>
        /\ mtrr = Cardinality({s \in Listed : WriteCombined(map[s])})
        /\ \A s \in Slots : backing[s] > 0 <=> s \in Listed /\ map[s].type \in {"registers", "shm", "consistent"}
        /\ \A s \in Listed : Shared(s) => map[s].size <= backing[s]

\* The bridge has bound exactly what the list of AGP memory says is bound, so
\* none is freed bound, and no two overlap.
BridgeAgrees ==
    \A e \in Memories :
        /\ bridge[e] = memory[e].bound /\ (bridge[e] # 0 => e \in Allocated)
        /\ \A o \in Memories \ {e} : bridge[e] # 0 /\ bridge[o] # 0 => Span(e, bridge[e]) \cap Span(o, bridge[o]) = {}

\* A context handle that is taken is on the list once.
ContextsListed ==
    slip = "none" => \A c \in Contexts : ctxlist[c] = (IF c \in DOMAIN ctx_idr THEN 1 ELSE 0)

BufsSafe == LockBacked /\ MapsApart /\ ResourcesOwned /\ BridgeAgrees /\ ContextsListed
=============================================================================
