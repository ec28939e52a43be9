------------------------------- MODULE DrmMm -------------------------------
(***************************************************************************)
(* The range allocator (drm/drm_mm.c): a list of nodes in address order,   *)
(* the holes between them on a stack, and the eviction scan, which takes   *)
(* nodes off the list to see whether the gap they leave is large enough,   *)
(* and must put them back.                                                 *)
(*                                                                         *)
(* The allocator has no lock but that of the spare nodes: its users call   *)
(* it under theirs.  An action is a call.  The user of the scan is         *)
(* i915_gem_evict_something: it stops at a hit, takes all nodes out of the *)
(* scan again, last one first, and frees those it is told to.              *)
(***************************************************************************)
EXTENDS Integers, SequencesExt

CONSTANTS
    Nodes, HeadNode, None,
    End,         \* the managed range is 0 .. End - 1
    Requests,    \* the requests that clients make
    Target       \* MM_UNUSED_TARGET

\* The size of a request is positive; what is out of the managed range is not
\* given out, whatever lo and hi are.
MmAssumption ==
    /\ HeadNode \notin Nodes /\ None \notin Nodes \cup {HeadNode}
    /\ End \in Nat \ {0} /\ Target \in Nat
    /\ Requests \subseteq [size : Nat \ {0}, align : Nat, color : Nat, lo : Nat, hi : Nat,
                          best : BOOLEAN]

VARIABLES
    colored, \* color_adjust is i915_gtt_color_adjust
    list,    \* head_node.node_list
    node,    \* start, size and color of each node
    hole,    \* the nodes, or HeadNode, with hole_follows
    stack,   \* hole_stack
    scanned, \* the nodes taken off the list by the scan, last one first
    ask,     \* what the scan looks for
    hit,     \* scan_hit_start and scan_hit_end
    marked,  \* the nodes that the scan says to evict
    unused   \* num_unused

mmVars == <<colored, list, node, hole, stack, scanned, ask, hit, marked, unused>>

NoAsk == [size |-> 0]
Cleared == [start |-> 0, size |-> 0, color |-> 0]
NoHit == [start |-> 0, end |-> 0]
OffList      == {scanned[i].node : i \in DOMAIN scanned}
Allocated(n) == n \in ToSet(list) \cup OffList

MmInit ==
    /\ colored \in BOOLEAN
    /\ list = <<>> /\ hole = {HeadNode} /\ stack = <<HeadNode>>
    /\ node = [n \in Nodes |-> Cleared]
    /\ scanned = <<>> /\ ask = NoAsk /\ hit = NoHit /\ marked = {} /\ unused = 0

-----------------------------------------------------------------------------
(* Holes                                                                   *)

Position(l, n)  == CHOOSE i \in DOMAIN l : l[i] = n
IndexIn(l, n)   == IF n = HeadNode THEN 0 ELSE Position(l, n)
NextIn(l, n)    == IF IndexIn(l, n) = Len(l) THEN HeadNode ELSE l[IndexIn(l, n) + 1]
PrevIn(l, n)    == IF IndexIn(l, n) = 1 THEN HeadNode ELSE l[IndexIn(l, n) - 1]
After(l, p, n)  == InsertAt(l, IndexIn(l, p) + 1, n)
Without(l, n)   == IF n \in ToSet(l) THEN RemoveAt(l, Position(l, n)) ELSE l
HoleStart(n)    == IF n = HeadNode THEN 0 ELSE node[n].start + node[n].size
HoleEnd(l, n)   == IF NextIn(l, n) = HeadNode THEN End ELSE node[NextIn(l, n)].start

Larger(a, b)  == IF a > b THEN a ELSE b
Smaller(a, b) == IF a < b THEN a ELSE b
Color(n)      == IF n = HeadNode THEN 0 ELSE node[n].color

\* Mutant: only the neighbour below is looked at
AdjustBelow(l, n, color, s, e) == <<IF colored /\ Color(n) # color THEN s + 1 ELSE s, e>>

\* A page stays free next to a neighbour of another colour.
ColorAdjust(l, n, color, s, e) ==
    LET below == colored /\ Color(n) # color
        above == colored /\ NextIn(l, n) # HeadNode /\ Color(NextIn(l, n)) # color
    IN  <<IF below THEN s + 1 ELSE s, IF above THEN e - 1 ELSE e>>

\* The part of the hole after n that a request may use
Usable(l, n, r) == ColorAdjust(l, n, r.color, Larger(HoleStart(n), r.lo),
                               Smaller(HoleEnd(l, n), r.hi))
Align(s, a)     == IF a = 0 \/ s % a = 0 THEN s ELSE s + a - (s % a)

\* Mutant: the hole is not aligned before its size is tested
CheckUnaligned(u, r) == u[2] - u[1] >= r.size

CheckFreeHole(u, r)  == u[2] - u[1] >= r.size /\ u[2] >= Align(u[1], r.align) + r.size

Fits(n, r) == LET u == Usable(list, n, r)
              IN  (colored => u[2] > u[1]) /\ CheckFreeHole(u, r)

\* entry->size: the size of the node before the hole, not that of the hole
EntrySize(n) == IF n = HeadNode THEN End + 1 ELSE node[n].size

\* drm_mm_search_free_in_range_generic; the other one has lo = 0, hi = End.  The
\* first hole of the stack that fits, or the first of those that fit best
Found(r) == {i \in DOMAIN stack : Fits(stack[i], r)}
Worse(i, j, r) == r.best /\ EntrySize(stack[i]) > EntrySize(stack[j])
Search(r) ==
    IF Found(r) = {} THEN None
    ELSE stack[CHOOSE i \in Found(r) : \A j \in Found(r) :
                   ~Worse(i, j, r) /\ (Worse(j, i, r) \/ i <= j)]

-----------------------------------------------------------------------------
(* Insertion and removal                                                   *)

\* drm_mm_insert_helper_range: n goes into the hole after h.
InsertHelper(h, n, r) ==
    LET s == Align(Usable(list, h, r)[1], r.align)
        fills == s = HoleStart(h)
        rest  == s + r.size < HoleEnd(list, h)
        below == IF fills THEN Without(stack, h) ELSE stack
    IN  /\ node' = [node EXCEPT ![n] = [start |-> s, size |-> r.size, color |-> r.color]]
        /\ list' = After(list, h, n)
        /\ hole' = (IF fills THEN hole \ {h} ELSE hole) \cup (IF rest THEN {n} ELSE {})
        /\ stack' = IF rest THEN <<n>> \o below ELSE below

\* drm_mm_kmalloc: a spare node when the heap has none
Kmalloc == unused' = unused \/ (unused > 0 /\ unused' = unused - 1)

\* drm_mm_insert_node_in_range_generic, or search and drm_mm_get_block_range
GetBlock(n, r) ==
    /\ ask = NoAsk /\ ~Allocated(n)
    /\ Search(r) # None /\ InsertHelper(Search(r), n, r)
    /\ Kmalloc
    /\ UNCHANGED <<colored, scanned, ask, hit, marked>>

\* Mutant: a hole that is there already stays where it is on the stack, and
\* one that comes into being is forgotten.
UnlinkOnly(n) ==
    /\ list' = Without(list, n)
    /\ hole' = (hole \ {n}) \cup {PrevIn(list, n)}
    /\ stack' = Without(stack, n)

\* drm_mm_remove_node: the hole before n, made larger, comes to the top.
Unlink(n) ==
    LET p == PrevIn(list, n)
    IN  /\ list' = Without(list, n)
        /\ hole' = (hole \ {n}) \cup {p}
        /\ stack' = <<p>> \o Without(Without(stack, n), p)

PutBlock(n) ==
    /\ ask = NoAsk \/ (scanned = <<>> /\ n \in marked)
    /\ n \in ToSet(list) /\ Unlink(n)
    /\ node' = [node EXCEPT ![n] = Cleared]
    /\ marked' = marked \ {n}
    /\ unused' = IF unused < Target THEN unused + 1 ELSE unused
    /\ UNCHANGED <<colored, scanned, ask, hit>>

\* drm_mm_pre_get, which stops when the heap is exhausted
PreGet ==
    /\ ask = NoAsk /\ unused < Target /\ unused' \in unused .. Target
    /\ UNCHANGED <<colored, list, node, hole, stack, scanned, ask, hit, marked>>

\* drm_mm_takedown and drm_mm_init
Takedown ==
    /\ ask = NoAsk /\ list = <<>> /\ unused' = 0
    /\ hole' = {HeadNode} /\ stack' = <<HeadNode>>
    /\ UNCHANGED <<colored, list, node, scanned, ask, hit, marked>>

-----------------------------------------------------------------------------
(* The scan                                                                *)

InitScan(r) ==
    /\ ask = NoAsk /\ list # <<>> /\ Search(r) = None
    /\ ask' = r /\ hit' = NoHit /\ marked' = {}
    /\ UNCHANGED <<colored, list, node, hole, stack, scanned, unused>>

ScanAddBlock(n) ==
    /\ ask # NoAsk /\ hit = NoHit /\ marked = {} /\ n \in ToSet(list)
    /\ LET p == PrevIn(list, n)
           l == Without(list, n)
       IN  /\ scanned' = <<[node |-> n, prev |-> p, precedes |-> p \in hole]>> \o scanned
           /\ list' = l /\ hole' = hole \cup {p}
           /\ hit' = IF CheckFreeHole(Usable(l, p, ask), ask)
                     THEN [start |-> HoleStart(p), end |-> HoleEnd(l, p)] ELSE NoHit
    /\ UNCHANGED <<colored, node, stack, ask, marked, unused>>

\* Mutant: a node is put back without its word on the hole before it
KeepHole(t) == hole

\* hole_follows of the node before one that is put back
HoleBack(t) == IF t.precedes THEN hole \cup {t.prev} ELSE hole \ {t.prev}

\* Mutant: a node counts only when it lies below the end of the hit
BelowHit(l, n) == HoleEnd(l, n) > hit.start /\ node[n].start + node[n].size < hit.end

\* Whether to evict n, which is back on the list l
InHit(l, n) == HoleEnd(l, n) > hit.start /\ node[n].start < hit.end

\* Once a hit is found, or the user has no more nodes: last one first
ScanRemoveBlock ==
    /\ scanned # <<>>
    /\ LET t == Head(scanned)
           l == After(list, t.prev, t.node)
       IN  /\ list' = l /\ hole' = HoleBack(t)
           /\ marked' = IF InHit(l, t.node) THEN marked \cup {t.node} ELSE marked
           /\ scanned' = Tail(scanned)
           /\ IF hit = NoHit /\ Len(scanned) = 1
              THEN ask' = NoAsk ELSE ask' = ask
    /\ UNCHANGED <<colored, node, stack, hit, unused>>

\* The search after an eviction, "immediately following"
Refill(n) ==
    /\ ask # NoAsk /\ hit # NoHit /\ scanned = <<>> /\ marked = {} /\ ~Allocated(n)
    /\ Search(ask) # None /\ InsertHelper(Search(ask), n, ask)
    /\ Kmalloc
    /\ ask' = NoAsk /\ hit' = NoHit
    /\ UNCHANGED <<colored, scanned, marked>>

MmNext ==
    \/ \E n \in Nodes : \/ \E r \in Requests : GetBlock(n, r)
                        \/ PutBlock(n) \/ ScanAddBlock(n) \/ Refill(n)
    \/ \E r \in Requests : InitScan(r)
    \/ ScanRemoveBlock \/ PreGet \/ Takedown

MmSpec == MmInit /\ [][MmNext]_mmVars

-----------------------------------------------------------------------------
(* Properties                                                              *)

MmTypeOK ==
    /\ colored \in BOOLEAN /\ list \in Seq(Nodes) /\ stack \in Seq(Nodes \cup {HeadNode})
    /\ node \in [Nodes -> [start : 0 .. End, size : 0 .. End, color : Nat]]
    /\ hole \subseteq Nodes \cup {HeadNode} /\ marked \subseteq Nodes
    /\ unused \in 0 .. Target

Ranges == INSTANCE RangeSet WITH
    taken <- [n \in Nodes |-> IF Allocated(n)
        THEN [lo |-> node[n].start, hi |-> node[n].start + node[n].size]
        ELSE [lo |-> 0, hi |-> 0]]

\* The refinement: clients own disjoint ranges, whatever the scan does.
OwnRanges == Ranges!Spec

\* hole_follows says exactly which nodes have free space after them, and those
\* are on the stack once each: also after a scan has taken nodes off and put
\* them back.  These are the BUG_ONs of drm_mm_remove_node and of the searches.
HolesExact == scanned = <<>> =>
    /\ hole = {n \in ToSet(list) \cup {HeadNode} : HoleStart(n) < HoleEnd(list, n)}
    /\ ToSet(stack) = hole /\ \A i, j \in DOMAIN stack : stack[i] = stack[j] => i = j

\* Nodes of two colours do not touch (i915_gem_valid_gtt_space).
ColorsApart == colored => \A m, n \in ToSet(list) :
    node[m].start + node[m].size = node[n].start => node[m].color = node[n].color

\* A search that fails is right: there is no place for the request.
Place(s, r) == /\ s >= r.lo /\ s + r.size <= Smaller(r.hi, End) /\ s = Align(s, r.align)
               /\ \A n \in ToSet(list) : s + r.size <= node[n].start
                                         \/ node[n].start + node[n].size <= s
SearchComplete == scanned = <<>> /\ ~colored =>
    \A r \in Requests : Search(r) = None <=> \A s \in 0 .. End : ~Place(s, r)

\* The scan pays: when the nodes it has marked are gone, there is a hole for
\* the request, and it is the one on top (drm_mm_scan_remove_block: "will then
\* return the just freed block").
ScanPays == ask # NoAsk /\ hit # NoHit /\ scanned = <<>> /\ marked = {} =>
    Search([ask EXCEPT !.best = FALSE]) = Head(stack)

\* The free holes are exactly what lies between the nodes, colours keep their
\* distance, a search that fails has nothing to find, and the nodes that a scan
\* says to evict make room for what was asked (drm_mm.c).
MmSafe == HolesExact /\ ColorsApart /\ SearchComplete /\ ScanPays
=============================================================================
