------------------------------ MODULE RangeSet ------------------------------
(***************************************************************************)
(* What a range allocator promises (drm/drm_mm.h): nodes own disjoint      *)
(* ranges of the managed space, and a node keeps its range until it is     *)
(* given back.                                                             *)
(***************************************************************************)
EXTENDS Integers

CONSTANTS Nodes, End

VARIABLE taken    \* the range of each node; empty for a node without one

Empty == [lo |-> 0, hi |-> 0]
Ranges == [lo : 0 .. End, hi : 0 .. End]
Overlap(r, s) == r.lo < s.hi /\ s.lo < r.hi

Init == taken = [n \in Nodes |-> Empty]

Take(n) ==
    /\ taken[n] = Empty
    /\ taken'[n] \in Ranges /\ taken'[n].lo < taken'[n].hi
    /\ \A m \in Nodes \ {n} : taken'[m] = taken[m] /\ ~Overlap(taken'[n], taken[m])

Give(n) == taken[n] # Empty /\ taken' = [taken EXCEPT ![n] = Empty]

Next == \E n \in Nodes : Take(n) \/ Give(n)

Spec == Init /\ [][Next]_taken
=============================================================================
