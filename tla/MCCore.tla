------------------------------- MODULE MCCore -------------------------------
(***************************************************************************)
(* The services of drm that do not know a driver, each for itself: a       *)
(* behaviour belongs to the part chosen at its start.                      *)
(***************************************************************************)
EXTENDS DrmFile, DrmMm, TLC

CONSTANTS f1, f2, f3, a1, a2, a3

VARIABLES part,
          topic, map, backing, mtrr, hw_lock, primary, acquired, memory, bridge, sg, ctx_idr,
          ctxlist, switch, slip,
          dma, entries, buflist, pages, bytes, pagelist, used, segments, open, stray

bufsVars  == <<topic, map, backing, mtrr, hw_lock, primary, acquired, memory, bridge, sg, ctx_idr,
               ctxlist, switch, slip>>
dmaVars   == <<dma, entries, buflist, pages, bytes, pagelist, used, segments, open, stray>>

Req(s, a, c, lo, hi, b) == [size |-> s, align |-> a, color |-> c, lo |-> lo, hi |-> hi, best |-> b]
MCRequests == {Req(1, 0, 0, 0, 5, FALSE), Req(2, 2, 1, 0, 6, FALSE),
               Req(2, 0, 0, 1, 6, TRUE), Req(3, 0, 0, 0, 6, FALSE)}
Bufs == INSTANCE DrmBufs WITH Slots <- {f1, f2}, Masters <- {"x", "y"}, Memories <- {f1, f2}, NoSlot <- NoFile, Area <- 3,
            Aperture <- 2, Contexts <- {1, 2}, Bounds <- {1, 2}
Dma == INSTANCE DrmDma WITH Clients <- {f1, f2}, NoClient <- NoFile, Shift <- 2, Orders <- {1, 3},
           Counts <- {1, 3}, MaxSegments <- 2, Handed <- {1, 2}
ASSUME MmAssumption /\ Bufs!BufsAssumption /\ Dma!DmaAssumption

CoreInit ==
    /\ part \in {"file", "mm", "bufs", "dma"}
    /\ Init /\ MmInit /\ Bufs!BufsInit /\ Dma!DmaInit
    /\ part # "mm" => ~colored
    /\ part # "bufs" => topic = "maps" /\ primary = "x"

CoreNext ==
    \/ part = "file" /\ Next /\ UNCHANGED <<part, mmVars, bufsVars, dmaVars>>
    \/ part = "mm" /\ MmNext /\ UNCHANGED <<part, vars, bufsVars, dmaVars>>
    \/ part = "bufs" /\ Bufs!BufsNext /\ UNCHANGED <<part, vars, mmVars, dmaVars>>
    \/ part = "dma" /\ Dma!DmaNext /\ UNCHANGED <<part, vars, mmVars, bufsVars>>

CoreSpec == CoreInit /\ [][CoreNext]_<<part, vars, mmVars, bufsVars, dmaVars>>

\* Every variable keeps its type (files and masters, ranges).
CoreTypeOK == CASE part = "file" -> TypeOK [] part = "mm" -> MmTypeOK
                [] part = "bufs" -> Bufs!BufsTypeOK [] part = "dma" -> Dma!DmaTypeOK


Symmetric == Permutations({f1, f2}) \cup Permutations({a1, a2})
=============================================================================
