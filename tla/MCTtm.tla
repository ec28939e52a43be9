------------------------------- MODULE MCTtm -------------------------------
(***************************************************************************)
(* The parts of drm/ttm, each for itself: a behaviour belongs to the part  *)
(* chosen at its start.                                                    *)
(***************************************************************************)
EXTENDS TtmLock, TtmReserve, TLC

CONSTANTS Users, Files, Bases, RefTypes, Usage, MaxRefs,
          NumPages, AllocSize, MaxSize, Batch, MaxMem, SwapLimit, Retries,
          x, y,
          Worker, Swapper, Ghosts, Slots

VARIABLES part,
          base, named, kref, file, frefs, objjob, torn,
          dma32, tt, mempc, tries, list, npages, filling, broken, used, shrinking, miscounted,
          bo, ddestroy, bojob, armed, revived

objectVars == <<base, named, kref, file, frefs, objjob, torn>>
poolVars == <<dma32, tt, mempc, tries, list, npages, filling, broken, used, shrinking, miscounted>>
bufferVars == <<bo, ddestroy, bojob, armed, revived>>

Object == INSTANCE TtmObject WITH Threads <- Users, job <- objjob
Mem == INSTANCE TtmMem WITH Tts <- Users, pc <- mempc
Bo == INSTANCE TtmBo WITH Bos <- Buffers \cup Ghosts, job <- bojob
MCLists == {<<x, y>>, <<y, x>>, <<x>>, <<y>>}

ASSUME Mem!MemAssumption /\ ReserveAssumption

Init ==
    /\ part \in {"lock", "object", "mem", "reserve", "bo"}
    /\ LockInit /\ Object!ObjInit /\ Mem!MemInit /\ ResInit /\ Bo!BoInit
    /\ part # "lock" => calls = Calls
    /\ part # "mem" => ~dma32
    /\ part # "reserve" => who = Threads \cup Plain

Next ==
    \/ part = "lock" /\ LockNext
       /\ UNCHANGED <<part, objectVars, poolVars, resVars, bufferVars>>
    \/ part = "object" /\ Object!ObjNext
       /\ UNCHANGED <<part, lockVars, poolVars, resVars, bufferVars>>
    \/ part = "mem" /\ Mem!MemNext
       /\ UNCHANGED <<part, lockVars, objectVars, resVars, bufferVars>>
    \/ part = "reserve" /\ ResNext
       /\ UNCHANGED <<part, lockVars, objectVars, poolVars, bufferVars>>
    \/ part = "bo" /\ Bo!BoNext
       /\ UNCHANGED <<part, lockVars, objectVars, poolVars, resVars>>

vars == <<part, lockVars, objectVars, poolVars, resVars, bufferVars>>
Spec == Init /\ [][Next]_vars

\* Every variable keeps its type (the lock modes, the object tables, the page
\* and memory counters, the reservations and the buffers).
TypeOK == CASE part = "lock" -> LockTypeOK [] part = "object" -> Object!ObjTypeOK
            [] part = "mem" -> Mem!MemTypeOK [] part = "reserve" -> ResTypeOK
            [] part = "bo" -> Bo!BoTypeOK

\* The references of objects and files are exact, an object lives while it is
\* referenced, and only its file sees what is not shared (ttm_object.c); the page
\* pool counts its pages, used_mem is what buffers hold, and no buffer loses its
\* contents in swapping or caching changes (ttm_memory.c, ttm_tt.c).
CountsExact == CASE part = "object" -> Object!ObjectsSafe [] part = "mem" -> Mem!MemSafe [] OTHER -> TRUE
\* References of the lists are exact, a freed buffer is used nowhere, video
\* memory is given to one buffer, and mappings are current (ttm_bo.c).
BoSafe == part = "bo" => Bo!BoSafe

Symmetric == Permutations(Threads) \cup Permutations(Users) \cup Permutations(Buffers)
=============================================================================
