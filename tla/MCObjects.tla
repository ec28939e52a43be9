------------------------------ MODULE MCObjects ------------------------------
(***************************************************************************)
(* The objects of drm_gem.c with two files of a thread each, and, as the   *)
(* other parts, the activity of an object on a GPU with one ring, which in *)
(* the last hangs and is not to be reset.                                  *)
(***************************************************************************)
EXTENDS DrmGem, Integers, Sequences, TLC

CONSTANTS f1, f2, t1, t2, buffer, Nobody

VARIABLES part,
          mutex, next, olr, dirty, requests, active, ring, lastRead, lastWrite, sync, semaphores,
          hw, hws, mbox, hung, moved, irq, wedged, recovered, hangcheck, work, retire, job, batches, hangs

ringVars == <<mutex, next, olr, dirty, requests, active, ring, lastRead, lastWrite, sync, semaphores,
              hw, hws, mbox, hung, moved, irq, wedged, recovered, hangcheck, work, retire, job, batches, hangs>>

\* Two files with a thread each, or one file with two threads.
OneEach == t1 :> f1 @@ t2 :> f2
Shared == t1 :> f1 @@ t2 :> f1
OneRing == INSTANCE I915Gem WITH NumRings <- 1, Objects <- {buffer}, Mod <- 10,
               FirstSeqnos <- {8, 9}, RingRequests <- 2, SemaphoreModes <- {TRUE}, Cliprects <- FALSE,
               Hangcheck <- FALSE, TryReset <- TRUE, Ops <- {"exec", "unbind", "read", "write", "wait", "waitfor", "throttle"},
               Signals <- TRUE, MaxBatches <- 2, MaxHangs <- 0, th <- job
Stuck == INSTANCE I915Gem WITH NumRings <- 1, Objects <- {buffer}, Mod <- 8,
             FirstSeqnos <- {6}, RingRequests <- 2, SemaphoreModes <- {FALSE}, Cliprects <- FALSE,
             Hangcheck <- TRUE, TryReset <- FALSE, Ops <- {"exec", "unbind"},
             Signals <- FALSE, MaxBatches <- 1, MaxHangs <- 1, th <- job
ASSUME /\ OneRing!GemAssumption /\ OneRing!FewBatches /\ OneRing!Plain
       /\ Stuck!GemAssumption /\ Stuck!FewBatches /\ Stuck!Plain

ObjectsInit == /\ part \in {"handles", "activity", "stuck"} /\ Init
               /\ IF part = "stuck" THEN Stuck!Init ELSE OneRing!Init /\ (part = "handles" => next = 9)
ObjectsNext ==
    \/ part = "handles" /\ Next /\ UNCHANGED <<part, ringVars>>
    \/ part = "activity" /\ OneRing!Next /\ UNCHANGED <<part, vars>>
    \/ part = "stuck" /\ Stuck!Next /\ UNCHANGED <<part, vars>>
ObjectsSpec == ObjectsInit /\ [][ObjectsNext]_<<part, vars, ringVars>>

\* The CPU gets an object when the GPU has done with it, and until then its last
\* write and the request that will retire it are known (i915_gem.c).
ActivitySafe == /\ part = "activity" => OneRing!ActivitySafe
                /\ part = "stuck" => Stuck!ActivitySafe

Symmetry == Permutations(Objects)
Symmetric == {t1 :> t2 @@ t2 :> t1 @@ f1 :> f2 @@ f2 :> f1} \cup Symmetry
=============================================================================
