----------------------------- MODULE SharedLock -----------------------------
(***************************************************************************)
(* What the TTM lock promises (drm/ttm/ttm_lock.h): a lock held by readers *)
(* together, by one writer alone, or by neither while a terminal switch or *)
(* a suspend holds the buffers.                                            *)
(***************************************************************************)
CONSTANTS Threads
VARIABLE holds

Kinds == {"none", "read", "write", "vt", "suspend"}
Holders(k) == {t \in Threads : holds[t] = k}

Init == holds = [t \in Threads |-> "none"]

Compatible(k) ==
    CASE k = "read" -> \A t \in Threads : holds[t] \in {"none", "read"}
      [] k = "write" -> \A t \in Threads : holds[t] = "none"
      [] k \in {"vt", "suspend"} -> \A t \in Threads : holds[t] \in {"none", "vt", "suspend"}

Take(t, k) == /\ holds[t] = "none" /\ k # "none" /\ Compatible(k)
              /\ holds' = [holds EXCEPT ![t] = k]
Drop(t) == holds' = [holds EXCEPT ![t] = "none"]

\* A writer becomes a reader without letting another writer in.
Downgrade(t) == holds[t] = "write" /\ holds' = [holds EXCEPT ![t] = "read"]

Next == \E t \in Threads : Drop(t) \/ Downgrade(t) \/ \E k \in Kinds : Take(t, k)
Spec == Init /\ [][Next]_holds
=============================================================================
