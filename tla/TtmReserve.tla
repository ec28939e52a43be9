---------------------------- MODULE TtmReserve ----------------------------
(***************************************************************************)
(* Reservation of TTM buffers (drm/ttm/ttm_bo.c) and of all buffers of a   *)
(* command stream (drm/ttm/ttm_execbuf_util.c): validators reserve lists   *)
(* of buffers in any order, and the younger of two backs off.              *)
(*                                                                         *)
(* All of it runs under lru_lock, which a validator gives up only to sleep *)
(* and when it is done; so the lock has an owner here, and a step is what  *)
(* the owner does for one buffer.                                          *)
(***************************************************************************)
EXTENDS Integers, FiniteSets, Sequences

CONSTANTS
    Validators, Plain, \* threads that validate lists, and that reserve one buffer
    Buffers, Nobody,
    Lists,             \* the lists that validators reserve
    SeqMod, MaxStarts  \* in place of 2^32; how many sequence numbers are given out

ReserveAssumption ==
    /\ SeqMod \in Nat /\ MaxStarts \in Nat \ {0} /\ 2 * MaxStarts <= SeqMod
    /\ Validators \cap Plain = {} /\ Nobody \notin Validators \cup Plain \cup Int
    /\ IsFiniteSet(Plain) /\ Lists \subseteq Seq(Buffers)

VARIABLES
    who,     \* the threads that reserve
    lru,     \* the owner of lru_lock
    holder,  \* who has reserved each buffer
    seq,     \* val_seq of each buffer, Nobody when it is not valid
    onLru,   \* the buffers on the LRU and swap lists
    lref,    \* list_kref
    writers, \* cpu_writers
    valSeq, starts,
    entry,   \* the entries of each validator: reserved, removed, put_count
    job      \* each thread's place, list, number and the buffer it is at

resVars == <<who, lru, holder, seq, onLru, lref, writers, valSeq, starts, entry, job>>
Reservers == Validators \cup Plain
HeldBy(v) == {b \in Buffers : entry[v][b].reserved}
NoEntry == [b \in Buffers |-> [reserved |-> FALSE, removed |-> FALSE, put |-> 0]]
NoJob == [pc |-> "idle", list |-> <<>>, my |-> 0, at |-> Nobody]

ResInit ==
    /\ who = Reservers \/ \E v, w \in Validators : who = {v, w}
    /\ lru = Nobody /\ holder = [b \in Buffers |-> Nobody] /\ seq = [b \in Buffers |-> Nobody]
    /\ onLru = Buffers /\ lref = [b \in Buffers |-> 3] /\ writers = [b \in Buffers |-> 0]
    /\ valSeq = SeqMod - 1 /\ starts = 0
    /\ entry = [v \in Validators |-> NoEntry]
    /\ job = [t \in Reservers |-> NoJob]

Newer(a, b) == (a - b) % SeqMod < SeqMod \div 2
NextSeq(v) == valSeq' = (valSeq + 1) % SeqMod /\ starts' = starts + 1

\* wakeup(bo)
Woken(j, B) == [t \in Reservers |-> IF j[t].pc \in {"asleep", "slowasleep"} /\ j[t].at \in B
    THEN [j[t] EXCEPT !.pc = IF @ = "asleep" THEN "woken" ELSE "slowwoken"] ELSE j[t]]

-----------------------------------------------------------------------------
(* Validation                                                              *)

\* ttm_eu_reserve_buffers
Start(v, l) ==
    /\ v \in who /\ job[v].pc = "idle" /\ lru = Nobody /\ starts < MaxStarts
    /\ lru' = v /\ NextSeq(v)
    /\ job' = [job EXCEPT ![v] = [pc |-> "run", list |-> l, my |-> valSeq, at |-> Nobody]]
    /\ entry' = [entry EXCEPT ![v] = NoEntry]
    /\ UNCHANGED <<who, holder, seq, onLru, lref, writers>>

\* The first buffer of the list that is not reserved yet
Turn(v, b) ==
    /\ lru = v /\ job[v].pc = "run" /\ ~entry[v][b].reserved
    /\ \E i \in DOMAIN job[v].list :
          job[v].list[i] = b /\ \A k \in 1 .. i - 1 : entry[v][job[v].list[k]].reserved

\* ttm_eu_backoff_reservation_locked, and ttm_eu_list_ref_sub after it
Backoff(v) ==
    LET back == {b \in HeldBy(v) : entry[v][b].removed}
    IN  /\ onLru' = onLru \cup back
        /\ lref' = [b \in Buffers |-> lref[b] + (IF b \in back THEN 2 ELSE 0) - entry[v][b].put]
        /\ holder' = [b \in Buffers |-> IF b \in HeldBy(v) THEN Nobody ELSE holder[b]]
        /\ entry' = [entry EXCEPT ![v] = NoEntry]

\* The buffer is free: it takes the validator's number.  Whoever sleeps for it
\* is woken when the number went down, to look for a deadlock again.
Reserve(v, b) ==
    /\ holder[b] = Nobody
    /\ seq' = [seq EXCEPT ![b] = job[v].my]
    /\ LET j == IF seq[b] = Nobody \/ Newer(seq[b], job[v].my) THEN Woken(job, {b}) ELSE job
       IN  IF writers[b] = 0
           THEN /\ holder' = [holder EXCEPT ![b] = v]
                /\ entry' = [entry EXCEPT ![v][b].reserved = TRUE]
                /\ job' = [j EXCEPT ![v].pc = "run"] /\ lru' = v
                /\ UNCHANGED <<who, onLru, lref>>
           ELSE /\ Backoff(v) /\ job' = [Woken(j, HeldBy(v) \cup {b}) EXCEPT ![v] = NoJob]
                /\ lru' = Nobody
    /\ UNCHANGED <<who, writers, valSeq, starts>>

TryFree(v, b) == Turn(v, b) /\ Reserve(v, b)

\* Mutant: nobody backs off
NeverBacksOff(v, b) == FALSE

\* The buffer is held by an older validator, which will not back off.
BacksOff(v, b) == seq[b] # Nobody /\ Newer(job[v].my, seq[b])

\* -EAGAIN: everything goes back, under a new number, and the slow path waits.
TryOlder(v, b) ==
    /\ Turn(v, b) /\ holder[b] # Nobody /\ BacksOff(v, b) /\ starts < MaxStarts
    /\ Backoff(v) /\ NextSeq(v)
    /\ job' = [Woken(job, HeldBy(v)) EXCEPT ![v].pc = "slow", ![v].at = b, ![v].my = valSeq]
    /\ UNCHANGED <<who, lru, seq, writers>>

\* Mutant: an entry taken off the lists forgets its references
ForgetPut(v, b) == 0

PutCount(v, b) == 2

\* ttm_eu_del_from_lru_locked
Remove(v) ==
    LET rem == {b \in HeldBy(v) : ~entry[v][b].removed}
    IN  /\ onLru' = onLru \ rem
        /\ entry' = [entry EXCEPT ![v] = [b \in Buffers |->
                IF b \in rem THEN [reserved |-> TRUE, removed |-> TRUE, put |-> PutCount(v, b)]
                             ELSE entry[v][b]]]

\* -EBUSY: a younger validator holds it, or somebody without a number.
TryYounger(v, b) ==
    /\ Turn(v, b) /\ holder[b] # Nobody /\ ~BacksOff(v, b)
    /\ Remove(v) /\ lru' = Nobody
    /\ job' = [job EXCEPT ![v].pc = "asleep", ![v].at = b]
    /\ UNCHANGED <<who, holder, seq, lref, writers, valSeq, starts>>

\* ttm_bo_wait_unreserved_locked goes back to sleep for as long as the buffer is
\* reserved, by whomever; the number is not looked at again.
Wake(v) ==
    LET b == job[v].at
        slow == job[v].pc = "slowwoken"
    IN  /\ job[v].pc \in {"woken", "slowwoken"} /\ lru = Nobody
        /\ IF holder[b] # Nobody
           THEN lru' = Nobody /\ job' = [job EXCEPT ![v].pc = IF slow THEN "slowasleep" ELSE "asleep"]
           ELSE lru' = v /\ job' = [job EXCEPT ![v].pc = IF slow THEN "slow" ELSE "run"]
        /\ UNCHANGED <<who, holder, seq, onLru, lref, writers, valSeq, starts, entry>>

\* ttm_bo_reserve_slowpath_nolru
SlowFree(v) == lru = v /\ job[v].pc = "slow" /\ Reserve(v, job[v].at)
SlowSleep(v) ==
    /\ lru = v /\ job[v].pc = "slow" /\ holder[job[v].at] # Nobody
    /\ lru' = Nobody /\ job' = [job EXCEPT ![v].pc = "slowasleep"]
    /\ UNCHANGED <<who, holder, seq, onLru, lref, writers, valSeq, starts, entry>>

\* A signal ends the sleep, and what is held goes back.
Interrupted(v) ==
    /\ job[v].pc \in {"asleep", "slowasleep"} /\ lru = Nobody
    /\ Backoff(v) /\ job' = [Woken(job, HeldBy(v)) EXCEPT ![v] = NoJob]
    /\ UNCHANGED <<who, lru, seq, writers, valSeq, starts>>

\* All is reserved: lru_lock goes, and then the references of the lists.
Finish(v) ==
    /\ lru = v /\ job[v].pc = "run"
    /\ \A i \in DOMAIN job[v].list : entry[v][job[v].list[i]].reserved
    /\ Remove(v) /\ lru' = Nobody /\ job' = [job EXCEPT ![v].pc = "reserved"]
    /\ UNCHANGED <<who, holder, seq, lref, writers, valSeq, starts>>
PutLists(v) ==
    /\ job[v].pc = "reserved" /\ job' = [job EXCEPT ![v].pc = "holds"]
    /\ lref' = [b \in Buffers |-> lref[b] - entry[v][b].put]
    /\ entry' = [entry EXCEPT ![v] = [b \in Buffers |-> [entry[v][b] EXCEPT !.put = 0]]]
    /\ UNCHANGED <<who, lru, holder, seq, onLru, writers, valSeq, starts>>

\* ttm_eu_fence_buffer_objects, or ttm_eu_backoff_reservation by a caller whose
\* validation failed
Fence(v) ==
    /\ job[v].pc = "holds" /\ lru = Nobody
    /\ Backoff(v) /\ job' = [Woken(job, HeldBy(v)) EXCEPT ![v] = NoJob]
    /\ UNCHANGED <<who, lru, seq, writers, valSeq, starts>>

-----------------------------------------------------------------------------
(* One buffer: ttm_bo_reserve without a number, as the eviction, the       *)
(* swap-out, the page fault and ttm_bo_synccpu_write_grab make it          *)

PlainReserve(p, b) ==
    /\ p \in who /\ job[p].pc = "idle" /\ lru = Nobody /\ holder[b] = Nobody
    /\ holder' = [holder EXCEPT ![b] = p] /\ seq' = [seq EXCEPT ![b] = Nobody]
    /\ onLru' = onLru \ {b}
    /\ lref' = [lref EXCEPT ![b] = @ - (IF b \in onLru THEN 2 ELSE 0)]
    /\ job' = [job EXCEPT ![p] = [NoJob EXCEPT !.pc = "holds", !.at = b]]
    /\ UNCHANGED <<who, lru, writers, valSeq, starts, entry>>

\* ttm_bo_unreserve, with or without becoming a CPU writer first
PlainUnreserve(p, grab) ==
    LET b == job[p].at
    IN  /\ job[p].pc = "holds" /\ lru = Nobody
        /\ writers' = [writers EXCEPT ![b] = IF grab THEN @ + 1 ELSE @]
        /\ holder' = [holder EXCEPT ![b] = Nobody] /\ onLru' = onLru \cup {b}
        /\ lref' = [lref EXCEPT ![b] = @ + 2]
        /\ job' = [Woken(job, {b}) EXCEPT ![p] =
                     IF grab THEN [NoJob EXCEPT !.pc = "writes", !.at = b] ELSE NoJob]
        /\ UNCHANGED <<who, lru, seq, valSeq, starts, entry>>
WriteRelease(p) ==
    /\ job[p].pc = "writes" /\ job' = [job EXCEPT ![p] = NoJob]
    /\ writers' = [writers EXCEPT ![job[p].at] = @ - 1]
    /\ UNCHANGED <<who, lru, holder, seq, onLru, lref, valSeq, starts, entry>>

ResNext ==
    \/ \E v \in Validators :
          \/ \E l \in Lists : Start(v, l)
          \/ \E b \in Buffers : TryFree(v, b) \/ TryOlder(v, b) \/ TryYounger(v, b)
          \/ Wake(v) \/ SlowFree(v) \/ SlowSleep(v) \/ Interrupted(v)
          \/ Finish(v) \/ PutLists(v) \/ Fence(v)
    \/ \E p \in Plain :
          \/ \E b \in Buffers : PlainReserve(p, b)
          \/ (\E g \in BOOLEAN : PlainUnreserve(p, g)) \/ WriteRelease(p)

-----------------------------------------------------------------------------
(* Properties                                                              *)

ResTypeOK ==
    /\ lru \in Validators \cup {Nobody} /\ holder \in [Buffers -> Reservers \cup {Nobody}]
    /\ seq \in [Buffers -> (0 .. SeqMod - 1) \cup {Nobody}] /\ onLru \subseteq Buffers /\ who \subseteq Reservers
    /\ lref \in [Buffers -> Nat] /\ writers \in [Buffers -> 0 .. Cardinality(Plain)]
    /\ starts \in 0 .. MaxStarts

\* A reservation has one owner, who knows it; nobody loses one he holds.
OneOwner == \A v \in Validators, b \in Buffers : entry[v][b].reserved <=> holder[b] = v

\* A buffer is off the lists exactly while its holder has taken it off: the
\* MPASS of ttm_bo_add_to_lru, and no buffer is lost to eviction.
ListsExact == \A b \in Buffers :
    b \notin onLru <=> holder[b] \in Plain
                       \/ (\E v \in Validators : entry[v][b].reserved /\ entry[v][b].removed)

\* list_kref is the base reference, two for the lists, and what is still to be
\* put for a validator that has taken the buffer off ("ttm_bo_ref_buf").
RefsExact == \A b \in Buffers :
    lref[b] = 1 + (IF b \in onLru THEN 2 ELSE 0)
                + (IF \E v \in Validators : entry[v][b].put > 0 THEN 2 ELSE 0)

WaitsFor(v, w) == job[v].pc = "asleep" /\ holder[job[v].at] = w

\* Validators never wait for buffers of each other ("This prevents deadlocks
\* when validating multiple buffers in different orders.", ttm_execbuf_util.c).
NoDeadlock == \A v, w \in Validators : ~(WaitsFor(v, w) /\ WaitsFor(w, v))
\* That is so for two validators that nobody else disturbs.
NoDeadlockPair == (\E v, w \in Validators : who = {v, w}) => NoDeadlock

\* A reservation has one owner, a buffer is on the lists when nobody has taken
\* it off, list_kref counts it, and two validators that nobody else disturbs
\* never wait for each other (ttm_execbuf_util.c).
ReserveSafe == OneOwner /\ ListsExact /\ RefsExact /\ NoDeadlockPair

ResSpec == ResInit /\ [][ResNext]_resVars
=============================================================================
