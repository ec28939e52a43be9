------------------------- MODULE TtmReserveProofs -------------------------
(***************************************************************************)
(* Reservations keep their books, and two validators that nobody else      *)
(* disturbs never wait for each other.                                     *)
(***************************************************************************)
EXTENDS TtmReserve, FiniteSetTheorems, TLAPS

Entries == [reserved : BOOLEAN, removed : BOOLEAN, put : {0, 2}]
Works == {"idle", "run", "asleep", "woken", "slow", "slowasleep", "slowwoken", "reserved", "holds"}
Places == Works \cup {"writes"}
Jobs == [pc : Places, list : Seq(Buffers), my : 0 .. SeqMod - 1, at : Buffers \cup {Nobody}]

Types ==
    /\ who \subseteq Reservers
    /\ lru \in Validators \cup {Nobody}
    /\ holder \in [Buffers -> Reservers \cup {Nobody}]
    /\ seq \in [Buffers -> (0 .. SeqMod - 1) \cup {Nobody}]
    /\ onLru \subseteq Buffers
    /\ lref \in [Buffers -> Int] /\ writers \in [Buffers -> Int]
    /\ valSeq \in 0 .. SeqMod - 1 /\ starts \in 0 .. MaxStarts
    /\ entry \in [Validators -> [Buffers -> Entries]]
    /\ job \in [Reservers -> Jobs]

\* What is removed is reserved, and only what is removed is still to be put.
PutFits == \A v \in Validators, b \in Buffers :
    /\ entry[v][b].removed => entry[v][b].reserved
    /\ entry[v][b].put > 0 => entry[v][b].removed

Books == OneOwner /\ PutFits /\ ListsExact /\ RefsExact

\* Where a thread can be, when it is at a buffer, when it holds none, and when
\* it owns lru_lock.
Bare == {"idle", "slow", "slowasleep", "slowwoken"}
Sleepy == {"asleep", "woken"}
WorkPlace(v) ==
    /\ job[v].pc \in Works
    /\ job[v].pc \in {"asleep", "woken", "slow", "slowasleep", "slowwoken"} => job[v].at \in Buffers
    /\ job[v].pc \in Bare => \A b \in Buffers : holder[b] # v
    /\ job[v].pc \in Sleepy => holder[job[v].at] # v
    /\ lru = v <=> job[v].pc \in {"run", "slow"}
PlainPlace(p) ==
    /\ job[p].pc \in {"idle", "holds", "writes"}
    /\ job[p].pc # "idle" => job[p].at \in Buffers
    /\ \A b \in Buffers : holder[b] = p <=> job[p].pc = "holds" /\ job[p].at = b

\* cpu_writers counts the writers.
Writing(b) == {p \in Plain : job[p].pc = "writes" /\ job[p].at = b}
WritersCounted == \A b \in Buffers : writers[b] = Cardinality(Writing(b))

\* The place of a number in the order in which the numbers are given out.
Rank(s) == IF s = SeqMod - 1 THEN 0 ELSE s + 1
\* Every number in use was given out, and a buffer has that of who holds it.
InUse(v) == job[v].pc # "idle" => Rank(job[v].my) < starts
Marked(v) == \A b \in Buffers : holder[b] = v => seq[b] = job[v].my

\* Between two validators that nobody else disturbs, the one that sleeps is the
\* older.
Pair == \E v, w \in Validators : who = {v, w}
Elder(v, w) ==
    v # w /\ job[v].pc \in Sleepy /\ job[w].pc # "idle" => Rank(job[v].my) < Rank(job[w].my)

ResInv ==
    /\ Types /\ Books /\ WritersCounted /\ Rank(valSeq) = starts
    /\ \A v \in Validators : WorkPlace(v) /\ InUse(v) /\ Marked(v)
    /\ \A p \in Plain : PlainPlace(p)
    /\ \A t \in Reservers : job[t].pc # "idle" => t \in who
    /\ Pair => \A v, w \in Validators : Elder(v, w)

-----------------------------------------------------------------------------
(* Sequence numbers                                                        *)

\* A remainder within the modulus.
LEMMA ModLow == ASSUME NEW M \in Nat \ {0}, NEW k \in 0 .. M - 1 PROVE k % M = k
  BY SMT

\* A remainder of a small negative difference.
LEMMA ModBelow == ASSUME NEW M \in Nat \ {0}, NEW k \in Int, -M <= k, k < 0 PROVE k % M = k + M
  BY SMT

\* What the assumption on the constants gives.
LEMMA Numbers ==
    ASSUME ReserveAssumption
    PROVE  /\ SeqMod \in Nat \ {0} /\ 2 <= SeqMod
           /\ MaxStarts < SeqMod /\ MaxStarts <= SeqMod \div 2
           /\ SeqMod \div 2 \in Nat /\ 2 * (SeqMod \div 2) <= SeqMod
           /\ Nobody \notin Reservers /\ Nobody \notin Int
           /\ IsFiniteSet(Plain) /\ Validators \cap Plain = {}
  <1>1. /\ SeqMod \in Nat /\ MaxStarts \in Nat \ {0} /\ 2 * MaxStarts <= SeqMod
        /\ Validators \cap Plain = {} /\ Nobody \notin Validators \cup Plain \cup Int
        /\ IsFiniteSet(Plain)
    BY DEF ReserveAssumption
  <1>2. /\ SeqMod \in Nat \ {0} /\ 2 <= SeqMod
        /\ MaxStarts < SeqMod /\ MaxStarts <= SeqMod \div 2
        /\ SeqMod \div 2 \in Nat /\ 2 * (SeqMod \div 2) <= SeqMod
    BY <1>1, SMT
  <1> QED BY <1>1, <1>2 DEF Reservers

\* The next number has the next place.
LEMMA NextRank ==
    ASSUME ReserveAssumption, NEW n \in 0 .. SeqMod - 1, Rank(n) < MaxStarts
    PROVE  (n + 1) % SeqMod \in 0 .. SeqMod - 1 /\ Rank((n + 1) % SeqMod) = Rank(n) + 1
  <1>1. SeqMod \in Nat \ {0} /\ 2 <= SeqMod /\ MaxStarts < SeqMod /\ MaxStarts \in Nat
    BY Numbers DEF ReserveAssumption
  <1>2. CASE n = SeqMod - 1
    <2>1. (n + 1) % SeqMod = 0 BY <1>1, <1>2, SMT
    <2> QED BY <2>1, <1>1, <1>2 DEF Rank
  <1>3. CASE n # SeqMod - 1
    <2>1. (n + 1) % SeqMod = n + 1 BY <1>1, <1>3, ModLow
    <2>2. n + 1 < MaxStarts BY <1>1, <1>3 DEF Rank
    <2> QED BY <2>1, <2>2, <1>1, <1>3 DEF Rank
  <1> QED BY <1>2, <1>3

\* The comparison of two numbers in use is that of their places, whether or not
\* the counter has wrapped between them.
LEMMA NewerRank ==
    ASSUME ReserveAssumption, NEW a \in 0 .. SeqMod - 1, NEW b \in 0 .. SeqMod - 1,
           Rank(a) < MaxStarts, Rank(b) < MaxStarts
    PROVE  Newer(a, b) <=> Rank(b) <= Rank(a)
  <1> DEFINE half == SeqMod \div 2
  <1>1. /\ SeqMod \in Nat \ {0} /\ 2 <= SeqMod /\ MaxStarts < SeqMod /\ MaxStarts \in Nat
        /\ MaxStarts <= half /\ half \in Nat /\ 2 * half <= SeqMod
    BY Numbers DEF ReserveAssumption
  <1> HIDE DEF half
  <1>2. Rank(a) \in Nat /\ Rank(b) \in Nat
    BY <1>1 DEF Rank
  <1>3. Newer(a, b) <=> (a - b) % SeqMod < half
    BY DEF Newer, half
  <1>4. \/ a - b = Rank(a) - Rank(b)
        \/ a - b = Rank(a) - Rank(b) + SeqMod
        \/ a - b = Rank(a) - Rank(b) - SeqMod
    BY <1>1 DEF Rank
  <1>5. CASE Rank(b) <= Rank(a)
    <2>1. (a - b) % SeqMod = Rank(a) - Rank(b)
      <3>1. CASE a - b >= 0
        <4>1. a - b = Rank(a) - Rank(b)
          BY <3>1, <1>1, <1>2, <1>4, <1>5
        <4> QED BY <4>1, <3>1, <1>1, ModLow
      <3>2. CASE a - b < 0
        <4>1. a - b = Rank(a) - Rank(b) - SeqMod
          BY <3>2, <1>1, <1>2, <1>4, <1>5
        <4> QED BY <4>1, <3>2, <1>1, <1>2, ModBelow
      <3> QED BY <3>1, <3>2, <1>1
    <2> QED BY <2>1, <1>1, <1>2, <1>3, <1>5
  <1>6. CASE Rank(a) < Rank(b)
    <2>1. (a - b) % SeqMod = Rank(a) - Rank(b) + SeqMod
      <3>1. CASE a - b >= 0
        <4>1. a - b = Rank(a) - Rank(b) + SeqMod
          BY <3>1, <1>1, <1>2, <1>4, <1>6
        <4> QED BY <4>1, <3>1, <1>1, ModLow
      <3>2. CASE a - b < 0
        <4>1. a - b = Rank(a) - Rank(b)
          BY <3>2, <1>1, <1>2, <1>4, <1>6
        <4> QED BY <4>1, <3>2, <1>1, <1>2, ModBelow
      <3> QED BY <3>1, <3>2, <1>1
    <2> QED BY <2>1, <1>1, <1>2, <1>3, <1>6
  <1> QED BY <1>2, <1>5, <1>6

-----------------------------------------------------------------------------
(* The books of the buffers                                                *)

\* What of the state the books are about.
BookTypes ==
    /\ holder \in [Buffers -> Reservers \cup {Nobody}] /\ onLru \subseteq Buffers
    /\ lref \in [Buffers -> Int] /\ entry \in [Validators -> [Buffers -> Entries]]

\* The fields of an entry.
LEMMA EntryFields ==
    ASSUME BookTypes, NEW v \in Validators, NEW b \in Buffers
    PROVE  /\ entry[v][b].reserved \in BOOLEAN /\ entry[v][b].removed \in BOOLEAN
           /\ entry[v][b].put \in {0, 2}
  <1>1. entry[v][b] \in Entries BY DEF BookTypes
  <1> QED BY <1>1 DEF Entries

\* After a back-off the validator holds nothing, no other has gained or lost a
\* buffer, and the books balance (ttm_eu_backoff_reservation_locked).
LEMMA BackoffBooks ==
    ASSUME ReserveAssumption, BookTypes, Books, NEW v \in Validators, Backoff(v)
    PROVE  /\ Books' /\ BookTypes'
           /\ \A b \in Buffers : ~entry'[v][b].reserved
           /\ \A w \in Validators \ {v} : entry'[w] = entry[w]
           /\ \A b \in Buffers : holder'[b] # v
           /\ \A b \in Buffers, t \in Reservers \ {v} : holder'[b] = t <=> holder[b] = t
  <1> DEFINE Back == {b \in HeldBy(v) : entry[v][b].removed}
  <1>1. /\ onLru' = onLru \cup Back
        /\ lref' = [b \in Buffers |-> lref[b] + (IF b \in Back THEN 2 ELSE 0) - entry[v][b].put]
        /\ holder' = [b \in Buffers |-> IF b \in HeldBy(v) THEN Nobody ELSE holder[b]]
        /\ entry' = [entry EXCEPT ![v] = NoEntry]
    BY DEF Backoff
  <1>2. NoEntry \in [Buffers -> Entries]
    BY DEF NoEntry, Entries
  <1>3. \A w \in Validators, b \in Buffers :
            entry[w][b].reserved \in BOOLEAN /\ entry[w][b].removed \in BOOLEAN /\ entry[w][b].put \in {0, 2}
    BY EntryFields
  <1>4. BookTypes'
    <2>1. holder' \in [Buffers -> Reservers \cup {Nobody}] BY <1>1 DEF BookTypes
    <2>2. onLru' \subseteq Buffers BY <1>1 DEF BookTypes, HeldBy
    <2>3. lref' \in [Buffers -> Int] BY <1>1, <1>3 DEF BookTypes
    <2>4. entry' \in [Validators -> [Buffers -> Entries]] BY <1>1, <1>2 DEF BookTypes
    <2> QED BY <2>1, <2>2, <2>3, <2>4 DEF BookTypes
  <1>5. entry'[v] = NoEntry /\ \A w \in Validators \ {v} : entry'[w] = entry[w]
    BY <1>1 DEF BookTypes
  <1>6. \A b \in Buffers : ~NoEntry[b].reserved /\ ~NoEntry[b].removed /\ NoEntry[b].put = 0
    BY DEF NoEntry
  <1>7. \A b \in Buffers : b \in HeldBy(v) <=> holder[b] = v
    BY DEF Books, OneOwner, HeldBy
  <1>8. v \notin Plain /\ v # Nobody /\ Nobody \notin Validators \cup Plain
    BY Numbers DEF Reservers
  <1>9. \A b \in Buffers : holder'[b] = IF holder[b] = v THEN Nobody ELSE holder[b]
    BY <1>1, <1>7
  <1>10. OneOwner'
    <2> SUFFICES ASSUME NEW w \in Validators, NEW b \in Buffers
                 PROVE  entry'[w][b].reserved <=> holder'[b] = w
      BY DEF OneOwner
    <2>1. CASE w = v BY <2>1, <1>5, <1>6, <1>8, <1>9
    <2>2. CASE w # v BY <2>2, <1>5, <1>8, <1>9 DEF Books, OneOwner
    <2> QED BY <2>1, <2>2
  <1>11. PutFits'
    <2> SUFFICES ASSUME NEW w \in Validators, NEW b \in Buffers
                 PROVE  /\ entry'[w][b].removed => entry'[w][b].reserved
                        /\ entry'[w][b].put > 0 => entry'[w][b].removed
      BY DEF PutFits
    <2>1. CASE w = v BY <2>1, <1>5, <1>6
    <2>2. CASE w # v BY <2>2, <1>5 DEF Books, PutFits
    <2> QED BY <2>1, <2>2
  <1>12. \A b \in Buffers : b \in Back <=> entry[v][b].removed
    BY DEF Books, PutFits, HeldBy
  <1>13. ListsExact'
    <2> SUFFICES ASSUME NEW b \in Buffers
                 PROVE  b \notin onLru' <=> holder'[b] \in Plain
                          \/ (\E w \in Validators : entry'[w][b].reserved /\ entry'[w][b].removed)
      BY DEF ListsExact
    <2>1. b \notin onLru' <=> b \notin onLru /\ ~entry[v][b].removed
      BY <1>1, <1>12
    <2>2. (\E w \in Validators : entry'[w][b].reserved /\ entry'[w][b].removed)
            <=> (\E w \in Validators \ {v} : entry[w][b].reserved /\ entry[w][b].removed)
      BY <1>5, <1>6
    <2>3. b \notin onLru <=> holder[b] \in Plain
                          \/ (\E w \in Validators : entry[w][b].reserved /\ entry[w][b].removed)
      BY DEF Books, ListsExact
    <2>4. holder'[b] \in Plain <=> holder[b] \in Plain
      BY <1>8, <1>9
    <2>5. entry[v][b].removed => holder[b] = v
      BY <1>3, <1>7, <1>12
    <2>6. \A w \in Validators : entry[w][b].reserved => holder[b] = w
      BY DEF Books, OneOwner
    <2> QED BY <2>1, <2>2, <2>3, <2>4, <2>5, <2>6, <1>8, Zenon
  <1>14. RefsExact'
    <2> SUFFICES ASSUME NEW b \in Buffers
                 PROVE  lref'[b] = 1 + (IF b \in onLru' THEN 2 ELSE 0)
                          + (IF \E w \in Validators : entry'[w][b].put > 0 THEN 2 ELSE 0)
      BY DEF RefsExact
    <2>1. lref[b] = 1 + (IF b \in onLru THEN 2 ELSE 0)
                      + (IF \E w \in Validators : entry[w][b].put > 0 THEN 2 ELSE 0)
      BY DEF Books, RefsExact
    <2>2. lref'[b] = lref[b] + (IF entry[v][b].removed THEN 2 ELSE 0) - entry[v][b].put
      BY <1>1, <1>12
    <2>3. (\E w \in Validators : entry'[w][b].put > 0)
            <=> (\E w \in Validators \ {v} : entry[w][b].put > 0)
      BY <1>5, <1>6
    <2>4. \A w \in Validators : entry[w][b].put > 0 => entry[w][b].removed /\ holder[b] = w
      BY DEF Books, PutFits, OneOwner
    <2>5. entry[v][b].removed => b \notin onLru /\ holder[b] = v
      BY DEF Books, PutFits, OneOwner, ListsExact
    <2>6. b \in onLru' <=> b \in onLru \/ entry[v][b].removed
      BY <1>1, <1>12
    <2>7. CASE entry[v][b].removed
      <3>1. ~\E w \in Validators \ {v} : entry[w][b].put > 0
        BY <2>4, <2>5, <2>7
      <3>2. (\E w \in Validators : entry[w][b].put > 0) <=> entry[v][b].put = 2
        BY <3>1, <1>3
      <3>3. b \notin onLru /\ b \in onLru' BY <2>5, <2>6, <2>7
      <3>4. lref[b] = 1 + (IF entry[v][b].put = 2 THEN 2 ELSE 0) BY <3>2, <3>3, <2>1
      <3>5. lref'[b] = 3 BY <3>4, <2>2, <2>7, <1>3
      <3> QED BY <3>1, <3>3, <3>5, <2>3
    <2>8. CASE ~entry[v][b].removed
      <3>1. ~(entry[v][b].put > 0) BY <2>4, <2>8
      <3>2. entry[v][b].put = 0 BY <3>1, <1>3
      <3>3. (\E w \in Validators : entry[w][b].put > 0)
              <=> (\E w \in Validators \ {v} : entry[w][b].put > 0)
        BY <3>1
      <3>4. lref'[b] = lref[b] BY <3>2, <2>2, <2>8 DEF BookTypes
      <3> QED BY <3>3, <3>4, <2>1, <2>3, <2>6, <2>8
    <2> QED BY <2>7, <2>8
  <1>15. /\ \A b \in Buffers : ~entry'[v][b].reserved
         /\ \A b \in Buffers : holder'[b] # v
         /\ \A b \in Buffers, t \in Reservers \ {v} : holder'[b] = t <=> holder[b] = t
    BY <1>5, <1>6, <1>8, <1>9 DEF Reservers
  <1> QED BY <1>4, <1>5, <1>10, <1>11, <1>13, <1>14, <1>15 DEF Books

\* An entry that is marked reserved.
LEMMA TakenEntry ==
    ASSUME NEW r \in Entries
    PROVE  /\ [r EXCEPT !.reserved = TRUE] \in Entries
           /\ [r EXCEPT !.reserved = TRUE].reserved = TRUE
           /\ [r EXCEPT !.reserved = TRUE].removed = r.removed
           /\ [r EXCEPT !.reserved = TRUE].put = r.put
  BY DEF Entries

\* A validator takes a buffer that is free.
LEMMA TakeBooks ==
    ASSUME ReserveAssumption, BookTypes, Books, NEW v \in Validators, NEW b \in Buffers,
           holder[b] = Nobody, holder' = [holder EXCEPT ![b] = v],
           entry' = [entry EXCEPT ![v][b].reserved = TRUE], UNCHANGED <<onLru, lref>>
    PROVE  /\ Books' /\ BookTypes'
           /\ \A w \in Validators \ {v} : entry'[w] = entry[w]
           /\ \A d \in Buffers : holder'[d] = v <=> holder[d] = v \/ d = b
           /\ \A d \in Buffers, t \in Reservers \ {v} : holder'[d] = t <=> holder[d] = t
  <1>1. v \notin Plain /\ v # Nobody /\ Nobody \notin Reservers
    BY Numbers DEF Reservers
  <1>2. \A w \in Validators, d \in Buffers :
            entry[w][d].reserved \in BOOLEAN /\ entry[w][d].removed \in BOOLEAN /\ entry[w][d].put \in {0, 2}
    BY EntryFields
  <1>3. ~entry[v][b].reserved /\ ~entry[v][b].removed
    BY <1>1 DEF Books, OneOwner, PutFits
  <1>4. PICK e \in Entries : e = [entry[v][b] EXCEPT !.reserved = TRUE]
        /\ e.reserved = TRUE /\ e.removed = entry[v][b].removed /\ e.put = entry[v][b].put
    <2>1. entry[v][b] \in Entries BY DEF BookTypes
    <2> DEFINE taken == [entry[v][b] EXCEPT !.reserved = TRUE]
    <2>2. taken \in Entries /\ taken.reserved = TRUE /\ taken.removed = entry[v][b].removed
          /\ taken.put = entry[v][b].put
      BY <2>1, TakenEntry
    <2> QED BY <2>2
  <1>5. entry' = [entry EXCEPT ![v] = [entry[v] EXCEPT ![b] = e]]
    BY <1>4
  <1>6. /\ entry'[v][b] = e /\ \A d \in Buffers \ {b} : entry'[v][d] = entry[v][d]
        /\ \A w \in Validators \ {v} : entry'[w] = entry[w]
    BY <1>5 DEF BookTypes
  <1>7. BookTypes'
    <2>1. holder' \in [Buffers -> Reservers \cup {Nobody}] BY DEF BookTypes, Reservers
    <2>2. [entry[v] EXCEPT ![b] = e] \in [Buffers -> Entries] BY DEF BookTypes
    <2>3. entry \in [Validators -> [Buffers -> Entries]] BY DEF BookTypes
    <2>4. entry' \in [Validators -> [Buffers -> Entries]] BY <1>5, <2>2, <2>3
    <2> QED BY <2>1, <2>4 DEF BookTypes
  <1>8. \A d \in Buffers : holder'[d] = IF d = b THEN v ELSE holder[d]
    BY DEF BookTypes
  <1>9. \A w \in Validators, d \in Buffers :
          /\ entry'[w][d].removed = entry[w][d].removed /\ entry'[w][d].put = entry[w][d].put
          /\ entry'[w][d].reserved <=> entry[w][d].reserved \/ (w = v /\ d = b)
    BY <1>4, <1>6
  <1>10. OneOwner'
    <2> SUFFICES ASSUME NEW w \in Validators, NEW d \in Buffers
                 PROVE  entry'[w][d].reserved <=> holder'[d] = w
      BY DEF OneOwner
    <2>1. entry[w][d].reserved <=> holder[d] = w BY DEF Books, OneOwner
    <2>2. CASE d = b
      <3>1. holder'[d] = v /\ ~entry[w][d].reserved
        BY <2>1, <2>2, <1>1, <1>8 DEF Reservers
      <3> QED BY <3>1, <2>2, <1>9
    <2>3. CASE d # b BY <2>1, <2>3, <1>8, <1>9
    <2> QED BY <2>2, <2>3
  <1>11. PutFits'
    BY <1>9 DEF Books, PutFits
  <1>12. ListsExact'
    <2> SUFFICES ASSUME NEW d \in Buffers
                 PROVE  d \notin onLru' <=> holder'[d] \in Plain
                          \/ (\E w \in Validators : entry'[w][d].reserved /\ entry'[w][d].removed)
      BY DEF ListsExact
    <2>1. \A w \in Validators : (entry'[w][d].reserved /\ entry'[w][d].removed)
                                  <=> (entry[w][d].reserved /\ entry[w][d].removed)
      BY <1>3, <1>9
    <2>2. holder'[d] \in Plain <=> holder[d] \in Plain
      BY <1>1, <1>8 DEF Reservers
    <2> QED BY <2>1, <2>2 DEF Books, ListsExact
  <1>13. RefsExact'
    BY <1>9 DEF Books, RefsExact
  <1> QED BY <1>1, <1>6, <1>7, <1>8, <1>10, <1>11, <1>12, <1>13 DEF Books, Reservers

\* What a validator holds is taken off the lists, with a debt of two references.
LEMMA RemoveBooks ==
    ASSUME ReserveAssumption, BookTypes, Books, NEW v \in Validators, Remove(v),
           UNCHANGED <<holder, lref>>
    PROVE  /\ Books' /\ BookTypes'
           /\ \A w \in Validators, b \in Buffers : entry'[w][b].reserved <=> entry[w][b].reserved
  <1> DEFINE Rem == {b \in HeldBy(v) : ~entry[v][b].removed}
  <1>1. /\ onLru' = onLru \ Rem
        /\ entry' = [entry EXCEPT ![v] = [b \in Buffers |->
                IF b \in Rem THEN [reserved |-> TRUE, removed |-> TRUE, put |-> 2] ELSE entry[v][b]]]
    BY DEF Remove, PutCount
  <1>2. \A w \in Validators, b \in Buffers :
            entry[w][b].reserved \in BOOLEAN /\ entry[w][b].removed \in BOOLEAN /\ entry[w][b].put \in {0, 2}
    BY EntryFields
  <1>3. [reserved |-> TRUE, removed |-> TRUE, put |-> 2] \in Entries
    BY DEF Entries
  <1>4. BookTypes'
    <2>1. entry' \in [Validators -> [Buffers -> Entries]] BY <1>1, <1>3 DEF BookTypes
    <2> QED BY <2>1, <1>1 DEF BookTypes
  <1>5. /\ \A w \in Validators \ {v} : entry'[w] = entry[w]
        /\ \A b \in Buffers : entry'[v][b] =
                IF b \in Rem THEN [reserved |-> TRUE, removed |-> TRUE, put |-> 2] ELSE entry[v][b]
    BY <1>1 DEF BookTypes
  <1>6. \A b \in Buffers : b \in Rem <=> entry[v][b].reserved /\ ~entry[v][b].removed
    BY DEF HeldBy
  <1>7. \A w \in Validators, b \in Buffers : entry'[w][b].reserved <=> entry[w][b].reserved
    <2> SUFFICES ASSUME NEW w \in Validators, NEW b \in Buffers
                 PROVE  entry'[w][b].reserved <=> entry[w][b].reserved
      OBVIOUS
    <2>1. CASE w = v /\ b \in Rem
      <3>1. entry'[w][b].reserved = TRUE BY <2>1, <1>5
      <3> QED BY <3>1, <2>1, <1>6
    <2>2. CASE ~(w = v /\ b \in Rem)
      <3>1. entry'[w][b] = entry[w][b] BY <2>2, <1>5
      <3> QED BY <3>1
    <2> QED BY <2>1, <2>2
  <1>8. \A b \in Buffers : entry'[v][b].removed <=> entry[v][b].reserved
    BY <1>2, <1>5, <1>6 DEF Books, PutFits
  <1>9. OneOwner'
    BY <1>7 DEF Books, OneOwner
  <1>10. PutFits'
    BY <1>5 DEF Books, PutFits
  <1>11. ListsExact'
    <2> SUFFICES ASSUME NEW b \in Buffers
                 PROVE  b \notin onLru' <=> holder'[b] \in Plain
                          \/ (\E w \in Validators : entry'[w][b].reserved /\ entry'[w][b].removed)
      BY DEF ListsExact
    <2>1. b \notin onLru <=> holder[b] \in Plain
                          \/ (\E w \in Validators : entry[w][b].reserved /\ entry[w][b].removed)
      BY DEF Books, ListsExact
    <2>2. b \notin onLru' <=> b \notin onLru \/ (entry[v][b].reserved /\ ~entry[v][b].removed)
      BY <1>1, <1>6
    <2>3. (entry'[v][b].reserved /\ entry'[v][b].removed)
            <=> (entry[v][b].reserved /\ entry[v][b].removed) \/ (entry[v][b].reserved /\ ~entry[v][b].removed)
      BY <1>7, <1>8
    <2>4. \A w \in Validators \ {v} : entry'[w][b] = entry[w][b]
      BY <1>5
    <2> QED BY <2>1, <2>2, <2>3, <2>4
  <1>12. RefsExact'
    <2> SUFFICES ASSUME NEW b \in Buffers
                 PROVE  lref'[b] = 1 + (IF b \in onLru' THEN 2 ELSE 0)
                          + (IF \E w \in Validators : entry'[w][b].put > 0 THEN 2 ELSE 0)
      BY DEF RefsExact
    <2>1. lref[b] = 1 + (IF b \in onLru THEN 2 ELSE 0)
                      + (IF \E w \in Validators : entry[w][b].put > 0 THEN 2 ELSE 0)
      BY DEF Books, RefsExact
    <2>2. CASE b \in Rem
      <3>1. b \in onLru
        <4>1. holder[b] = v BY <2>2, <1>6 DEF Books, OneOwner
        <4>2. holder[b] \notin Plain BY <4>1, Numbers
        <4>3. \A w \in Validators : ~(entry[w][b].reserved /\ entry[w][b].removed)
          BY <4>1, <2>2, <1>6 DEF Books, OneOwner
        <4> QED BY <4>2, <4>3 DEF Books, ListsExact
      <3>2. ~\E w \in Validators : entry[w][b].put > 0
        BY <2>2, <1>6 DEF Books, OneOwner, PutFits
      <3>3. entry'[v][b].put = 2 /\ b \notin onLru' BY <2>2, <1>5, <1>1
      <3>4. \E w \in Validators : entry'[w][b].put > 0 BY <3>3
      <3> QED BY <2>1, <3>1, <3>2, <3>3, <3>4
    <2>3. CASE b \notin Rem
      <3>1. \A w \in Validators : entry'[w][b] = entry[w][b] BY <2>3, <1>5
      <3> QED BY <3>1, <2>1, <2>3, <1>1
    <2> QED BY <2>2, <2>3
  <1> QED BY <1>4, <1>7, <1>9, <1>10, <1>11, <1>12 DEF Books

\* An entry whose references have been put.
LEMMA PaidEntry ==
    ASSUME NEW r \in Entries
    PROVE  /\ [r EXCEPT !.put = 0] \in Entries /\ [r EXCEPT !.put = 0].put = 0
           /\ [r EXCEPT !.put = 0].reserved = r.reserved
           /\ [r EXCEPT !.put = 0].removed = r.removed
  BY DEF Entries

\* The references of the lists are put.
LEMMA PutBooks ==
    ASSUME ReserveAssumption, BookTypes, Books, NEW v \in Validators,
           lref' = [b \in Buffers |-> lref[b] - entry[v][b].put],
           entry' = [entry EXCEPT ![v] = [b \in Buffers |-> [entry[v][b] EXCEPT !.put = 0]]],
           UNCHANGED <<holder, onLru>>
    PROVE  /\ Books' /\ BookTypes'
           /\ \A w \in Validators, b \in Buffers : entry'[w][b].reserved <=> entry[w][b].reserved
  <1>1. \A w \in Validators, b \in Buffers :
            entry[w][b].reserved \in BOOLEAN /\ entry[w][b].removed \in BOOLEAN /\ entry[w][b].put \in {0, 2}
    BY EntryFields
  <1> DEFINE paid(b) == [entry[v][b] EXCEPT !.put = 0]
  <1>2. \A b \in Buffers : entry[v][b] \in Entries
    BY DEF BookTypes
  <1>3. \A b \in Buffers :
            paid(b) \in Entries /\ paid(b).put = 0
            /\ paid(b).reserved = entry[v][b].reserved /\ paid(b).removed = entry[v][b].removed
    BY <1>2, PaidEntry
  <1>4. /\ \A b \in Buffers : entry'[v][b] = paid(b)
        /\ \A w \in Validators \ {v} : entry'[w] = entry[w]
    BY DEF BookTypes
  <1>5. BookTypes'
    <2>1. [b \in Buffers |-> paid(b)] \in [Buffers -> Entries] BY <1>3
    <2>2. entry' \in [Validators -> [Buffers -> Entries]] BY <2>1 DEF BookTypes
    <2>3. lref' \in [Buffers -> Int] BY <1>1 DEF BookTypes
    <2> QED BY <2>2, <2>3 DEF BookTypes
  <1> HIDE DEF paid
  <1>6. \A w \in Validators, b \in Buffers :
          /\ entry'[w][b].reserved = entry[w][b].reserved
          /\ entry'[w][b].removed = entry[w][b].removed
          /\ entry'[w][b].put = IF w = v THEN 0 ELSE entry[w][b].put
    BY <1>3, <1>4
  <1>7. OneOwner'
    BY <1>6 DEF Books, OneOwner
  <1>8. PutFits'
    BY <1>6 DEF Books, PutFits
  <1>9. ListsExact'
    BY <1>6 DEF Books, ListsExact
  <1>10. RefsExact'
    <2> SUFFICES ASSUME NEW b \in Buffers
                 PROVE  lref'[b] = 1 + (IF b \in onLru' THEN 2 ELSE 0)
                          + (IF \E w \in Validators : entry'[w][b].put > 0 THEN 2 ELSE 0)
      BY DEF RefsExact
    <2>1. lref[b] = 1 + (IF b \in onLru THEN 2 ELSE 0)
                      + (IF \E w \in Validators : entry[w][b].put > 0 THEN 2 ELSE 0)
      BY DEF Books, RefsExact
    <2>2. lref'[b] = lref[b] - entry[v][b].put
      OBVIOUS
    <2>3. \A w \in Validators : entry[w][b].put > 0 => holder[b] = w
      BY DEF Books, PutFits, OneOwner
    <2>4. CASE entry[v][b].put = 0
      <3>1. (\E w \in Validators : entry'[w][b].put > 0) <=> (\E w \in Validators : entry[w][b].put > 0)
        BY <1>6, <2>4
      <3> QED BY <3>1, <2>1, <2>2, <2>4
    <2>5. CASE entry[v][b].put = 2
      <3>1. \A w \in Validators \ {v} : ~(entry[w][b].put > 0) BY <2>3, <2>5
      <3>2. ~\E w \in Validators : entry'[w][b].put > 0 BY <3>1, <1>6
      <3>3. \E w \in Validators : entry[w][b].put > 0 BY <2>5
      <3> QED BY <3>2, <3>3, <2>1, <2>2, <2>5
    <2> QED BY <2>4, <2>5, <1>1
  <1> QED BY <1>1, <1>5, <1>6, <1>7, <1>8, <1>9, <1>10 DEF Books

\* A thread without a number takes a buffer that is free, off the lists.
LEMMA PlainTakeBooks ==
    ASSUME ReserveAssumption, BookTypes, Books, NEW p \in Plain, NEW b \in Buffers,
           holder[b] = Nobody, holder' = [holder EXCEPT ![b] = p],
           onLru' = onLru \ {b},
           lref' = [lref EXCEPT ![b] = @ - (IF b \in onLru THEN 2 ELSE 0)],
           UNCHANGED entry
    PROVE  Books' /\ BookTypes'
  <1>1. p \notin Validators /\ p # Nobody /\ Nobody \notin Reservers /\ p \in Reservers
    BY Numbers DEF Reservers
  <1>2. BookTypes'
    <2>1. holder' \in [Buffers -> Reservers \cup {Nobody}] BY <1>1 DEF BookTypes
    <2>2. lref' \in [Buffers -> Int] BY DEF BookTypes
    <2> QED BY <2>1, <2>2 DEF BookTypes
  <1>3. \A w \in Validators : ~entry[w][b].reserved
    BY <1>1 DEF Books, OneOwner, Reservers
  <1>4. b \in onLru
    BY <1>1, <1>3 DEF Books, ListsExact, Reservers
  <1>5. \A d \in Buffers : /\ holder'[d] = IF d = b THEN p ELSE holder[d]
                           /\ lref'[d] = IF d = b THEN lref[d] - 2 ELSE lref[d]
    BY <1>4 DEF BookTypes
  <1>6. OneOwner'
    <2> SUFFICES ASSUME NEW w \in Validators, NEW d \in Buffers
                 PROVE  entry[w][d].reserved <=> holder'[d] = w
      BY DEF OneOwner
    <2> QED BY <1>1, <1>3, <1>5 DEF Books, OneOwner
  <1>7. PutFits'
    BY DEF Books, PutFits
  <1>8. ListsExact'
    BY <1>5, <1>3 DEF Books, ListsExact
  <1>9. RefsExact'
    <2> SUFFICES ASSUME NEW d \in Buffers
                 PROVE  lref'[d] = 1 + (IF d \in onLru' THEN 2 ELSE 0)
                          + (IF \E w \in Validators : entry[w][d].put > 0 THEN 2 ELSE 0)
      BY DEF RefsExact
    <2>1. lref[d] = 1 + (IF d \in onLru THEN 2 ELSE 0)
                      + (IF \E w \in Validators : entry[w][d].put > 0 THEN 2 ELSE 0)
      BY DEF Books, RefsExact
    <2> QED BY <2>1, <1>4, <1>5
  <1> QED BY <1>2, <1>6, <1>7, <1>8, <1>9 DEF Books

\* A thread without a number gives its buffer back to the lists.
LEMMA PlainGiveBooks ==
    ASSUME ReserveAssumption, BookTypes, Books, NEW p \in Plain, NEW b \in Buffers,
           holder[b] = p, holder' = [holder EXCEPT ![b] = Nobody],
           onLru' = onLru \cup {b}, lref' = [lref EXCEPT ![b] = @ + 2], UNCHANGED entry
    PROVE  Books' /\ BookTypes'
  <1>1. p \notin Validators /\ Nobody \notin Reservers /\ Nobody \notin Plain
    BY Numbers DEF Reservers
  <1>2. BookTypes'
    <2>1. holder' \in [Buffers -> Reservers \cup {Nobody}] BY <1>1 DEF BookTypes
    <2>2. lref' \in [Buffers -> Int] BY DEF BookTypes
    <2> QED BY <2>1, <2>2 DEF BookTypes
  <1>3. \A w \in Validators : ~entry[w][b].reserved
    BY <1>1 DEF Books, OneOwner
  <1>4. b \notin onLru
    BY DEF Books, ListsExact
  <1>5. \A d \in Buffers : /\ holder'[d] = IF d = b THEN Nobody ELSE holder[d]
                           /\ lref'[d] = IF d = b THEN lref[d] + 2 ELSE lref[d]
    BY DEF BookTypes
  <1>6. OneOwner'
    <2> SUFFICES ASSUME NEW w \in Validators, NEW d \in Buffers
                 PROVE  entry[w][d].reserved <=> holder'[d] = w
      BY DEF OneOwner
    <2> QED BY <1>1, <1>3, <1>5 DEF Books, OneOwner, Reservers
  <1>7. PutFits'
    BY DEF Books, PutFits
  <1>8. ListsExact'
    BY <1>1, <1>5, <1>3 DEF Books, ListsExact
  <1>9. RefsExact'
    <2> SUFFICES ASSUME NEW d \in Buffers
                 PROVE  lref'[d] = 1 + (IF d \in onLru' THEN 2 ELSE 0)
                          + (IF \E w \in Validators : entry[w][d].put > 0 THEN 2 ELSE 0)
      BY DEF RefsExact
    <2>1. lref[d] = 1 + (IF d \in onLru THEN 2 ELSE 0)
                      + (IF \E w \in Validators : entry[w][d].put > 0 THEN 2 ELSE 0)
      BY DEF Books, RefsExact
    <2> QED BY <2>1, <1>4, <1>5
  <1> QED BY <1>2, <1>6, <1>7, <1>8, <1>9 DEF Books

-----------------------------------------------------------------------------
(* What a step of one thread leaves to the others                          *)

Wakes(a, c) == c = a \/ (a = "asleep" /\ c = "woken") \/ (a = "slowasleep" /\ c = "slowwoken")
\* Of the jobs j some have been woken in k.
WokenOnly(j, k) == \A t \in Reservers :
    k[t].my = j[t].my /\ k[t].at = j[t].at /\ k[t].list = j[t].list /\ Wakes(j[t].pc, k[t].pc)

\* A job that moves to another place.
LEMMA JobFields ==
    ASSUME NEW r \in Jobs, NEW p \in Places
    PROVE  /\ [r EXCEPT !.pc = p] \in Jobs
           /\ [r EXCEPT !.pc = p].pc = p
           /\ [r EXCEPT !.pc = p].my = r.my
           /\ [r EXCEPT !.pc = p].at = r.at
           /\ [r EXCEPT !.pc = p].list = r.list
  BY DEF Jobs

\* A wakeup changes only the places of sleepers.
LEMMA WokenKeeps ==
    ASSUME NEW j \in [Reservers -> Jobs], NEW B
    PROVE  Woken(j, B) \in [Reservers -> Jobs] /\ WokenOnly(j, Woken(j, B))
  <1> DEFINE pc(t) == IF j[t].pc = "asleep" THEN "woken" ELSE "slowwoken"
  <1> DEFINE new(t) == IF j[t].pc \in {"asleep", "slowasleep"} /\ j[t].at \in B
                       THEN [j[t] EXCEPT !.pc = pc(t)] ELSE j[t]
  <1>1. Woken(j, B) = [t \in Reservers |-> new(t)]
    BY DEF Woken
  <1>2. ASSUME NEW t \in Reservers
        PROVE  /\ new(t) \in Jobs /\ new(t).my = j[t].my /\ new(t).at = j[t].at
               /\ new(t).list = j[t].list /\ Wakes(j[t].pc, new(t).pc)
    <2>1. j[t] \in Jobs OBVIOUS
    <2>2. pc(t) \in Places BY DEF Places, Works
    <2> DEFINE up == [j[t] EXCEPT !.pc = pc(t)]
    <2>3. up \in Jobs /\ up.pc = pc(t) /\ up.my = j[t].my /\ up.at = j[t].at /\ up.list = j[t].list
      BY <2>1, <2>2, JobFields
    <2>4. CASE j[t].pc \in {"asleep", "slowasleep"} /\ j[t].at \in B
      <3>1. new(t) = up BY <2>4
      <3>2. Wakes(j[t].pc, pc(t)) BY <2>4 DEF Wakes
      <3> QED BY <3>1, <3>2, <2>3
    <2>5. CASE ~(j[t].pc \in {"asleep", "slowasleep"} /\ j[t].at \in B)
      <3>1. new(t) = j[t] BY <2>5
      <3> QED BY <3>1, <2>1 DEF Wakes
    <2> QED BY <2>4, <2>5
  <1> HIDE DEF new
  <1> QED BY <1>1, <1>2 DEF WokenOnly

\* Two wakeups are one.
LEMMA WokenTwice ==
    ASSUME NEW j \in [Reservers -> Jobs], NEW k, NEW l, WokenOnly(j, k), WokenOnly(k, l)
    PROVE  WokenOnly(j, l)
  BY DEF WokenOnly, Wakes

\* A step of t: it alone loses or gains buffers, changes its place or takes a
\* number; others are woken at most.
StepOf(t) ==
    /\ Books' /\ BookTypes' /\ who' = who
    /\ seq' \in [Buffers -> (0 .. SeqMod - 1) \cup {Nobody}]
    /\ lru' \in Validators \cup {Nobody} /\ job' \in [Reservers -> Jobs]
    /\ \A u \in Reservers \ {t} :
        job'[u].my = job[u].my /\ job'[u].at = job[u].at /\ Wakes(job[u].pc, job'[u].pc)
    /\ \A u \in Reservers \ {t}, b \in Buffers : holder'[b] = u <=> holder[b] = u
    /\ \A u \in Validators \ {t} : lru' = u <=> lru = u
    /\ \A b \in Buffers : seq'[b] = seq[b] \/ holder'[b] \notin Reservers \ {t}
    /\ UNCHANGED <<valSeq, starts>> \/ (starts < MaxStarts /\ NextSeq(t))

\* The next number follows the last (val_seq++).
LEMMA NumbersKept ==
    ASSUME ReserveAssumption, ResInv, NEW t \in Reservers, StepOf(t)
    PROVE  /\ valSeq' \in 0 .. SeqMod - 1 /\ starts' \in 0 .. MaxStarts
           /\ Rank(valSeq') = starts' /\ starts <= starts'
           /\ starts' = starts => UNCHANGED valSeq
  <1>1. /\ valSeq \in 0 .. SeqMod - 1 /\ starts \in 0 .. MaxStarts /\ Rank(valSeq) = starts
        /\ MaxStarts \in Nat
    BY Numbers DEF ResInv, Types, ReserveAssumption
  <1>2. CASE UNCHANGED <<valSeq, starts>> BY <1>1, <1>2
  <1>3. CASE starts < MaxStarts /\ NextSeq(t)
    <2>1. valSeq' = (valSeq + 1) % SeqMod /\ starts' = starts + 1 BY <1>3 DEF NextSeq
    <2>2. (valSeq + 1) % SeqMod \in 0 .. SeqMod - 1 /\ Rank((valSeq + 1) % SeqMod) = starts + 1
      BY <1>1, <1>3, NextRank
    <2> QED BY <2>1, <2>2, <1>1, <1>3
  <1> QED BY <1>2, <1>3 DEF StepOf

\* The other threads keep their part of the invariant.
LEMMA OthersKeep ==
    ASSUME ReserveAssumption, ResInv, NEW t \in Reservers, StepOf(t)
    PROVE  /\ \A v \in Validators \ {t} : WorkPlace(v)' /\ InUse(v)' /\ Marked(v)'
           /\ \A p \in Plain \ {t} : PlainPlace(p)'
           /\ \A u \in Reservers \ {t} : job'[u].pc # "idle" => u \in who'
           /\ Pair' => \A v, w \in Validators \ {t} : Elder(v, w)'
           /\ \A p \in Plain \ {t} : job'[p].pc = job[p].pc /\ job'[p].at = job[p].at
  <1>1. ASSUME NEW u \in Reservers \ {t}
        PROVE  job'[u].my = job[u].my /\ job'[u].at = job[u].at /\ Wakes(job[u].pc, job'[u].pc)
    BY DEF StepOf
  <1>2. ASSUME NEW v \in Validators \ {t} PROVE WorkPlace(v)' /\ InUse(v)' /\ Marked(v)'
    <2>1. v \in Reservers \ {t} BY DEF Reservers
    <2>2. WorkPlace(v) /\ InUse(v) /\ Marked(v) BY DEF ResInv
    <2>3. \A b \in Buffers : holder'[b] = v <=> holder[b] = v BY <2>1 DEF StepOf
    <2>4. lru' = v <=> lru = v BY DEF StepOf
    <2>5. WorkPlace(v)'
      BY <1>1, <2>1, <2>2, <2>3, <2>4 DEF WorkPlace, Works, Bare, Sleepy, Wakes
    <2>6. InUse(v)'
      <3>1. job'[v].pc # "idle" => job[v].pc # "idle" BY <1>1, <2>1 DEF Wakes
      <3>2. job'[v].my = job[v].my BY <1>1, <2>1
      <3>3. starts <= starts' /\ starts \in 0 .. MaxStarts /\ starts' \in 0 .. MaxStarts
            /\ MaxStarts \in Nat
        BY NumbersKept DEF ResInv, Types, ReserveAssumption
      <3>4. job[v].my \in 0 .. SeqMod - 1 /\ SeqMod \in Nat
        BY <2>1 DEF ResInv, Types, Jobs, ReserveAssumption
      <3>5. Rank(job[v].my) \in Int BY <3>4 DEF Rank
      <3> QED BY <3>1, <3>2, <3>3, <3>5, <2>2 DEF InUse
    <2>7. Marked(v)'
      BY <1>1, <2>1, <2>2, <2>3 DEF Marked, StepOf
    <2> QED BY <2>5, <2>6, <2>7
  <1>3. ASSUME NEW p \in Plain \ {t} PROVE PlainPlace(p)' /\ job'[p].pc = job[p].pc /\ job'[p].at = job[p].at
    <2>1. p \in Reservers \ {t} BY DEF Reservers
    <2>2. PlainPlace(p) BY DEF ResInv
    <2>3. \A b \in Buffers : holder'[b] = p <=> holder[b] = p BY <2>1 DEF StepOf
    <2>4. job'[p].pc = job[p].pc /\ job'[p].at = job[p].at
      BY <1>1, <2>1, <2>2 DEF Wakes, PlainPlace
    <2> QED BY <2>2, <2>3, <2>4 DEF PlainPlace
  <1>4. \A u \in Reservers \ {t} : job'[u].pc # "idle" => u \in who'
    BY <1>1 DEF Wakes, ResInv, StepOf
  <1>5. Pair' => \A v, w \in Validators \ {t} : Elder(v, w)'
    <2> SUFFICES ASSUME Pair', NEW v \in Validators \ {t}, NEW w \in Validators \ {t}
                 PROVE  Elder(v, w)'
      OBVIOUS
    <2>1. Pair BY DEF Pair, StepOf
    <2>2. v \in Reservers \ {t} /\ w \in Reservers \ {t} BY DEF Reservers
    <2>3. Elder(v, w) BY <2>1 DEF ResInv
    <2>4. /\ job'[v].pc \in Sleepy => job[v].pc \in Sleepy
          /\ job'[w].pc # "idle" => job[w].pc # "idle"
          /\ job'[v].my = job[v].my /\ job'[w].my = job[w].my
      BY <1>1, <2>2 DEF Wakes, Sleepy
    <2> QED BY <2>3, <2>4 DEF Elder
  <1> QED BY <1>2, <1>3, <1>4, <1>5

-----------------------------------------------------------------------------
(* The steps of the validators                                             *)

\* The number that the validator has after the step is the one it had, or new,
\* and a validator falls asleep only for a younger one.
Kept(v) == job[v].pc # "idle" /\ job'[v].my = job[v].my
Renewed(v) == job'[v].my = valSeq /\ starts' = starts + 1
YieldsNot(v) == Pair => \A w \in Validators \ {v} :
    job[w].pc # "idle" => Rank(job'[v].my) < Rank(job[w].my)
Mine(v) ==
    /\ UNCHANGED writers /\ WorkPlace(v)' /\ Marked(v)'
    /\ job'[v].pc # "idle" => v \in who /\ (Kept(v) \/ Renewed(v))
    /\ job'[v].pc \in Sleepy => Kept(v) /\ (job[v].pc \in Sleepy \/ YieldsNot(v))

\* A step keeps the types and the books.
LEMMA TypesKept ==
    ASSUME ReserveAssumption, ResInv, NEW t \in Reservers, StepOf(t), writers' \in [Buffers -> Int]
    PROVE  Types' /\ Books' /\ Rank(valSeq') = starts'
  <1>1. /\ valSeq' \in 0 .. SeqMod - 1 /\ starts' \in 0 .. MaxStarts /\ Rank(valSeq') = starts'
    BY NumbersKept
  <1>2. who' \subseteq Reservers
    BY DEF ResInv, Types, StepOf
  <1> QED BY <1>1, <1>2 DEF StepOf, BookTypes, Types

\* Places are numbers.
LEMMA RankInt ==
    ASSUME ReserveAssumption, NEW n \in 0 .. SeqMod - 1
    PROVE  Rank(n) \in Int
  <1>1. SeqMod \in Nat BY DEF ReserveAssumption
  <1> QED BY <1>1 DEF Rank

\* A validator's step keeps the invariant when its own part holds after it.
LEMMA WorkStep ==
    ASSUME ReserveAssumption, ResInv, NEW v \in Validators, StepOf(v), Mine(v)
    PROVE  ResInv'
  <1>1. v \in Reservers /\ v \notin Plain
    BY Numbers DEF Reservers
  <1>2. Types' /\ Books' /\ Rank(valSeq') = starts'
    <2>1. writers' \in [Buffers -> Int] BY DEF ResInv, Types, Mine
    <2> QED BY <1>1, <2>1, TypesKept
  <1>3. /\ \A w \in Validators \ {v} : WorkPlace(w)' /\ InUse(w)' /\ Marked(w)'
        /\ \A p \in Plain \ {v} : PlainPlace(p)'
        /\ \A u \in Reservers \ {v} : job'[u].pc # "idle" => u \in who'
        /\ Pair' => \A u, w \in Validators \ {v} : Elder(u, w)'
        /\ \A p \in Plain \ {v} : job'[p].pc = job[p].pc /\ job'[p].at = job[p].at
    BY <1>1, OthersKeep
  <1>4. WritersCounted'
    <2>1. \A b \in Buffers : Writing(b)' = Writing(b)
      BY <1>1, <1>3 DEF Writing
    <2> QED BY <2>1 DEF WritersCounted, ResInv, Mine
  <1>5. /\ starts \in Nat /\ starts' \in Nat /\ starts <= starts' /\ Rank(valSeq) = starts
        /\ \A u \in Reservers : Rank(job[u].my) \in Int
    <2>1. starts <= starts' /\ starts' \in 0 .. MaxStarts BY <1>1, NumbersKept
    <2>2. starts \in 0 .. MaxStarts /\ MaxStarts \in Nat /\ Rank(valSeq) = starts
      BY DEF ResInv, Types, ReserveAssumption
    <2>3. \A u \in Reservers : job[u].my \in 0 .. SeqMod - 1 BY DEF ResInv, Types, Jobs
    <2> QED BY <2>1, <2>2, <2>3, RankInt
  <1>6. InUse(v)'
    <2> SUFFICES ASSUME job'[v].pc # "idle" PROVE Rank(job'[v].my) < starts'
      BY DEF InUse
    <2>1. CASE Kept(v) BY <2>1, <1>1, <1>5 DEF Kept, ResInv, InUse
    <2>2. CASE Renewed(v) BY <2>2, <1>5 DEF Renewed
    <2> QED BY <2>1, <2>2 DEF Mine
  <1>7. WorkPlace(v)' /\ Marked(v)' /\ (job'[v].pc # "idle" => v \in who')
    BY DEF Mine, StepOf
  <1>8. ASSUME Pair', NEW u \in Validators, NEW w \in Validators PROVE Elder(u, w)'
    <2>1. Pair BY <1>8 DEF Pair, StepOf
    <2>2. \A x \in Validators \ {v} : job'[x].my = job[x].my /\ Wakes(job[x].pc, job'[x].pc)
      BY DEF StepOf, Reservers
    <2>3. \A x \in Validators \ {v} : job'[x].pc # "idle" => job[x].pc # "idle"
      BY <2>2 DEF Wakes
    <2>4. \A x \in Validators \ {v} : job'[x].pc \in Sleepy => job[x].pc \in Sleepy
      BY <2>2 DEF Wakes, Sleepy
    <2>5. Elder(u, w)
      BY <2>1 DEF ResInv
    <2>6. CASE u = v
      <3> SUFFICES ASSUME v # w, job'[v].pc \in Sleepy, job'[w].pc # "idle"
                   PROVE  Rank(job'[v].my) < Rank(job'[w].my)
        BY <2>6 DEF Elder
      <3>1. job[w].pc # "idle" /\ job'[w].my = job[w].my BY <2>2, <2>3
      <3>2. CASE job[v].pc \in Sleepy
        BY <3>1, <3>2, <2>5, <2>6 DEF Elder, Mine, Kept
      <3>3. CASE YieldsNot(v)
        BY <3>1, <3>3, <2>1 DEF YieldsNot
      <3> QED BY <3>2, <3>3 DEF Mine
    <2>7. CASE u # v /\ w = v
      <3> SUFFICES ASSUME job'[u].pc \in Sleepy, job'[v].pc # "idle"
                   PROVE  Rank(job'[u].my) < Rank(job'[v].my)
        BY <2>7 DEF Elder
      <3>1. job[u].pc \in Sleepy /\ job'[u].my = job[u].my BY <2>2, <2>4, <2>7
      <3>2. CASE Kept(v)
        BY <3>1, <3>2, <2>5, <2>7 DEF Elder, Kept
      <3>3. CASE Renewed(v)
        <4>1. Rank(job[u].my) < starts BY <3>1 DEF ResInv, InUse, Sleepy
        <4> QED BY <4>1, <3>1, <3>3, <1>5 DEF Renewed
      <3> QED BY <3>2, <3>3 DEF Mine
    <2>8. CASE u # v /\ w # v
      BY <2>8, <1>3, <1>8
    <2> QED BY <2>6, <2>7, <2>8
  <1>9. Pair' => \A u, w \in Validators : Elder(u, w)'
    BY <1>8
  <1>10. \A w \in Validators : WorkPlace(w)' /\ InUse(w)' /\ Marked(w)'
    BY <1>3, <1>6, <1>7
  <1>11. \A p \in Plain : PlainPlace(p)'
    BY <1>1, <1>3
  <1>12. \A u \in Reservers : job'[u].pc # "idle" => u \in who'
    BY <1>3, <1>7
  <1> QED BY <1>2, <1>4, <1>9, <1>10, <1>11, <1>12 DEF ResInv

\* What the steps need of the state before them.
Ready(v) ==
    /\ v \in Reservers /\ v \notin Plain /\ v # Nobody /\ Nobody \notin Reservers
    /\ BookTypes /\ Books /\ WorkPlace(v) /\ InUse(v) /\ Marked(v)
    /\ job[v] \in Jobs /\ job \in [Reservers -> Jobs]
    /\ lru \in Validators \cup {Nobody}
    /\ seq \in [Buffers -> (0 .. SeqMod - 1) \cup {Nobody}]
    /\ job[v].pc # "idle" => v \in who

\* The invariant gives what the steps need.
LEMMA InvReady ==
    ASSUME ReserveAssumption, ResInv, NEW v \in Validators
    PROVE  Ready(v)
  <1>1. v \in Reservers /\ v \notin Plain /\ v # Nobody /\ Nobody \notin Reservers
    BY Numbers DEF Reservers
  <1> QED BY <1>1 DEF Ready, ResInv, Types, BookTypes

\* The job of an idle thread.
LEMMA IdleJob == ASSUME ReserveAssumption PROVE NoJob \in Jobs /\ NoJob.pc = "idle" /\ NoJob.my = 0
  <1>1. 0 \in 0 .. SeqMod - 1 BY Numbers
  <1>2. <<>> \in Seq(Buffers) OBVIOUS
  <1> QED BY <1>1, <1>2 DEF NoJob, Jobs, Places, Works

\* The others when one has given back what it held: they are woken at most.
LEMMA BackoffOthers ==
    ASSUME ReserveAssumption, ResInv, NEW v \in Validators, Backoff(v), UNCHANGED who,
           lru' \in {Nobody, v}, lru \in {Nobody, v},
           seq' \in [Buffers -> (0 .. SeqMod - 1) \cup {Nobody}],
           \A b \in Buffers : seq'[b] = seq[b] \/ holder[b] = Nobody,
           UNCHANGED <<valSeq, starts>> \/ (starts < MaxStarts /\ NextSeq(v)),
           NEW up \in [Reservers -> Jobs], WokenOnly(job, up),
           NEW j \in Jobs, job' = [up EXCEPT ![v] = j]
    PROVE  StepOf(v) /\ job'[v] = j /\ \A b \in Buffers : holder'[b] # v
  <1>1. Ready(v) BY InvReady
  <1>2. /\ Books' /\ BookTypes' /\ \A b \in Buffers : holder'[b] # v
        /\ \A b \in Buffers, t \in Reservers \ {v} : holder'[b] = t <=> holder[b] = t
    BY <1>1, BackoffBooks DEF Ready
  <1>4. job' \in [Reservers -> Jobs] /\ job'[v] = j /\ \A u \in Reservers \ {v} : job'[u] = up[u]
    BY <1>1 DEF Ready
  <1>5. \A u \in Reservers \ {v} :
          job'[u].my = job[u].my /\ job'[u].at = job[u].at /\ Wakes(job[u].pc, job'[u].pc)
    BY <1>4 DEF WokenOnly
  <1>6. \A u \in Validators \ {v} : lru' = u <=> lru = u
    BY Numbers DEF Reservers
  <1>7. \A b \in Buffers : seq'[b] = seq[b] \/ holder'[b] \notin Reservers \ {v}
    BY <1>1, <1>2 DEF Ready
  <1>8. lru' \in Validators \cup {Nobody}
    OBVIOUS
  <1> QED BY <1>2, <1>4, <1>5, <1>6, <1>7, <1>8 DEF StepOf

\* A validator that gives up and returns.
LEMMA GivesUp ==
    ASSUME ReserveAssumption, ResInv, NEW v \in Validators, Backoff(v), UNCHANGED <<who, writers>>,
           lru' = Nobody, lru \in {Nobody, v},
           seq' \in [Buffers -> (0 .. SeqMod - 1) \cup {Nobody}],
           \A b \in Buffers : seq'[b] = seq[b] \/ holder[b] = Nobody,
           UNCHANGED <<valSeq, starts>>,
           NEW up \in [Reservers -> Jobs], WokenOnly(job, up), job' = [up EXCEPT ![v] = NoJob]
    PROVE  ResInv'
  <1>1. StepOf(v) /\ job'[v] = NoJob /\ \A b \in Buffers : holder'[b] # v
    BY IdleJob, BackoffOthers
  <1>2. job'[v].pc = "idle" BY <1>1, IdleJob
  <1>3. v # Nobody BY InvReady DEF Ready
  <1>4. WorkPlace(v)' BY <1>1, <1>2, <1>3 DEF WorkPlace, Works, Sleepy
  <1>5. Marked(v)' BY <1>1 DEF Marked
  <1>6. Mine(v) BY <1>2, <1>4, <1>5 DEF Mine, Sleepy
  <1> QED BY <1>1, <1>6, WorkStep

\* A validator takes a buffer, or gives up because a processor writes to it.
LEMMA ReserveKeeps ==
    ASSUME ReserveAssumption, ResInv, NEW v \in Validators, NEW b \in Buffers,
           lru = v, Reserve(v, b)
    PROVE  ResInv'
  <1> DEFINE j == IF seq[b] = Nobody \/ Newer(seq[b], job[v].my) THEN Woken(job, {b}) ELSE job
  <1>1. /\ holder[b] = Nobody /\ seq' = [seq EXCEPT ![b] = job[v].my]
        /\ UNCHANGED <<who, writers, valSeq, starts>>
        /\ \/ /\ holder' = [holder EXCEPT ![b] = v]
              /\ entry' = [entry EXCEPT ![v][b].reserved = TRUE]
              /\ job' = [j EXCEPT ![v].pc = "run"] /\ lru' = v
              /\ UNCHANGED <<onLru, lref>>
           \/ /\ Backoff(v) /\ job' = [Woken(j, HeldBy(v) \cup {b}) EXCEPT ![v] = NoJob]
              /\ lru' = Nobody
    BY DEF Reserve
  <1>2. Ready(v) BY InvReady
  <1>3. job[v].pc \in {"run", "slow"} BY <1>2 DEF Ready, WorkPlace
  <1>4. job[v].my \in 0 .. SeqMod - 1 BY <1>2 DEF Ready, Jobs
  <1>5. seq' \in [Buffers -> (0 .. SeqMod - 1) \cup {Nobody}]
    BY <1>1, <1>2, <1>4 DEF Ready
  <1>6. \A d \in Buffers \ {b} : seq'[d] = seq[d]
    BY <1>1, <1>2 DEF Ready
  <1>7. j \in [Reservers -> Jobs] /\ WokenOnly(job, j)
    <2>1. Woken(job, {b}) \in [Reservers -> Jobs] /\ WokenOnly(job, Woken(job, {b}))
      BY <1>2, WokenKeeps DEF Ready
    <2>2. WokenOnly(job, job) BY DEF WokenOnly, Wakes
    <2> QED BY <2>1, <2>2, <1>2 DEF Ready
  <1> HIDE DEF j
  <1>8. CASE /\ holder' = [holder EXCEPT ![b] = v]
             /\ entry' = [entry EXCEPT ![v][b].reserved = TRUE]
             /\ job' = [j EXCEPT ![v].pc = "run"] /\ lru' = v
             /\ UNCHANGED <<onLru, lref>>
    <2>1. /\ Books' /\ BookTypes'
          /\ \A d \in Buffers : holder'[d] = v <=> holder[d] = v \/ d = b
          /\ \A d \in Buffers, t \in Reservers \ {v} : holder'[d] = t <=> holder[d] = t
      BY <1>1, <1>2, <1>8, TakeBooks DEF Ready
    <2>2. j[v] \in Jobs /\ "run" \in Places BY <1>2, <1>7 DEF Ready, Places, Works
    <2> DEFINE run == [j[v] EXCEPT !.pc = "run"]
    <2>3. run \in Jobs /\ run.pc = "run" /\ run.my = j[v].my /\ run.at = j[v].at /\ run.list = j[v].list
      BY <2>2, JobFields
    <2>4. job' = [j EXCEPT ![v] = run] BY <1>8
    <2> HIDE DEF run
    <2>5. job' \in [Reservers -> Jobs] /\ job'[v] = run /\ \A u \in Reservers \ {v} : job'[u] = j[u]
      BY <1>2, <1>7, <2>3, <2>4 DEF Ready
    <2>6. \A u \in Reservers \ {v} :
            job'[u].my = job[u].my /\ job'[u].at = job[u].at /\ Wakes(job[u].pc, job'[u].pc)
      BY <1>7, <2>5 DEF WokenOnly
    <2>7. \A d \in Buffers : seq'[d] = seq[d] \/ holder'[d] \notin Reservers \ {v}
      BY <1>2, <1>6, <2>1 DEF Ready
    <2>8. StepOf(v)
      BY <1>1, <1>5, <1>8, <2>1, <2>5, <2>6, <2>7 DEF StepOf
    <2>9. job'[v].pc = "run" /\ job'[v].my = job[v].my
      BY <1>2, <1>7, <2>3, <2>5 DEF WokenOnly, Ready
    <2>10. WorkPlace(v)' BY <1>8, <2>9 DEF WorkPlace, Works, Bare, Sleepy
    <2>11. Marked(v)'
      BY <1>1, <1>2, <1>6, <2>1, <2>9 DEF Marked, Ready
    <2>12. Mine(v)
      BY <1>1, <1>2, <1>3, <2>9, <2>10, <2>11 DEF Mine, Ready, Kept, Sleepy
    <2> QED BY <2>8, <2>12, WorkStep
  <1>9. CASE /\ Backoff(v) /\ job' = [Woken(j, HeldBy(v) \cup {b}) EXCEPT ![v] = NoJob]
             /\ lru' = Nobody
    <2> DEFINE up == Woken(j, HeldBy(v) \cup {b})
    <2>1. up \in [Reservers -> Jobs] /\ WokenOnly(j, up) BY <1>7, WokenKeeps
    <2>2. WokenOnly(job, up) BY <1>2, <1>7, <2>1, WokenTwice DEF Ready
    <2> HIDE DEF up
    <2>3. job' = [up EXCEPT ![v] = NoJob] BY <1>9 DEF up
    <2>4. \A d \in Buffers : seq'[d] = seq[d] \/ holder[d] = Nobody BY <1>1, <1>6
    <2> QED BY <1>1, <1>5, <1>9, <2>1, <2>2, <2>3, <2>4, GivesUp
  <1> QED BY <1>1, <1>8, <1>9

\* The steps that change neither reservations nor other threads' jobs.
LEMMA JobOnly ==
    ASSUME ReserveAssumption, ResInv, NEW v \in Validators, NEW j \in Jobs,
           job' = [job EXCEPT ![v] = j], Books', BookTypes',
           UNCHANGED <<who, holder, seq, writers, valSeq, starts>>,
           lru' = lru \/ (lru' \in {Nobody, v} /\ lru \in {Nobody, v})
    PROVE  StepOf(v) /\ job'[v] = j
  <1>1. Ready(v) BY InvReady
  <1>2. job' \in [Reservers -> Jobs] /\ job'[v] = j /\ \A u \in Reservers \ {v} : job'[u] = job[u]
    BY <1>1 DEF Ready
  <1>3. \A u \in Reservers \ {v} :
          job'[u].my = job[u].my /\ job'[u].at = job[u].at /\ Wakes(job[u].pc, job'[u].pc)
    BY <1>2 DEF Wakes
  <1>4. \A u \in Validators \ {v} : lru' = u <=> lru = u
    BY Numbers DEF Reservers
  <1>5. seq' \in [Buffers -> (0 .. SeqMod - 1) \cup {Nobody}] /\ lru' \in Validators \cup {Nobody}
    BY <1>1 DEF Ready
  <1> QED BY <1>2, <1>3, <1>4, <1>5 DEF StepOf

\* ttm_eu_reserve_buffers begins.
LEMMA StartKeeps ==
    ASSUME ReserveAssumption, ResInv, NEW v \in Validators, NEW l \in Lists, Start(v, l)
    PROVE  ResInv'
  <1>1. Ready(v) BY InvReady
  <1> DEFINE j == [pc |-> "run", list |-> l, my |-> valSeq, at |-> Nobody]
  <1>2. /\ v \in who /\ job[v].pc = "idle" /\ lru = Nobody /\ starts < MaxStarts
        /\ lru' = v /\ valSeq' = (valSeq + 1) % SeqMod /\ starts' = starts + 1
        /\ job' = [job EXCEPT ![v] = j] /\ entry' = [entry EXCEPT ![v] = NoEntry]
        /\ UNCHANGED <<who, holder, seq, onLru, lref, writers>> /\ NextSeq(v)
    BY DEF Start, NextSeq
  <1>3. l \in Seq(Buffers) BY DEF ReserveAssumption
  <1>4. j \in Jobs
    BY <1>3 DEF Jobs, Places, Works, ResInv, Types
  <1> HIDE DEF j
  <1>5. \A b \in Buffers : ~entry[v][b].reserved
    BY <1>1, <1>2 DEF Ready, WorkPlace, Bare, Books, OneOwner
  <1>6. \A b \in Buffers : ~entry[v][b].removed /\ entry[v][b].put = 0
    BY <1>1, <1>5, EntryFields DEF Ready, Books, PutFits
  <1>7. entry[v] = NoEntry
    <2>1. ASSUME NEW b \in Buffers PROVE entry[v][b] = NoEntry[b]
      <3>1. entry[v][b] \in Entries BY <1>1 DEF Ready, BookTypes
      <3>2. entry[v][b] = [reserved |-> FALSE, removed |-> FALSE, put |-> 0]
        BY <3>1, <1>5, <1>6 DEF Entries
      <3> QED BY <3>2 DEF NoEntry
    <2>2. entry[v] = [b \in Buffers |-> entry[v][b]] BY <1>1 DEF Ready, BookTypes
    <2>3. NoEntry = [b \in Buffers |-> NoEntry[b]] BY DEF NoEntry
    <2> QED BY <2>1, <2>2, <2>3
  <1>8. entry' = entry BY <1>1, <1>2, <1>7 DEF Ready, BookTypes
  <1>9. Books' /\ BookTypes'
    BY <1>1, <1>2, <1>8 DEF Ready, Books, BookTypes, OneOwner, PutFits, ListsExact, RefsExact
  <1>10. job' \in [Reservers -> Jobs] /\ job'[v] = j /\ \A u \in Reservers \ {v} : job'[u] = job[u]
    BY <1>1, <1>2, <1>4 DEF Ready
  <1>11. \A u \in Reservers \ {v} :
          job'[u].my = job[u].my /\ job'[u].at = job[u].at /\ Wakes(job[u].pc, job'[u].pc)
    BY <1>10 DEF Wakes
  <1>12. \A u \in Validators \ {v} : lru' = u <=> lru = u
    BY <1>1, <1>2 DEF Ready, Reservers
  <1>13. StepOf(v)
    BY <1>1, <1>2, <1>9, <1>10, <1>11, <1>12 DEF StepOf, Ready
  <1>14. job'[v].pc = "run" /\ job'[v].my = valSeq BY <1>10 DEF j
  <1>15. WorkPlace(v)' BY <1>2, <1>14 DEF WorkPlace, Works, Bare, Sleepy
  <1>16. \A b \in Buffers : holder'[b] # v
    BY <1>1, <1>2, <1>5 DEF Ready, Books, OneOwner
  <1>17. Mine(v)
    BY <1>2, <1>14, <1>15, <1>16 DEF Mine, Marked, Renewed, Sleepy
  <1> QED BY <1>13, <1>17, WorkStep

\* -EAGAIN: back off under a new number.
LEMMA TryOlderKeeps ==
    ASSUME ReserveAssumption, ResInv, NEW v \in Validators, NEW b \in Buffers, TryOlder(v, b)
    PROVE  ResInv'
  <1>1. Ready(v) BY InvReady
  <1> DEFINE up == Woken(job, HeldBy(v))
  <1> DEFINE j == [up[v] EXCEPT !.pc = "slow", !.at = b, !.my = valSeq]
  <1>2. /\ lru = v /\ job[v].pc = "run" /\ starts < MaxStarts /\ Backoff(v) /\ NextSeq(v)
        /\ job' = [up EXCEPT ![v].pc = "slow", ![v].at = b, ![v].my = valSeq]
        /\ UNCHANGED <<who, lru, seq, writers>>
    BY DEF TryOlder, Turn
  <1>3. up \in [Reservers -> Jobs] /\ WokenOnly(job, up) BY <1>1, WokenKeeps DEF Ready
  <1>4. job' = [up EXCEPT ![v] = j]
    BY <1>2
  <1>5. j \in Jobs /\ j.pc = "slow" /\ j.at = b /\ j.my = valSeq
    <2>1. up[v] \in Jobs BY <1>1, <1>3 DEF Ready
    <2>2. valSeq \in 0 .. SeqMod - 1 BY DEF ResInv, Types
    <2> QED BY <2>1, <2>2 DEF Jobs, Places, Works
  <1> HIDE DEF j, up
  <1>6. seq' \in [Buffers -> (0 .. SeqMod - 1) \cup {Nobody}] BY <1>1, <1>2 DEF Ready
  <1>7. StepOf(v) /\ job'[v] = j /\ \A d \in Buffers : holder'[d] # v
    BY <1>2, <1>3, <1>4, <1>5, <1>6, BackoffOthers
  <1>8. WorkPlace(v)' BY <1>2, <1>5, <1>7 DEF WorkPlace, Works, Sleepy
  <1>9. Mine(v)
    BY <1>1, <1>2, <1>5, <1>7, <1>8 DEF Mine, Marked, Renewed, Ready, Sleepy, NextSeq
  <1> QED BY <1>7, <1>9, WorkStep

\* Whoever makes a validator sleep, among two, is the younger of them.
LEMMA HolderYounger ==
    ASSUME ReserveAssumption, ResInv, NEW v \in Validators, NEW b \in Buffers,
           Turn(v, b), holder[b] # Nobody, ~BacksOff(v, b), Pair
    PROVE  \A w \in Validators \ {v} : job[w].pc # "idle" => Rank(job[v].my) < Rank(job[w].my)
  <1> SUFFICES ASSUME NEW w \in Validators \ {v}, job[w].pc # "idle"
               PROVE  Rank(job[v].my) < Rank(job[w].my)
    OBVIOUS
  <1>1. Ready(v) BY InvReady
  <1>2. job[v].pc = "run" /\ ~entry[v][b].reserved BY DEF Turn
  <1>3. holder[b] # v BY <1>1, <1>2 DEF Ready, Books, OneOwner
  <1>4. v \in who /\ w \in who /\ w \in Reservers
    BY <1>1, <1>2 DEF Ready, ResInv, Reservers
  <1>5. holder[b] \in Reservers BY <1>1 DEF Ready, BookTypes
  <1>6. holder[b] \in who
    <2>1. CASE holder[b] \in Validators
      <3>1. WorkPlace(holder[b]) BY <2>1 DEF ResInv
      <3>2. job[holder[b]].pc # "idle" BY <3>1 DEF WorkPlace, Bare
      <3> QED BY <1>5, <3>2 DEF ResInv
    <2>2. CASE holder[b] \in Plain
      <3>1. PlainPlace(holder[b]) BY <2>2 DEF ResInv
      <3>2. job[holder[b]].pc # "idle" BY <3>1 DEF PlainPlace
      <3> QED BY <1>5, <3>2 DEF ResInv
    <2> QED BY <1>5, <2>1, <2>2 DEF Reservers
  <1>7. holder[b] = w BY <1>3, <1>4, <1>6 DEF Pair
  <1>8. seq[b] = job[w].my BY <1>7 DEF ResInv, Marked
  <1>9. job[v].my \in 0 .. SeqMod - 1 /\ job[w].my \in 0 .. SeqMod - 1
    BY <1>1, <1>4 DEF Ready, Jobs
  <1>10. seq[b] # Nobody BY <1>8, <1>9, Numbers
  <1>11. ~Newer(job[v].my, job[w].my) BY <1>8, <1>10 DEF BacksOff
  <1>12. Rank(job[v].my) < starts /\ Rank(job[w].my) < starts
    BY <1>2 DEF ResInv, InUse
  <1>13. Rank(job[v].my) \in Int /\ Rank(job[w].my) \in Int BY <1>9, RankInt
  <1>14. Rank(job[v].my) < MaxStarts /\ Rank(job[w].my) < MaxStarts
    BY <1>12, <1>13 DEF ResInv, Types, ReserveAssumption
  <1>15. ~(Rank(job[w].my) <= Rank(job[v].my)) BY <1>9, <1>11, <1>14, NewerRank
  <1> QED BY <1>13, <1>15

\* -EBUSY: sleep for a younger one.
LEMMA TryYoungerKeeps ==
    ASSUME ReserveAssumption, ResInv, NEW v \in Validators, NEW b \in Buffers, TryYounger(v, b)
    PROVE  ResInv'
  <1>1. Ready(v) BY InvReady
  <1> DEFINE j == [job[v] EXCEPT !.pc = "asleep", !.at = b]
  <1>2. /\ Turn(v, b) /\ holder[b] # Nobody /\ ~BacksOff(v, b) /\ Remove(v) /\ lru' = Nobody
        /\ job' = [job EXCEPT ![v].pc = "asleep", ![v].at = b]
        /\ UNCHANGED <<who, holder, seq, lref, writers, valSeq, starts>>
    BY DEF TryYounger
  <1>3. lru = v /\ job[v].pc = "run" /\ ~entry[v][b].reserved BY <1>2 DEF Turn
  <1>4. job' = [job EXCEPT ![v] = j] BY <1>2
  <1>5. j \in Jobs /\ j.pc = "asleep" /\ j.at = b /\ j.my = job[v].my
    BY <1>1 DEF Ready, Jobs, Places, Works
  <1> HIDE DEF j
  <1>6. Books' /\ BookTypes' BY <1>1, <1>2, RemoveBooks DEF Ready
  <1>7. StepOf(v) /\ job'[v] = j
    BY <1>2, <1>3, <1>4, <1>5, <1>6, JobOnly
  <1>8. holder[b] # v BY <1>1, <1>3 DEF Ready, Books, OneOwner
  <1>9. WorkPlace(v)'
    BY <1>1, <1>2, <1>5, <1>7, <1>8 DEF WorkPlace, Works, Bare, Sleepy, Ready
  <1>10. Marked(v)' BY <1>1, <1>2, <1>5, <1>7 DEF Marked, Ready
  <1>11. Kept(v) BY <1>3, <1>5, <1>7 DEF Kept
  <1>12. YieldsNot(v)
    <2> SUFFICES ASSUME Pair PROVE \A w \in Validators \ {v} :
            job[w].pc # "idle" => Rank(job'[v].my) < Rank(job[w].my)
      BY DEF YieldsNot
    <2> QED BY <1>2, <1>5, <1>7, HolderYounger
  <1>13. Mine(v)
    BY <1>1, <1>2, <1>3, <1>9, <1>10, <1>11, <1>12 DEF Mine, Ready
  <1> QED BY <1>7, <1>13, WorkStep

\* A validator goes on to another place, with what it holds and its number.
LEMMA GoesOn ==
    ASSUME ReserveAssumption, ResInv, NEW v \in Validators, NEW p \in Places,
           job' = [job EXCEPT ![v].pc = p], Books', BookTypes',
           UNCHANGED <<who, holder, seq, writers, valSeq, starts>>,
           lru' = lru \/ (lru' \in {Nobody, v} /\ lru \in {Nobody, v}),
           job[v].pc # "idle", p \in Works, p # "idle",
           lru' = v <=> p \in {"run", "slow"},
           p \in {"asleep", "woken", "slow", "slowasleep", "slowwoken"} =>
               job[v].pc \in {"asleep", "woken", "slow", "slowasleep", "slowwoken"},
           p \in Bare => job[v].pc \in Bare, p \in Sleepy => job[v].pc \in Sleepy
    PROVE  ResInv'
  <1>1. Ready(v) BY InvReady
  <1> DEFINE j == [job[v] EXCEPT !.pc = p]
  <1>2. j \in Jobs /\ j.pc = p /\ j.at = job[v].at /\ j.my = job[v].my
    BY <1>1, JobFields DEF Ready
  <1>3. job' = [job EXCEPT ![v] = j] OBVIOUS
  <1> HIDE DEF j
  <1>4. StepOf(v) /\ job'[v] = j BY <1>2, <1>3, JobOnly
  <1>5. WorkPlace(v)' BY <1>1, <1>2, <1>4 DEF WorkPlace, Ready
  <1>6. Marked(v)' BY <1>1, <1>2, <1>4 DEF Marked, Ready
  <1>7. Mine(v) BY <1>1, <1>2, <1>4, <1>5, <1>6 DEF Mine, Kept, Ready
  <1> QED BY <1>4, <1>7, WorkStep

\* Steps that touch no buffer keep the books.
LEMMA BooksStay ==
    ASSUME BookTypes, Books, UNCHANGED <<holder, onLru, lref, entry>>
    PROVE  Books' /\ BookTypes'
  BY DEF BookTypes, Books, OneOwner, PutFits, ListsExact, RefsExact

\* ttm_bo_wait_unreserved_locked ends or goes on.
LEMMA WakeKeeps ==
    ASSUME ReserveAssumption, ResInv, NEW v \in Validators, Wake(v)
    PROVE  ResInv'
  <1>1. Ready(v) BY InvReady
  <1> DEFINE slow == job[v].pc = "slowwoken"
  <1>2. /\ job[v].pc \in {"woken", "slowwoken"} /\ lru = Nobody
        /\ UNCHANGED <<who, holder, seq, onLru, lref, writers, valSeq, starts, entry>>
        /\ \/ lru' = Nobody /\ job' = [job EXCEPT ![v].pc = IF slow THEN "slowasleep" ELSE "asleep"]
           \/ lru' = v /\ job' = [job EXCEPT ![v].pc = IF slow THEN "slow" ELSE "run"]
    BY DEF Wake
  <1>3. Books' /\ BookTypes' BY <1>1, <1>2, BooksStay DEF Ready
  <1>4. {"slowasleep", "asleep", "slow", "run"} \subseteq Works /\ Works \subseteq Places
    BY DEF Works, Places
  <1>5. CASE lru' = Nobody /\ job' = [job EXCEPT ![v].pc = IF slow THEN "slowasleep" ELSE "asleep"]
    <2> DEFINE p == IF slow THEN "slowasleep" ELSE "asleep"
    <2>1. p \in Works /\ p # "idle" /\ p \notin {"run", "slow"} /\ p \in Places
      BY <1>4
    <2>2. p \in Bare => job[v].pc \in Bare BY <1>2 DEF Bare
    <2>3. p \in Sleepy => job[v].pc \in Sleepy BY <1>2 DEF Sleepy
    <2>4. job' = [job EXCEPT ![v].pc = p] BY <1>5
    <2> HIDE DEF p
    <2> QED BY <1>1, <1>2, <1>3, <1>5, <2>1, <2>2, <2>3, <2>4, GoesOn DEF Ready
  <1>6. CASE lru' = v /\ job' = [job EXCEPT ![v].pc = IF slow THEN "slow" ELSE "run"]
    <2> DEFINE p == IF slow THEN "slow" ELSE "run"
    <2>1. p \in Works /\ p # "idle" /\ p \in {"run", "slow"} /\ p \in Places
      BY <1>4
    <2>2. p \in Bare => job[v].pc \in Bare BY <1>2 DEF Bare
    <2>3. p \in Sleepy => job[v].pc \in Sleepy BY <1>2 DEF Sleepy
    <2>4. job' = [job EXCEPT ![v].pc = p] BY <1>6
    <2> HIDE DEF p
    <2> QED BY <1>2, <1>3, <1>6, <2>1, <2>2, <2>3, <2>4, GoesOn
  <1> QED BY <1>2, <1>5, <1>6

\* The slow path sleeps.
LEMMA SlowSleepKeeps ==
    ASSUME ReserveAssumption, ResInv, NEW v \in Validators, SlowSleep(v)
    PROVE  ResInv'
  <1>1. Ready(v) BY InvReady
  <1>2. /\ lru = v /\ job[v].pc = "slow" /\ lru' = Nobody
        /\ job' = [job EXCEPT ![v].pc = "slowasleep"]
        /\ UNCHANGED <<who, holder, seq, onLru, lref, writers, valSeq, starts, entry>>
    BY DEF SlowSleep
  <1>3. Books' /\ BookTypes' BY <1>1, <1>2, BooksStay DEF Ready
  <1>4. "slowasleep" \in Works /\ "slowasleep" \in Places BY DEF Works, Places
  <1> QED BY <1>1, <1>2, <1>3, <1>4, GoesOn DEF Ready, Bare, Sleepy

\* All buffers are reserved.
LEMMA FinishKeeps ==
    ASSUME ReserveAssumption, ResInv, NEW v \in Validators, Finish(v)
    PROVE  ResInv'
  <1>1. Ready(v) BY InvReady
  <1>2. /\ lru = v /\ job[v].pc = "run" /\ lru' = Nobody /\ Remove(v)
        /\ job' = [job EXCEPT ![v].pc = "reserved"]
        /\ UNCHANGED <<who, holder, seq, lref, writers, valSeq, starts>>
    BY DEF Finish
  <1>3. Books' /\ BookTypes' BY <1>1, <1>2, RemoveBooks DEF Ready
  <1>4. "reserved" \in Works /\ "reserved" \in Places BY DEF Works, Places
  <1> QED BY <1>1, <1>2, <1>3, <1>4, GoesOn DEF Ready, Bare, Sleepy

\* ttm_eu_list_ref_sub after all is reserved.
LEMMA PutListsKeeps ==
    ASSUME ReserveAssumption, ResInv, NEW v \in Validators, PutLists(v)
    PROVE  ResInv'
  <1>1. Ready(v) BY InvReady
  <1>2. /\ job[v].pc = "reserved" /\ job' = [job EXCEPT ![v].pc = "holds"]
        /\ lref' = [b \in Buffers |-> lref[b] - entry[v][b].put]
        /\ entry' = [entry EXCEPT ![v] = [b \in Buffers |-> [entry[v][b] EXCEPT !.put = 0]]]
        /\ UNCHANGED <<who, lru, holder, seq, onLru, writers, valSeq, starts>>
    BY DEF PutLists
  <1>3. Books' /\ BookTypes' BY <1>1, <1>2, PutBooks DEF Ready
  <1>4. "holds" \in Works /\ "holds" \in Places BY DEF Works, Places
  <1>5. lru # v BY <1>1, <1>2 DEF Ready, WorkPlace
  <1> QED BY <1>2, <1>3, <1>4, <1>5, GoesOn DEF Bare, Sleepy

\* An interrupted validator, and one that fences, give back what they hold.
LEMMA LeaveKeeps ==
    ASSUME ReserveAssumption, ResInv, NEW v \in Validators, Interrupted(v) \/ Fence(v)
    PROVE  ResInv'
  <1>1. Ready(v) BY InvReady
  <1> DEFINE up == Woken(job, HeldBy(v))
  <1>2. /\ lru = Nobody /\ Backoff(v) /\ job' = [up EXCEPT ![v] = NoJob]
        /\ UNCHANGED <<who, lru, seq, writers, valSeq, starts>>
    BY DEF Interrupted, Fence
  <1>3. up \in [Reservers -> Jobs] /\ WokenOnly(job, up) BY <1>1, WokenKeeps DEF Ready
  <1> HIDE DEF up
  <1>4. seq' \in [Buffers -> (0 .. SeqMod - 1) \cup {Nobody}] BY <1>1, <1>2 DEF Ready
  <1> QED BY <1>2, <1>3, <1>4, GivesUp

-----------------------------------------------------------------------------
(* The steps of who reserves one buffer                                    *)

\* A step of a thread without a number keeps the invariant when its own part
\* and the count of writers hold after it.
LEMMA PlainStep ==
    ASSUME ReserveAssumption, ResInv, NEW p \in Plain, StepOf(p),
           UNCHANGED <<valSeq, starts>>, writers' \in [Buffers -> Int],
           PlainPlace(p)', job'[p].pc # "idle" => p \in who,
           \A b \in Buffers : writers'[b] = Cardinality(Writing(b)')
    PROVE  ResInv'
  <1>1. p \in Reservers /\ p \notin Validators
    BY Numbers DEF Reservers
  <1>2. Types' /\ Books' /\ Rank(valSeq') = starts'
    BY <1>1, TypesKept
  <1>3. /\ \A w \in Validators \ {p} : WorkPlace(w)' /\ InUse(w)' /\ Marked(w)'
        /\ \A q \in Plain \ {p} : PlainPlace(q)'
        /\ \A u \in Reservers \ {p} : job'[u].pc # "idle" => u \in who'
        /\ Pair' => \A u, w \in Validators \ {p} : Elder(u, w)'
    BY <1>1, OthersKeep
  <1>4. WritersCounted' BY DEF WritersCounted
  <1>5. Pair' => \A u, w \in Validators : Elder(u, w)' BY <1>1, <1>3
  <1>6. \A w \in Validators : WorkPlace(w)' /\ InUse(w)' /\ Marked(w)' BY <1>1, <1>3
  <1>7. \A q \in Plain : PlainPlace(q)' BY <1>3
  <1>8. \A u \in Reservers : job'[u].pc # "idle" => u \in who' BY <1>3 DEF StepOf
  <1> QED BY <1>2, <1>4, <1>5, <1>6, <1>7, <1>8 DEF ResInv

PlainReady(p) ==
    /\ p \in Reservers /\ p \notin Validators /\ p # Nobody /\ Nobody \notin Reservers
    /\ BookTypes /\ Books /\ PlainPlace(p) /\ WritersCounted
    /\ job[p] \in Jobs /\ job \in [Reservers -> Jobs]
    /\ lru \in Validators \cup {Nobody} /\ writers \in [Buffers -> Int]
    /\ seq \in [Buffers -> (0 .. SeqMod - 1) \cup {Nobody}]
    /\ \A b \in Buffers : IsFiniteSet(Writing(b))
    /\ job[p].pc # "idle" => p \in who

\* The invariant gives what these steps need.
LEMMA InvPlainReady ==
    ASSUME ReserveAssumption, ResInv, NEW p \in Plain
    PROVE  PlainReady(p)
  <1>1. p \in Reservers /\ p \notin Validators /\ p # Nobody /\ Nobody \notin Reservers
    BY Numbers DEF Reservers
  <1>2. \A b \in Buffers : IsFiniteSet(Writing(b))
    <2> SUFFICES ASSUME NEW b \in Buffers PROVE IsFiniteSet(Writing(b)) OBVIOUS
    <2>1. Writing(b) \subseteq Plain BY DEF Writing
    <2> QED BY <2>1, FS_Subset, Numbers
  <1> QED BY <1>1, <1>2 DEF PlainReady, ResInv, Types, BookTypes

\* At most the reservation of b changes, from and to p or nobody.
Touches(p, b) ==
    /\ \A d \in Buffers \ {b} : holder'[d] = holder[d] /\ seq'[d] = seq[d]
    /\ holder[b] \in {Nobody, p} /\ holder'[b] \in {Nobody, p}
    /\ UNCHANGED <<who, lru, valSeq, starts>>

\* Such a step leaves lru_lock and the other buffers alone.
LEMMA PlainAlone ==
    ASSUME ReserveAssumption, ResInv, NEW p \in Plain, NEW b \in Buffers, Books', BookTypes',
           Touches(p, b), seq' \in [Buffers -> (0 .. SeqMod - 1) \cup {Nobody}],
           NEW up \in [Reservers -> Jobs], WokenOnly(job, up),
           NEW j \in Jobs, job' = [up EXCEPT ![p] = j]
    PROVE  StepOf(p) /\ job'[p] = j /\ \A u \in Reservers \ {p} : job'[u] = up[u]
  <1>1. PlainReady(p) BY InvPlainReady
  <1>2. job' \in [Reservers -> Jobs] /\ job'[p] = j /\ \A u \in Reservers \ {p} : job'[u] = up[u]
    BY <1>1 DEF PlainReady
  <1>3. \A u \in Reservers \ {p} :
          job'[u].my = job[u].my /\ job'[u].at = job[u].at /\ Wakes(job[u].pc, job'[u].pc)
    BY <1>2 DEF WokenOnly
  <1>4. \A u \in Reservers \ {p}, d \in Buffers : holder'[d] = u <=> holder[d] = u
    BY <1>1 DEF PlainReady, Touches
  <1>5. \A d \in Buffers : seq'[d] = seq[d] \/ holder'[d] \notin Reservers \ {p}
    BY <1>1 DEF PlainReady, Touches
  <1>6. lru' \in Validators \cup {Nobody} BY <1>1 DEF PlainReady, Touches
  <1> QED BY <1>2, <1>3, <1>4, <1>5, <1>6 DEF StepOf, Touches

\* Who writes, when only p and those woken change their place.
LEMMA WritingOthers ==
    ASSUME ReserveAssumption, ResInv, NEW p \in Plain, StepOf(p), NEW b \in Buffers
    PROVE  Writing(b)' \ {p} = Writing(b) \ {p}
  <1>1. p \in Reservers BY DEF Reservers
  <1>2. \A q \in Plain \ {p} : job'[q].pc = job[q].pc /\ job'[q].at = job[q].at
    BY <1>1, OthersKeep
  <1> QED BY <1>2 DEF Writing

\* ttm_bo_reserve without a number.
LEMMA PlainReserveKeeps ==
    ASSUME ReserveAssumption, ResInv, NEW p \in Plain, NEW b \in Buffers, PlainReserve(p, b)
    PROVE  ResInv'
  <1>1. PlainReady(p) BY InvPlainReady
  <1> DEFINE j == [NoJob EXCEPT !.pc = "holds", !.at = b]
  <1>2. /\ p \in who /\ job[p].pc = "idle" /\ lru = Nobody /\ holder[b] = Nobody
        /\ holder' = [holder EXCEPT ![b] = p] /\ seq' = [seq EXCEPT ![b] = Nobody]
        /\ onLru' = onLru \ {b}
        /\ lref' = [lref EXCEPT ![b] = @ - (IF b \in onLru THEN 2 ELSE 0)]
        /\ job' = [job EXCEPT ![p] = j]
        /\ UNCHANGED <<who, lru, writers, valSeq, starts, entry>>
    BY DEF PlainReserve
  <1>3. j \in Jobs /\ j.pc = "holds" /\ j.at = b
    BY IdleJob DEF Jobs, Places, Works
  <1> HIDE DEF j
  <1>4. Books' /\ BookTypes' BY <1>1, <1>2, PlainTakeBooks DEF PlainReady
  <1>5. \A d \in Buffers : /\ holder'[d] = IF d = b THEN p ELSE holder[d]
                           /\ d # b => seq'[d] = seq[d]
    BY <1>1, <1>2 DEF PlainReady, BookTypes
  <1>6. WokenOnly(job, job) BY DEF WokenOnly, Wakes
  <1>7. seq' \in [Buffers -> (0 .. SeqMod - 1) \cup {Nobody}] BY <1>1, <1>2 DEF PlainReady
  <1>8. StepOf(p) /\ job'[p] = j
    <2>1. Touches(p, b) BY <1>2, <1>5 DEF Touches
    <2>2. job \in [Reservers -> Jobs] BY <1>1 DEF PlainReady
    <2>3. job' = [job EXCEPT ![p] = j] BY <1>2
    <2> QED BY <1>3, <1>4, <1>6, <1>7, <2>1, <2>2, <2>3, PlainAlone
  <1>9. PlainPlace(p)'
    BY <1>1, <1>2, <1>3, <1>5, <1>8 DEF PlainPlace, PlainReady
  <1>10. \A d \in Buffers : writers'[d] = Cardinality(Writing(d)')
    <2> SUFFICES ASSUME NEW d \in Buffers PROVE writers'[d] = Cardinality(Writing(d)') OBVIOUS
    <2>1. p \notin Writing(d) /\ p \notin Writing(d)'
      BY <1>2, <1>3, <1>8 DEF Writing
    <2>2. Writing(d)' = Writing(d) BY <2>1, <1>8, WritingOthers
    <2> QED BY <2>2, <1>1, <1>2 DEF PlainReady, WritersCounted
  <1>11. writers' \in [Buffers -> Int] BY <1>1, <1>2 DEF PlainReady
  <1> QED BY <1>2, <1>8, <1>9, <1>10, <1>11, PlainStep

\* ttm_bo_unreserve, and ttm_bo_synccpu_write_grab.
LEMMA PlainUnreserveKeeps ==
    ASSUME ReserveAssumption, ResInv, NEW p \in Plain, NEW grab \in BOOLEAN, PlainUnreserve(p, grab)
    PROVE  ResInv'
  <1>1. PlainReady(p) BY InvPlainReady
  <1> DEFINE b == job[p].at
  <1> DEFINE j == IF grab THEN [NoJob EXCEPT !.pc = "writes", !.at = b] ELSE NoJob
  <1> DEFINE up == Woken(job, {b})
  <1>2. /\ job[p].pc = "holds" /\ lru = Nobody
        /\ writers' = [writers EXCEPT ![b] = IF grab THEN @ + 1 ELSE @]
        /\ holder' = [holder EXCEPT ![b] = Nobody] /\ onLru' = onLru \cup {b}
        /\ lref' = [lref EXCEPT ![b] = @ + 2]
        /\ job' = [up EXCEPT ![p] = j]
        /\ UNCHANGED <<who, lru, seq, valSeq, starts, entry>>
    BY DEF PlainUnreserve
  <1>3. b \in Buffers /\ \A d \in Buffers : holder[d] = p <=> d = b
    BY <1>1, <1>2 DEF PlainReady, PlainPlace
  <1>4. j \in Jobs /\ j.pc = (IF grab THEN "writes" ELSE "idle") /\ (grab => j.at = b)
    BY <1>3, IdleJob DEF Jobs, Places, Works
  <1>5. up \in [Reservers -> Jobs] /\ WokenOnly(job, up) BY <1>1, WokenKeeps DEF PlainReady
  <1> HIDE DEF b, j, up
  <1>6. Books' /\ BookTypes' BY <1>1, <1>2, <1>3, PlainGiveBooks DEF PlainReady
  <1>7. \A d \in Buffers : holder'[d] = IF d = b THEN Nobody ELSE holder[d]
    BY <1>1, <1>2 DEF PlainReady, BookTypes
  <1>8. StepOf(p) /\ job'[p] = j
    <2>1. Touches(p, b) BY <1>2, <1>3, <1>7 DEF Touches
    <2>2. seq' \in [Buffers -> (0 .. SeqMod - 1) \cup {Nobody}] BY <1>1, <1>2 DEF PlainReady
    <2>3. job' = [up EXCEPT ![p] = j] BY <1>2
    <2>4. b \in Buffers /\ j \in Jobs BY <1>3, <1>4
    <2> QED BY <1>5, <1>6, <2>1, <2>2, <2>3, <2>4, PlainAlone
  <1>9. PlainPlace(p)'
    <2>1. \A d \in Buffers : holder'[d] # p BY <1>1, <1>3, <1>7 DEF PlainReady
    <2>2. job'[p].pc \in {"idle", "writes"} BY <1>4, <1>8
    <2>3. job'[p].pc # "idle" => job'[p].at = b BY <1>4, <1>8
    <2> QED BY <2>1, <2>2, <2>3, <1>3 DEF PlainPlace
  <1>10. writers' \in [Buffers -> Int] BY <1>1, <1>2, <1>3 DEF PlainReady
  <1>11. \A d \in Buffers : writers'[d] = Cardinality(Writing(d)')
    <2> SUFFICES ASSUME NEW d \in Buffers PROVE writers'[d] = Cardinality(Writing(d)') OBVIOUS
    <2>1. p \notin Writing(d) BY <1>2 DEF Writing
    <2>2. p \in Writing(d)' <=> grab /\ d = b BY <1>4, <1>8 DEF Writing
    <2>3. Writing(d)' \ {p} = Writing(d) \ {p} BY <1>8, WritingOthers
    <2>4. IsFiniteSet(Writing(d)) /\ writers[d] = Cardinality(Writing(d))
      BY <1>1 DEF PlainReady, WritersCounted
    <2>5. CASE grab /\ d = b
      <3>1. Writing(d)' = Writing(d) \cup {p} BY <2>1, <2>2, <2>3, <2>5
      <3>2. Cardinality(Writing(d) \cup {p}) = Cardinality(Writing(d)) + 1
        BY <2>1, <2>4, FS_AddElement
      <3>3. writers'[d] = writers[d] + 1 BY <1>1, <1>2, <2>5 DEF PlainReady
      <3> QED BY <3>1, <3>2, <3>3, <2>4
    <2>6. CASE ~(grab /\ d = b)
      <3>1. Writing(d)' = Writing(d) BY <2>1, <2>2, <2>3, <2>6
      <3>2. writers'[d] = writers[d] BY <1>1, <1>2, <2>6 DEF PlainReady
      <3> QED BY <3>1, <3>2, <2>4
    <2> QED BY <2>5, <2>6
  <1>12. p \in who BY <1>1, <1>2 DEF PlainReady
  <1> QED BY <1>2, <1>8, <1>9, <1>10, <1>11, <1>12, PlainStep

\* ttm_bo_synccpu_write_release.
LEMMA WriteReleaseKeeps ==
    ASSUME ReserveAssumption, ResInv, NEW p \in Plain, WriteRelease(p)
    PROVE  ResInv'
  <1>1. PlainReady(p) BY InvPlainReady
  <1> DEFINE b == job[p].at
  <1>2. /\ job[p].pc = "writes" /\ job' = [job EXCEPT ![p] = NoJob]
        /\ writers' = [writers EXCEPT ![b] = @ - 1]
        /\ UNCHANGED <<who, lru, holder, seq, onLru, lref, valSeq, starts, entry>>
    BY DEF WriteRelease
  <1>3. b \in Buffers /\ \A d \in Buffers : holder[d] # p
    BY <1>1, <1>2 DEF PlainReady, PlainPlace
  <1>4. NoJob \in Jobs /\ NoJob.pc = "idle" BY IdleJob
  <1>5. Books' /\ BookTypes' BY <1>1, <1>2, BooksStay DEF PlainReady
  <1>6. job' \in [Reservers -> Jobs] /\ job'[p] = NoJob /\ \A u \in Reservers \ {p} : job'[u] = job[u]
    BY <1>1, <1>2, <1>4 DEF PlainReady
  <1>7. \A u \in Reservers \ {p} :
          job'[u].my = job[u].my /\ job'[u].at = job[u].at /\ Wakes(job[u].pc, job'[u].pc)
    BY <1>6 DEF Wakes
  <1>8. StepOf(p)
    BY <1>1, <1>2, <1>5, <1>6, <1>7 DEF StepOf, PlainReady
  <1>9. PlainPlace(p)'
    <2>1. \A d \in Buffers : holder'[d] # p BY <1>2, <1>3
    <2>2. job'[p].pc = "idle" BY <1>4, <1>6
    <2> QED BY <2>1, <2>2 DEF PlainPlace
  <1>10. writers' \in [Buffers -> Int] BY <1>1, <1>2, <1>3 DEF PlainReady
  <1>11. \A d \in Buffers : writers'[d] = Cardinality(Writing(d)')
    <2> SUFFICES ASSUME NEW d \in Buffers PROVE writers'[d] = Cardinality(Writing(d)') OBVIOUS
    <2>1. p \in Writing(d) <=> d = b BY <1>2 DEF Writing
    <2>2. p \notin Writing(d)' BY <1>4, <1>6 DEF Writing
    <2>3. Writing(d)' \ {p} = Writing(d) \ {p} BY <1>8, WritingOthers
    <2>4. IsFiniteSet(Writing(d)) /\ writers[d] = Cardinality(Writing(d))
      BY <1>1 DEF PlainReady, WritersCounted
    <2>5. CASE d = b
      <3>1. Writing(d)' = Writing(d) \ {p} /\ p \in Writing(d) BY <2>1, <2>2, <2>3, <2>5
      <3>2. Cardinality(Writing(d) \ {p}) = Cardinality(Writing(d)) - 1
        BY <3>1, <2>4, FS_RemoveElement
      <3>3. writers'[d] = writers[d] - 1 BY <1>1, <1>2, <2>5 DEF PlainReady
      <3> QED BY <3>1, <3>2, <3>3, <2>4
    <2>6. CASE d # b
      <3>1. Writing(d)' = Writing(d) BY <2>1, <2>2, <2>3, <2>6
      <3>2. writers'[d] = writers[d] BY <1>1, <1>2, <2>6 DEF PlainReady
      <3> QED BY <3>1, <3>2, <2>4
    <2> QED BY <2>5, <2>6
  <1> QED BY <1>2, <1>4, <1>6, <1>8, <1>9, <1>10, <1>11, PlainStep

-----------------------------------------------------------------------------
(* The theorems                                                            *)

\* Initially nothing is reserved.
LEMMA ResInvStarts ==
    ASSUME ReserveAssumption, ResInit
    PROVE  ResInv
  <1>1. /\ who = Reservers \/ \E v, w \in Validators : who = {v, w}
        /\ lru = Nobody /\ holder = [b \in Buffers |-> Nobody] /\ seq = [b \in Buffers |-> Nobody]
        /\ onLru = Buffers /\ lref = [b \in Buffers |-> 3] /\ writers = [b \in Buffers |-> 0]
        /\ valSeq = SeqMod - 1 /\ starts = 0
        /\ entry = [v \in Validators |-> NoEntry]
        /\ job = [t \in Reservers |-> NoJob]
    BY DEF ResInit
  <1>2. NoJob \in Jobs /\ NoJob.pc = "idle" BY IdleJob
  <1>3. NoEntry \in [Buffers -> Entries] BY DEF NoEntry, Entries
  <1>4. Types
    <2>1. who \subseteq Reservers BY <1>1 DEF Reservers
    <2>2. valSeq \in 0 .. SeqMod - 1 /\ starts \in 0 .. MaxStarts
      BY <1>1, Numbers DEF ReserveAssumption
    <2>3. /\ lru \in Validators \cup {Nobody} /\ holder \in [Buffers -> Reservers \cup {Nobody}]
          /\ seq \in [Buffers -> (0 .. SeqMod - 1) \cup {Nobody}] /\ onLru \subseteq Buffers
      BY <1>1
    <2>4. lref \in [Buffers -> Int] /\ writers \in [Buffers -> Int] BY <1>1
    <2>5. entry \in [Validators -> [Buffers -> Entries]] BY <1>1, <1>3
    <2>6. job \in [Reservers -> Jobs] BY <1>1, <1>2
    <2> QED BY <2>1, <2>2, <2>3, <2>4, <2>5, <2>6 DEF Types
  <1>5. \A v \in Validators, b \in Buffers :
          ~entry[v][b].reserved /\ ~entry[v][b].removed /\ entry[v][b].put = 0
    BY <1>1 DEF NoEntry
  <1>6. \A b \in Buffers : holder[b] = Nobody /\ b \in onLru /\ lref[b] = 3
    BY <1>1
  <1>7. \A v \in Validators : v # Nobody /\ v \in Reservers
    BY Numbers DEF Reservers
  <1>8. \A p \in Plain : p # Nobody /\ p \in Reservers
    BY Numbers DEF Reservers
  <1>9. Books
    BY <1>5, <1>6, <1>7, <1>8 DEF Books, OneOwner, PutFits, ListsExact, RefsExact
  <1>10. \A t \in Reservers : job[t].pc = "idle" BY <1>1, <1>2
  <1>11. \A v \in Validators : WorkPlace(v) /\ InUse(v) /\ Marked(v)
    BY <1>1, <1>6, <1>7, <1>10 DEF WorkPlace, InUse, Marked, Works, Sleepy
  <1>12. \A p \in Plain : PlainPlace(p)
    BY <1>6, <1>8, <1>10 DEF PlainPlace
  <1>13. WritersCounted
    <2> SUFFICES ASSUME NEW b \in Buffers PROVE writers[b] = Cardinality(Writing(b))
      BY DEF WritersCounted
    <2>1. Writing(b) = {} BY <1>8, <1>10 DEF Writing
    <2> QED BY <2>1, <1>1, FS_EmptySet
  <1>14. Rank(valSeq) = starts BY <1>1 DEF Rank
  <1>15. \A v, w \in Validators : Elder(v, w) BY <1>7, <1>10 DEF Elder
  <1> QED BY <1>4, <1>9, <1>10, <1>11, <1>12, <1>13, <1>14, <1>15 DEF ResInv

\* The invariant is about these variables only.
LEMMA ResInvStutters ==
    ASSUME ResInv, UNCHANGED resVars
    PROVE  ResInv'
  BY DEF resVars, ResInv, Types, Books, OneOwner, PutFits, ListsExact, RefsExact,
         WorkPlace, InUse, Marked, PlainPlace, WritersCounted, Writing, Pair, Elder

\* Every step keeps the invariant.
LEMMA ResInvKept ==
    ASSUME ReserveAssumption, ResInv, ResNext
    PROVE  ResInv'
  <1>1. CASE \E v \in Validators : \E l \in Lists : Start(v, l)
    BY <1>1, StartKeeps
  <1>2. ASSUME NEW v \in Validators, NEW b \in Buffers,
               TryFree(v, b) \/ TryOlder(v, b) \/ TryYounger(v, b)
        PROVE  ResInv'
    <2>1. CASE TryFree(v, b) BY <2>1, ReserveKeeps DEF TryFree, Turn
    <2>2. CASE TryOlder(v, b) BY <2>2, TryOlderKeeps
    <2>3. CASE TryYounger(v, b) BY <2>3, TryYoungerKeeps
    <2> QED BY <1>2, <2>1, <2>2, <2>3
  <1>3. ASSUME NEW v \in Validators, SlowFree(v) PROVE ResInv'
    <2>1. lru = v /\ job[v].pc = "slow" /\ Reserve(v, job[v].at) BY <1>3 DEF SlowFree
    <2>2. job[v].at \in Buffers BY <2>1 DEF ResInv, WorkPlace
    <2> QED BY <2>1, <2>2, ReserveKeeps
  <1>4. ASSUME NEW v \in Validators,
               Wake(v) \/ SlowSleep(v) \/ Interrupted(v) \/ Finish(v) \/ PutLists(v) \/ Fence(v)
        PROVE  ResInv'
    BY <1>4, WakeKeeps, SlowSleepKeeps, LeaveKeeps, FinishKeeps, PutListsKeeps
  <1>5. ASSUME NEW p \in Plain, (\E b \in Buffers : PlainReserve(p, b))
               \/ (\E g \in BOOLEAN : PlainUnreserve(p, g)) \/ WriteRelease(p)
        PROVE  ResInv'
    BY <1>5, PlainReserveKeeps, PlainUnreserveKeeps, WriteReleaseKeeps
  <1> QED BY <1>1, <1>2, <1>3, <1>4, <1>5 DEF ResNext

\* The inductive invariant: who owns lru_lock and each buffer, what each list
\* still owes, and that between two validators the sleeper has the lower number.
THEOREM ReserveInvariant == ASSUME ReserveAssumption PROVE ResSpec => []ResInv
  <1>1. ResInit => ResInv BY ResInvStarts
  <1>2. ResInv /\ [ResNext]_resVars => ResInv' BY ResInvKept, ResInvStutters
  <1> QED BY <1>1, <1>2, PTL DEF ResSpec

\* Between two validators that nobody else disturbs, each of two sleepers would
\* be older than the other (ttm_eu_reserve_buffers).
LEMMA PairSafe ==
    ASSUME ReserveAssumption, ResInv
    PROVE  NoDeadlockPair
  <1> SUFFICES ASSUME Pair, NEW v \in Validators, NEW w \in Validators, WaitsFor(v, w), WaitsFor(w, v)
               PROVE  FALSE
    BY DEF NoDeadlockPair, NoDeadlock, Pair
  <1>1. /\ job[v].pc = "asleep" /\ holder[job[v].at] = w
        /\ job[w].pc = "asleep" /\ holder[job[w].at] = v
    BY DEF WaitsFor
  <1>2. v # w
    BY <1>1 DEF ResInv, WorkPlace, Sleepy
  <1>3. Elder(v, w) /\ Elder(w, v)
    BY DEF ResInv
  <1>4. Rank(job[v].my) < Rank(job[w].my) /\ Rank(job[w].my) < Rank(job[v].my)
    BY <1>1, <1>2, <1>3 DEF Elder, Sleepy
  <1>5. Rank(job[v].my) \in Int /\ Rank(job[w].my) \in Int
    BY InvReady, RankInt DEF Ready, Jobs
  <1> QED BY <1>4, <1>5

\* A reservation has one owner, a buffer is on the lists exactly when nobody has
\* taken it off, list_kref is exact, and two validators that nobody else
\* disturbs never wait for each other (ttm_execbuf_util.c, ttm_bo.c).
THEOREM ReservationsSafe == ASSUME ReserveAssumption PROVE ResSpec => []ReserveSafe
  <1>1. ResInv => ReserveSafe
    BY PairSafe DEF ResInv, Books, ReserveSafe
  <1> QED BY <1>1, ReserveInvariant, PTL

\* Every variable of the reservations keeps its type; no count goes below zero,
\* and there are no more CPU writers than threads that write.
THEOREM ReserveTypes == ASSUME ReserveAssumption PROVE ResSpec => []ResTypeOK
  <1>1. ASSUME ResInv PROVE ResTypeOK
    <2>1. Types BY <1>1 DEF ResInv
    <2>2. ASSUME NEW b \in Buffers PROVE lref[b] \in Nat
      <3>1. lref[b] = 1 + (IF b \in onLru THEN 2 ELSE 0)
                + (IF \E v \in Validators : entry[v][b].put > 0 THEN 2 ELSE 0)
        BY <1>1 DEF ResInv, Books, RefsExact
      <3> QED BY <3>1
    <2>3. ASSUME NEW b \in Buffers PROVE writers[b] \in 0 .. Cardinality(Plain)
      <3>1. Writing(b) \subseteq Plain BY DEF Writing
      <3>2. Cardinality(Writing(b)) \in Nat /\ Cardinality(Writing(b)) <= Cardinality(Plain)
            /\ Cardinality(Plain) \in Nat
        BY <3>1, Numbers, FS_Subset, FS_CardinalityType
      <3> QED BY <3>2, <1>1 DEF ResInv, WritersCounted
    <2>4. lref \in [Buffers -> Nat] BY <2>1, <2>2 DEF Types
    <2>5. writers \in [Buffers -> 0 .. Cardinality(Plain)] BY <2>1, <2>3 DEF Types
    <2> QED BY <2>1, <2>4, <2>5 DEF Types, ResTypeOK
  <1> QED BY <1>1, ReserveInvariant, PTL
=============================================================================
