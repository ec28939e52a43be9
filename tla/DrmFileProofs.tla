--------------------------- MODULE DrmFileProofs ---------------------------
(***************************************************************************)
(* Theorems about DrmFile, for any number of files, masters and magic      *)
(* numbers: files, masters and magics agree, and only two steps take the   *)
(* hardware lock from its owner or leave it to nobody.                     *)
(***************************************************************************)
EXTENDS DrmFile, FiniteSetTheorems, TLAPS

Users(m) == {f \in Files : IsOpen(f) /\ Master(f) = m}
One(b)   == IF b THEN 1 ELSE 0

\* MasterCounted and OneMaster, as the steps keep them.
Counted == \A m \in Masters : ref[m] = Cardinality(Users(m)) + One(minor = m)
Mastered ==
    /\ \A f \in Files : file[f].is_master => IsOpen(f) /\ minor = Master(f)
    /\ \A f, g \in Files : file[f].is_master /\ file[g].is_master => f = g
    /\ minor # NoMaster => \E f \in Files : file[f].is_master

\* What a file is when it is not open, and when its thread waits for the lock.
Settled(f) ==
    /\ ~IsOpen(f) => file[f] = NewFile /\ ~has[f]
    /\ IsOpen(f) => Master(f) \in Masters
    /\ st[f] \in {"asleep", "woken"} => file[f].lock_count

\* Memory that is no master has no lock and no magic numbers.
Unused == \A m \in Masters : ref[m] = 0 => lock[m] = NoLock /\ \A k \in Magics : magics[m][k] = NoFile

\* Nobody has a lock that is not there, nor sleeps for one that is not there or
\* no more.  The context that the word of a lock names is that of an open client
\* of the master who took it through the kernel.
LockFine(m) ==
    /\ lock[m].hw = "none" => lock[m] = NoLock /\ \A f \in Files : Master(f) = m => ~has[f]
    /\ lock[m].hw # "mapped" => Asleep(m) = {}
    /\ lock[m].hw = "mapped" /\ lock[m].ctx # NoFile =>
         /\ IsOpen(lock[m].ctx) /\ Master(lock[m].ctx) = m
         /\ lock[m].file_priv = lock[m].ctx /\ file[lock[m].ctx].lock_count

\* MagicOwned: a magic number leads to the open client that it was given to.
Leads(g, m, k) == IsOpen(g) /\ Master(g) = m /\ file[g].magic = k
MagicsLead == \A m \in Masters, k \in Magics, g \in Files : magics[m][k] = g => Leads(g, m, k)

FileInv ==
    /\ TypeOK /\ Counted /\ Mastered /\ MagicsLead /\ Unused
    /\ \A f \in Files : Settled(f)
    /\ \A m \in Masters : LockFine(m)

---------------------------------------------------------------------------
(* Records                                                                 *)

FileRec == [master : Masters \cup {NoMaster}, is_master : BOOLEAN, authenticated : BOOLEAN,
            magic : Magics \cup {NoMagic}, lock_count : BOOLEAN]
LockRec == [hw : {"none", "mapped", "gone"}, held : BOOLEAN, cont : BOOLEAN,
            ctx : Files \cup {NoFile}, file_priv : Files \cup {NoFile}]

\* The records of files and of locks are of their types.
LEMMA Recs == TypeOK => file \in [Files -> FileRec] /\ lock \in [Masters -> LockRec]
  BY DEF TypeOK, FileRec, LockRec

\* A new file and a new lock are of their types; nobody owns them.
LEMMA NewRecs == /\ NewFile \in FileRec /\ NewFile.master = NoMaster /\ ~NewFile.is_master
                 /\ NewFile.magic = NoMagic /\ ~NewFile.lock_count
                 /\ NoLock \in LockRec /\ NoLock.hw = "none" /\ NoLock.ctx = NoFile
  BY FileAssumption DEF NewFile, NoLock, FileRec, LockRec, FileAssumption

\* What a change of one field of a file leaves alone: is_master,
LEMMA SetIsMaster ==
    ASSUME NEW q \in FileRec, NEW b \in BOOLEAN
    PROVE  LET r == [q EXCEPT !.is_master = b]
           IN  r \in FileRec /\ r.is_master = b /\ r.master = q.master /\ r.magic = q.magic /\ r.lock_count = q.lock_count
  BY DEF FileRec
\* authenticated,
LEMMA SetAuthenticated ==
    ASSUME NEW q \in FileRec, NEW b \in BOOLEAN
    PROVE  LET r == [q EXCEPT !.authenticated = b]
           IN  r \in FileRec /\ r.is_master = q.is_master /\ r.master = q.master /\ r.magic = q.magic
               /\ r.lock_count = q.lock_count
  BY DEF FileRec
\* magic, from the magiclist,
LEMMA SetMagic ==
    ASSUME NEW q \in FileRec, NEW k \in Magics
    PROVE  LET r == [q EXCEPT !.magic = k]
           IN  r \in FileRec /\ r.is_master = q.is_master /\ r.master = q.master /\ r.magic = k
               /\ r.lock_count = q.lock_count
  BY DEF FileRec
\* and lock_count.
LEMMA SetLockCount ==
    ASSUME NEW q \in FileRec
    PROVE  LET r == [q EXCEPT !.lock_count = TRUE]
           IN  r \in FileRec /\ r.is_master = q.is_master /\ r.master = q.master /\ r.magic = q.magic
               /\ r.lock_count
  BY DEF FileRec

---------------------------------------------------------------------------
(* What a step leaves alone                                                *)

\* A master has finitely many files: its reference count counts them.
LEMMA UsersFinite == ASSUME NEW m PROVE IsFiniteSet(Users(m)) /\ Cardinality(Users(m)) \in Nat
  BY FileAssumption, FS_Subset, FS_CardinalityType DEF FileAssumption, Users

\* No file is opened, closed or made a master.
Steady == /\ \A f \in Files : /\ IsOpen(f)' <=> IsOpen(f)
                              /\ Master(f)' = Master(f) /\ file'[f].is_master = file[f].is_master
          /\ ref' = ref /\ minor' = minor

\* Such steps keep the reference counts and the one master.
LEMMA SteadyMasters == ASSUME FileInv, Steady PROVE Counted' /\ Mastered'
  <1>1. \A m : Users(m)' = Users(m)
    BY DEF Users, Steady
  <1>2. Counted'
    BY <1>1 DEF FileInv, Counted, Steady
  <1>3. Mastered'
    BY DEF FileInv, Mastered, Steady
  <1> QED BY <1>2, <1>3

\* Nothing about m's clients or its lock changes.
Apart(m) ==
    /\ lock'[m] = lock[m]
    /\ \A f \in Files : (Master(f) = m <=> Master(f)' = m)
    /\ \A f \in Files : Master(f) = m =>
          st'[f] = st[f] /\ has'[f] = has[f] /\ file'[f].lock_count = file[f].lock_count

\* Such steps keep the lock of m.
LEMMA ApartFine == ASSUME FileInv, NEW m \in Masters, Apart(m) PROVE LockFine(m)'
  <1>1. LockFine(m) /\ lock[m] \in LockRec
    BY Recs DEF FileInv
  <1>2. lock[m].ctx # NoFile => lock[m].ctx \in Files
    BY <1>1 DEF LockRec
  <1>3. Asleep(m)' = Asleep(m)
    BY DEF Asleep, Apart
  <1> QED BY <1>1, <1>2, <1>3 DEF LockFine, Apart, IsOpen

---------------------------------------------------------------------------
(* Opens and closes in progress: only the place of f changes               *)

\* A file that is not open and stays so can move between the places of drm_open and drm_release.
LEMMA QuietInv ==
    ASSUME FileInv, NEW f \in Files, ~IsOpen(f), ~IsOpen(f)', TypeOK', NEW s, st' = [st EXCEPT ![f] = s],
           UNCHANGED <<minor, file, masterVars, lockVars>>
    PROVE  FileInv'
  <1>1. st'[f] = s /\ \A g \in Files \ {f} : st'[g] = st[g]
    BY DEF FileInv, TypeOK
  <1>2. file' = file /\ minor' = minor /\ ref' = ref /\ magics' = magics /\ lock' = lock /\ has' = has
    BY DEF masterVars, lockVars
  <1>3. \A g \in Files : IsOpen(g)' <=> IsOpen(g)
    BY <1>1 DEF IsOpen
  <1>4. Counted' /\ Mastered'
    BY <1>2, <1>3, SteadyMasters DEF Steady, Master
  <1>5. MagicsLead' /\ Unused'
    BY <1>2, <1>3 DEF FileInv, MagicsLead, Leads, Unused, Master, TypeOK
  <1>6. \A g \in Files : Settled(g)'
    BY <1>1, <1>2, <1>3 DEF FileInv, Settled, Master, IsOpen
  <1>7. ASSUME NEW m \in Masters PROVE LockFine(m)'
    <2>1. Master(f) # m
      BY NewRecs, FileAssumption DEF FileInv, Settled, Master, FileAssumption
    <2>2. Apart(m)
      BY <1>1, <1>2, <2>1 DEF Apart, Master
    <2> QED BY <2>2, ApartFine
  <1> QED BY <1>4, <1>5, <1>6, <1>7 DEF FileInv

\* The counting of opens and closes, and an open that fails.
LEMMA QuietSteps ==
    ASSUME FileInv, NEW f \in Files, OpenRead(f) \/ OpenWrite(f) \/ OpenFails(f) \/ ReleaseCount(f)
    PROVE  FileInv'
  <1>1. CASE OpenRead(f)
    <2>1. TypeOK'
      BY <1>1, FileAssumption DEF FileInv, TypeOK, OpenRead, devVars, masterVars, lockVars, FileAssumption
    <2>2. ~IsOpen(f) /\ ~IsOpen(f)' /\ st' = [st EXCEPT ![f] = "counting"] /\ UNCHANGED <<minor, file, masterVars, lockVars>>
      BY <1>1 DEF OpenRead, IsOpen, devVars, FileInv, TypeOK
    <2> QED BY <2>1, <2>2, QuietInv
  <1>2. CASE OpenWrite(f)
    <2>1. TypeOK'
      BY <1>2 DEF FileInv, TypeOK, OpenWrite, masterVars, lockVars
    <2>2. ~IsOpen(f) /\ ~IsOpen(f)' /\ st' = [st EXCEPT ![f] = "opening"] /\ UNCHANGED <<minor, file, masterVars, lockVars>>
      BY <1>2 DEF OpenWrite, IsOpen, FileInv, TypeOK
    <2> QED BY <2>1, <2>2, QuietInv
  <1>3. CASE OpenFails(f)
    <2>1. TypeOK'
      BY <1>3 DEF FileInv, TypeOK, OpenFails, devVars, masterVars, lockVars
    <2>2. ~IsOpen(f) /\ ~IsOpen(f)' /\ st' = [st EXCEPT ![f] = "closed"] /\ UNCHANGED <<minor, file, masterVars, lockVars>>
      BY <1>3 DEF OpenFails, IsOpen, devVars, FileInv, TypeOK
    <2> QED BY <2>1, <2>2, QuietInv
  <1>4. CASE ReleaseCount(f)
    <2>1. TypeOK'
      BY <1>4 DEF FileInv, TypeOK, ReleaseCount, masterVars, lockVars
    <2>2. ~IsOpen(f) /\ ~IsOpen(f)' /\ st' = [st EXCEPT ![f] = "closed"] /\ UNCHANGED <<minor, file, masterVars, lockVars>>
      BY <1>4 DEF ReleaseCount, IsOpen, FileInv, TypeOK
    <2> QED BY <2>1, <2>2, QuietInv
  <1> QED BY <1>1, <1>2, <1>3, <1>4

---------------------------------------------------------------------------
(* Masters and magic numbers                                               *)

\* The master of an open file is live: it has a reference for the file, one more for the minor.
LEMMA OpenFacts ==
    ASSUME FileInv, NEW f \in Files, IsOpen(f)
    PROVE  /\ Master(f) \in Masters /\ Cardinality(Users(Master(f))) >= 1
           /\ ref[Master(f)] \in Nat /\ ref[Master(f)] >= 1
           /\ minor = Master(f) => ref[Master(f)] >= 2
  <1>1. PICK m \in Masters : Master(f) = m
    BY DEF FileInv, Settled
  <1>2. Cardinality(Users(m)) >= 1
    <2>1. f \in Users(m)
      BY <1>1 DEF Users
    <2> QED BY <2>1, UsersFinite, FS_EmptySet
  <1>3. ref[m] = Cardinality(Users(m)) + One(minor = m)
    BY DEF FileInv, Counted
  <1>4. One(minor = m) \in {0, 1} /\ (minor = m => One(minor = m) = 1)
    BY DEF One
  <1> QED BY <1>1, <1>2, <1>3, <1>4, UsersFinite

\* Steps that change no lock.
LEMMA NoLockStep ==
    ASSUME FileInv, TypeOK', st' = st, lock' = lock, has' = has,
           \A f \in Files : Master(f)' = Master(f) /\ file'[f].lock_count = file[f].lock_count,
           \A f \in Files : ~IsOpen(f) => file'[f] = file[f],
           Counted', Mastered', MagicsLead', Unused'
    PROVE  FileInv'
  <1>1. \A f \in Files : Settled(f)'
    BY DEF FileInv, Settled, IsOpen
  <1>2. \A m \in Masters : LockFine(m)'
    <2> SUFFICES ASSUME NEW m \in Masters PROVE Apart(m)
      BY ApartFine
    <2> QED BY DEF Apart
  <1> QED BY <1>1, <1>2 DEF FileInv

\* A master is set, or dropped: the minor's reference comes or goes.
LEMMA SetMasterInv == ASSUME FileInv, NEW f \in Files, SetMaster(f) PROVE FileInv'
  <1>1. /\ IsOpen(f) /\ minor = NoMaster /\ minor' = Master(f) /\ ref' = [ref EXCEPT ![Master(f)] = @ + 1]
        /\ file' = [file EXCEPT ![f].is_master = TRUE]
        /\ st' = st /\ magics' = magics /\ lock' = lock /\ has' = has
        /\ count' = count /\ ready' = ready /\ seen' = seen /\ sequence' = sequence /\ panic' = panic
    BY DEF SetMaster, Ioctl, IsOpen, lockVars
  <1>2. PICK m \in Masters : Master(f) = m /\ ref[m] \in Nat
    BY <1>1, OpenFacts
  <1>3. file \in [Files -> FileRec] /\ TypeOK
    BY Recs DEF FileInv
  <1>4. /\ file' \in [Files -> FileRec]
        /\ \A g \in Files \ {f} : file'[g] = file[g]
        /\ file'[f].is_master /\ file'[f].master = file[f].master /\ file'[f].magic = file[f].magic
        /\ file'[f].lock_count = file[f].lock_count
    BY <1>1, <1>3, SetIsMaster
  <1>5. \A g \in Files : Master(g)' = Master(g) /\ file'[g].magic = file[g].magic /\ file'[g].lock_count = file[g].lock_count
    BY <1>4 DEF Master
  <1>6. ref'[m] = ref[m] + 1 /\ \A n \in Masters \ {m} : ref'[n] = ref[n]
    BY <1>1, <1>2, <1>3 DEF TypeOK
  <1>7. TypeOK'
    BY <1>1, <1>2, <1>3, <1>4 DEF TypeOK, FileRec
  <1>8. m # NoMaster
    BY FileAssumption DEF FileAssumption
  <1>9. Counted'
    <2>1. \A n \in Masters : Users(n)' = Users(n)
      BY <1>1, <1>5 DEF Users, IsOpen
    <2>2. ASSUME NEW n \in Masters PROVE ref'[n] = Cardinality(Users(n)) + One(minor' = n)
      <3>1. ref[n] = Cardinality(Users(n)) + One(minor = n)
        BY DEF FileInv, Counted
      <3>2. One(minor = n) = 0 /\ One(minor' = n) = IF n = m THEN 1 ELSE 0
        BY <1>1, <1>2, FileAssumption DEF One, FileAssumption
      <3> QED BY <1>6, <3>1, <3>2, UsersFinite
    <2> QED BY <2>1, <2>2 DEF Counted
  <1>10. Mastered'
    <2>1. \A g \in Files : ~file[g].is_master
      BY <1>1, FileAssumption DEF FileInv, Mastered, Settled, FileAssumption
    <2> QED BY <1>1, <1>4, <1>5, <2>1 DEF Mastered, IsOpen, Master
  <1>11. MagicsLead' /\ Unused'
    <2>1. MagicsLead'
      BY <1>1, <1>3, <1>5 DEF FileInv, MagicsLead, Leads, IsOpen
    <2>2. \A n \in Masters : ref'[n] = 0 => ref[n] = 0
      BY <1>2, <1>6
    <2> QED BY <1>1, <2>1, <2>2 DEF FileInv, Unused
  <1> QED BY <1>1, <1>4, <1>5, <1>7, <1>9, <1>10, <1>11, NoLockStep

\* drm_dropmaster_ioctl drops the reference of the minor.
LEMMA DropMasterInv == ASSUME FileInv, NEW f \in Files, DropMaster(f) PROVE FileInv'
  <1>1. /\ IsOpen(f) /\ minor # NoMaster /\ minor' = NoMaster /\ ref' = [ref EXCEPT ![minor] = @ - 1]
        /\ file' = [file EXCEPT ![f].is_master = FALSE] /\ file[f].is_master
        /\ st' = st /\ magics' = magics /\ lock' = lock /\ has' = has
        /\ count' = count /\ ready' = ready /\ seen' = seen /\ sequence' = sequence /\ panic' = panic
    BY DEF DropMaster, Ioctl, IsOpen, lockVars
  <1>2. minor = Master(f)
    BY <1>1 DEF FileInv, Mastered
  <1>3. PICK m \in Masters : Master(f) = m /\ ref[m] \in Nat /\ ref[m] >= 2
    BY <1>1, <1>2, OpenFacts
  <1>4. file \in [Files -> FileRec] /\ TypeOK
    BY Recs DEF FileInv
  <1>5. /\ file' \in [Files -> FileRec]
        /\ \A g \in Files \ {f} : file'[g] = file[g]
        /\ ~file'[f].is_master /\ file'[f].master = file[f].master /\ file'[f].magic = file[f].magic
        /\ file'[f].lock_count = file[f].lock_count
    BY <1>1, <1>4, SetIsMaster
  <1>6. \A g \in Files : Master(g)' = Master(g) /\ file'[g].magic = file[g].magic /\ file'[g].lock_count = file[g].lock_count
    BY <1>5 DEF Master
  <1>7. ref'[m] = ref[m] - 1 /\ \A n \in Masters \ {m} : ref'[n] = ref[n]
    BY <1>1, <1>2, <1>3, <1>4 DEF TypeOK
  <1>8. ref' \in [Masters -> Nat]
    <2>1. ref' \in [Masters -> Int]
      BY <1>1, <1>2, <1>3, <1>4 DEF TypeOK
    <2>2. \A n \in Masters : ref'[n] \in Nat
      <3>1. ref'[m] \in Nat
        BY <1>3, <1>7
      <3>2. \A n \in Masters : ref[n] \in Nat
        BY <1>4 DEF TypeOK
      <3> QED BY <1>7, <3>1, <3>2
    <2> QED BY <2>1, <2>2
  <1>9. TypeOK'
    BY <1>1, <1>4, <1>5, <1>8 DEF TypeOK, FileRec
  <1>10. Counted'
    <2>1. \A n \in Masters : Users(n)' = Users(n)
      BY <1>1, <1>6 DEF Users, IsOpen
    <2>2. ASSUME NEW n \in Masters PROVE ref'[n] = Cardinality(Users(n)) + One(minor' = n)
      <3>1. ref[n] = Cardinality(Users(n)) + One(minor = n)
        BY DEF FileInv, Counted
      <3>2. One(minor' = n) = 0 /\ One(minor = n) = IF n = m THEN 1 ELSE 0
        BY <1>1, <1>2, <1>3, FileAssumption DEF One, FileAssumption
      <3> QED BY <1>7, <3>1, <3>2, UsersFinite
    <2> QED BY <2>1, <2>2 DEF Counted
  <1>11. Mastered'
    <2>1. \A g \in Files \ {f} : ~file[g].is_master
      BY <1>1 DEF FileInv, Mastered
    <2> QED BY <1>1, <1>5, <2>1 DEF Mastered
  <1>12. MagicsLead' /\ Unused'
    <2>1. MagicsLead'
      BY <1>1, <1>4, <1>6 DEF FileInv, MagicsLead, Leads, IsOpen
    <2>2. \A n \in Masters : ref'[n] = 0 => ref[n] = 0
      BY <1>3, <1>7
    <2> QED BY <1>1, <2>1, <2>2 DEF FileInv, Unused
  <1> QED BY <1>1, <1>5, <1>6, <1>9, <1>10, <1>11, <1>12, NoLockStep

\* A magic number is new to its file, and leads to it in its master's table.
LEMMA GetMagicInv == ASSUME FileInv, NEW f \in Files, GetMagic(f) PROVE FileInv'
  <1>1. /\ IsOpen(f) /\ file[f].magic = NoMagic /\ sequence \in Magics
        /\ file' = [file EXCEPT ![f].magic = sequence] /\ magics' = [magics EXCEPT ![Master(f)][sequence] = f]
        /\ sequence' = sequence + 1 /\ minor' = minor /\ ref' = ref
        /\ st' = st /\ lock' = lock /\ has' = has
        /\ count' = count /\ ready' = ready /\ seen' = seen /\ panic' = panic
    BY DEF GetMagic, Ioctl, IsOpen, lockVars, devVars
  <1>2. PICK m \in Masters : Master(f) = m /\ ref[m] \in Nat /\ ref[m] >= 1
    BY <1>1, OpenFacts
  <1>3. file \in [Files -> FileRec] /\ TypeOK
    BY Recs DEF FileInv
  <1>4. /\ file' \in [Files -> FileRec]
        /\ \A g \in Files \ {f} : file'[g] = file[g]
        /\ file'[f].magic = sequence /\ file'[f].master = file[f].master /\ file'[f].is_master = file[f].is_master
        /\ file'[f].lock_count = file[f].lock_count
    BY <1>1, <1>3, SetMagic
  <1>5. \A g \in Files : Master(g)' = Master(g) /\ file'[g].is_master = file[g].is_master
                         /\ file'[g].lock_count = file[g].lock_count
    BY <1>4 DEF Master
  <1>6. /\ magics' \in [Masters -> [Magics -> Files \cup {NoFile}]]
        /\ \A n \in Masters, k \in Magics : magics'[n][k] = IF n = m /\ k = sequence THEN f ELSE magics[n][k]
    BY <1>1, <1>2, <1>3 DEF TypeOK
  <1>7. sequence' \in 1 .. (MaxMagic + 1)
    BY <1>1, FileAssumption DEF Magics, FileAssumption
  <1>8. TypeOK'
    BY <1>1, <1>3, <1>4, <1>6, <1>7 DEF TypeOK, FileRec
  <1>9. Counted' /\ Mastered'
    BY <1>1, <1>5, SteadyMasters DEF Steady, IsOpen
  <1>10. MagicsLead'
    <2> SUFFICES ASSUME NEW n \in Masters, NEW k \in Magics, NEW g \in Files, magics'[n][k] = g
                 PROVE  Leads(g, n, k)'
      BY DEF MagicsLead
    <2>1. CASE n = m /\ k = sequence
      BY <1>1, <1>2, <1>4, <1>5, <1>6, <2>1 DEF IsOpen, Leads
    <2>2. CASE ~(n = m /\ k = sequence)
      <3>1. magics[n][k] = g
        BY <1>6, <2>2
      <3>2. IsOpen(g) /\ Master(g) = n /\ file[g].magic = k
        BY <3>1 DEF FileInv, MagicsLead, Leads
      <3>3. k # NoMagic
        BY FileAssumption DEF Magics, NoMagic, FileAssumption
      <3> QED BY <1>1, <1>4, <1>5, <3>2, <3>3 DEF IsOpen, Leads
    <2> QED BY <2>1, <2>2
  <1>11. Unused'
    BY <1>1, <1>2, <1>6 DEF FileInv, Unused
  <1> QED BY <1>1, <1>4, <1>5, <1>8, <1>9, <1>10, <1>11, NoLockStep

\* drm_authmagic takes the magic number out of the table and leads nobody astray.
LEMMA AuthMagicInv == ASSUME FileInv, NEW f \in Files, AuthMagic(f) PROVE FileInv'
  <1>1. PICK k \in Magics : /\ magics[Master(f)][k] # NoFile
                            /\ file' = [file EXCEPT ![magics[Master(f)][k]].authenticated = TRUE]
                            /\ magics' = [magics EXCEPT ![Master(f)][k] = NoFile]
    BY DEF AuthMagic
  <1>2. /\ IsOpen(f) /\ minor' = minor /\ ref' = ref
        /\ st' = st /\ lock' = lock /\ has' = has /\ sequence' = sequence
        /\ count' = count /\ ready' = ready /\ seen' = seen /\ panic' = panic
    BY DEF AuthMagic, Ioctl, IsOpen, lockVars, devVars
  <1>3. PICK m \in Masters : Master(f) = m
    BY <1>2, OpenFacts
  <1>4. file \in [Files -> FileRec] /\ TypeOK
    BY Recs DEF FileInv
  <1>5. PICK g \in Files : magics[m][k] = g
    BY <1>1, <1>3, <1>4 DEF TypeOK
  <1>6. IsOpen(g)
    BY <1>1, <1>3, <1>5 DEF FileInv, MagicsLead, Leads
  <1>7. /\ file' \in [Files -> FileRec]
        /\ \A h \in Files \ {g} : file'[h] = file[h]
        /\ file'[g].magic = file[g].magic /\ file'[g].master = file[g].master /\ file'[g].is_master = file[g].is_master
        /\ file'[g].lock_count = file[g].lock_count
    <2>1. file' = [file EXCEPT ![g].authenticated = TRUE]
      BY <1>1, <1>3, <1>5
    <2> QED BY <1>4, <2>1, SetAuthenticated
  <1>8. \A h \in Files : Master(h)' = Master(h) /\ file'[h].is_master = file[h].is_master
                         /\ file'[h].lock_count = file[h].lock_count /\ file'[h].magic = file[h].magic
    BY <1>7 DEF Master
  <1>9. /\ magics' \in [Masters -> [Magics -> Files \cup {NoFile}]]
        /\ \A n \in Masters, j \in Magics : magics'[n][j] = magics[n][j] \/ magics'[n][j] = NoFile
    BY <1>1, <1>3, <1>4 DEF TypeOK
  <1>10. TypeOK'
    BY <1>2, <1>4, <1>7, <1>9 DEF TypeOK, FileRec
  <1>11. Counted' /\ Mastered'
    BY <1>2, <1>8, SteadyMasters DEF Steady, IsOpen
  <1>12. MagicsLead'
    <2> SUFFICES ASSUME NEW n \in Masters, NEW j \in Magics, NEW h \in Files, magics'[n][j] = h
                 PROVE  Leads(h, n, j)'
      BY DEF MagicsLead
    <2>1. magics[n][j] = h
      BY <1>9, FileAssumption DEF FileAssumption
    <2>2. IsOpen(h) /\ Master(h) = n /\ file[h].magic = j
      BY <2>1 DEF FileInv, MagicsLead, Leads
    <2> QED BY <1>2, <1>8, <2>2 DEF IsOpen, Leads
  <1>13. Unused'
    BY <1>2, <1>9 DEF FileInv, Unused
  <1> QED BY <1>2, <1>6, <1>7, <1>8, <1>10, <1>11, <1>12, <1>13, NoLockStep

---------------------------------------------------------------------------
(* The hardware lock                                                       *)

\* A step on the lock of m, which is open to its clients.
LockStep(m) ==
    /\ ref[m] # 0 /\ ref' = ref /\ minor' = minor /\ magics' = magics
    /\ \A n \in Masters \ {m} : lock'[n] = lock[n]
    /\ \A g \in Files :
         /\ IsOpen(g)' <=> IsOpen(g)
         /\ Master(g)' = Master(g) /\ file'[g].is_master = file[g].is_master /\ file'[g].magic = file[g].magic
         /\ Master(g) # m => st'[g] = st[g] /\ has'[g] = has[g] /\ file'[g] = file[g]

\* It is enough to look at the lock of m and at its clients.
LEMMA LockStepInv ==
    ASSUME FileInv, NEW m \in Masters, LockStep(m), TypeOK',
           \A f \in Files : Settled(f)', LockFine(m)'
    PROVE  FileInv'
  <1>1. Counted' /\ Mastered'
    BY SteadyMasters DEF Steady, LockStep
  <1>2. MagicsLead'
    BY DEF FileInv, MagicsLead, Leads, LockStep
  <1>3. Unused'
    BY DEF FileInv, Unused, LockStep
  <1>4. ASSUME NEW n \in Masters \ {m} PROVE LockFine(n)'
    <2>1. Apart(n)
      BY DEF Apart, LockStep
    <2> QED BY <2>1, ApartFine
  <1> QED BY <1>1, <1>2, <1>3, <1>4 DEF FileInv

\* What a change of the lock leaves alone: the word is mapped,
LEMMA SetHw ==
    ASSUME NEW l \in LockRec
    PROVE  LET r == [l EXCEPT !.hw = "mapped"]
           IN  r \in LockRec /\ r.hw = "mapped" /\ r.held = l.held /\ r.cont = l.cont /\ r.ctx = l.ctx /\ r.file_priv = l.file_priv
  BY DEF LockRec
Held(l, b) == [l EXCEPT !.held = b]
\* held or not,
LEMMA SetHeld ==
    ASSUME NEW l \in LockRec, NEW b \in BOOLEAN
    PROVE  /\ Held(l, b) \in LockRec /\ Held(l, b).hw = l.hw /\ Held(l, b).held = b
           /\ Held(l, b).cont = l.cont /\ Held(l, b).ctx = l.ctx /\ Held(l, b).file_priv = l.file_priv
  BY DEF LockRec, Held
\* contended,
LEMMA SetCont ==
    ASSUME NEW l \in LockRec
    PROVE  LET r == [l EXCEPT !.cont = TRUE]
           IN  r \in LockRec /\ r.hw = l.hw /\ r.held = l.held /\ r.cont /\ r.ctx = l.ctx /\ r.file_priv = l.file_priv
  BY DEF LockRec
Taken(l, f, b) == [l EXCEPT !.held = TRUE, !.cont = b, !.ctx = f, !.file_priv = f]
\* taken by f,
LEMMA SetTaken ==
    ASSUME NEW l \in LockRec, NEW f \in Files, NEW b \in BOOLEAN
    PROVE  /\ Taken(l, f, b) \in LockRec /\ Taken(l, f, b).hw = l.hw /\ Taken(l, f, b).held
           /\ Taken(l, f, b).cont = b /\ Taken(l, f, b).ctx = f /\ Taken(l, f, b).file_priv = f
  BY DEF LockRec, Taken
\* and freed by drm_lock_free.
LEMMA SetFreed ==
    ASSUME NEW l \in LockRec
    PROVE  /\ Freed(l) \in LockRec /\ Freed(l).hw = l.hw /\ ~Freed(l).held /\ ~Freed(l).cont
           /\ Freed(l).ctx = l.ctx /\ Freed(l).file_priv = l.file_priv
  BY DEF LockRec, Freed

\* drm_addmap_core: the lock of the master appears, free and owned by nobody.
LEMMA AddLockInv == ASSUME FileInv, NEW f \in Files, AddLock(f) PROVE FileInv'
  <1>1. /\ IsOpen(f) /\ lock[minor].hw = "none" /\ lock' = [lock EXCEPT ![minor].hw = "mapped"]
        /\ file[f].is_master
        /\ count' = count /\ ready' = ready /\ minor' = minor /\ st' = st /\ seen' = seen /\ file' = file
        /\ ref' = ref /\ magics' = magics /\ has' = has /\ sequence' = sequence /\ panic' = panic
    BY DEF AddLock, Ioctl, IsOpen, devVars, masterVars
  <1>2. PICK m \in Masters : Master(f) = m /\ minor = m /\ ref[m] # 0
    BY <1>1, OpenFacts DEF FileInv, Mastered
  <1>3. lock \in [Masters -> LockRec] /\ TypeOK
    BY Recs DEF FileInv
  <1>4. lock[m] = NoLock
    BY <1>1, <1>2 DEF FileInv, LockFine
  <1>5. /\ lock' \in [Masters -> LockRec] /\ \A n \in Masters \ {m} : lock'[n] = lock[n]
        /\ lock'[m].hw = "mapped" /\ ~lock'[m].held /\ lock'[m].ctx = NoFile
    <2>1. PICK r \in LockRec : r = [lock[m] EXCEPT !.hw = "mapped"] /\ r.hw = "mapped"
                               /\ r.held = lock[m].held /\ r.ctx = lock[m].ctx
      BY <1>3, SetHw
    <2>2. lock' = [lock EXCEPT ![m] = r]
      BY <1>1, <1>2, <2>1
    <2>3. ~lock[m].held /\ lock[m].ctx = NoFile
      BY <1>4 DEF NoLock
    <2> QED BY <1>3, <2>1, <2>2, <2>3
  <1>6. TypeOK'
    BY <1>1, <1>3, <1>5 DEF TypeOK, LockRec
  <1>7. \A g \in Files : (IsOpen(g)' <=> IsOpen(g)) /\ Master(g)' = Master(g)
    BY <1>1 DEF IsOpen, Master
  <1>8. LockStep(m)
    BY <1>1, <1>2, <1>5, <1>7 DEF LockStep
  <1>9. \A g \in Files : Settled(g)'
    BY <1>1, <1>7 DEF FileInv, Settled
  <1>10. LockFine(m)'
    BY <1>5 DEF LockFine
  <1> QED BY <1>6, <1>8, <1>9, <1>10, LockStepInv

\* drm_lock_take by f, who wants the lock and has said so in lock_count
LEMMA TakeInv ==
    ASSUME FileInv, NEW f \in Files, IsOpen(f), lock[Master(f)].hw = "mapped", Take(f),
           file' \in [Files -> FileRec], \A g \in Files \ {f} : file'[g] = file[g],
           file'[f].master = file[f].master, file'[f].is_master = file[f].is_master,
           file'[f].magic = file[f].magic, file'[f].lock_count,
           count' = count, ready' = ready, minor' = minor, seen' = seen, ref' = ref, magics' = magics,
           sequence' = sequence, panic' = panic
    PROVE  FileInv'
  <1>1. PICK m \in Masters : Master(f) = m /\ ref[m] # 0
    BY OpenFacts
  <1>2. lock \in [Masters -> LockRec] /\ TypeOK /\ LockFine(m) /\ lock[m].hw = "mapped"
    BY <1>1, Recs DEF FileInv
  <1>3. \A g \in Files : Master(g)' = Master(g) /\ file'[g].is_master = file[g].is_master /\ file'[g].magic = file[g].magic
    BY DEF Master
  <1>4. CASE lock[m].held
    <2>1. lock' = [lock EXCEPT ![m].cont = TRUE] /\ st' = [st EXCEPT ![f] = "asleep"] /\ has' = has
      BY <1>1, <1>4 DEF Take
    <2>2. /\ lock' \in [Masters -> LockRec] /\ \A n \in Masters \ {m} : lock'[n] = lock[n]
          /\ lock'[m].hw = "mapped" /\ lock'[m].held /\ lock'[m].cont /\ lock'[m].ctx = lock[m].ctx
          /\ lock'[m].file_priv = lock[m].file_priv
      BY <1>2, <1>4, <2>1, SetCont
    <2>3. st'[f] = "asleep" /\ \A g \in Files \ {f} : st'[g] = st[g]
      BY <1>2, <2>1 DEF TypeOK
    <2>4. TypeOK'
      BY <1>2, <2>1, <2>2 DEF TypeOK, LockRec, FileRec
    <2>5. \A g \in Files : IsOpen(g)' <=> IsOpen(g)
      BY <2>3 DEF IsOpen
    <2>6. LockStep(m)
      BY <1>1, <1>3, <2>1, <2>2, <2>3, <2>5 DEF LockStep
    <2>7. \A g \in Files : Settled(g)'
      BY <1>1, <1>3, <2>1, <2>3, <2>5 DEF FileInv, Settled
    <2>8. LockFine(m)'
      <3>1. lock[m].ctx # NoFile => lock[m].ctx \in Files
        BY <1>2 DEF LockRec
      <3> QED BY <1>2, <1>3, <2>2, <2>5, <3>1 DEF LockFine
    <2> QED BY <2>4, <2>6, <2>7, <2>8, LockStepInv
  <1>5. CASE ~lock[m].held
    <2>1. PICK b \in BOOLEAN : b = (Waiters(m) \ {f} # {})
      OBVIOUS
    <2>2. /\ lock' = [lock EXCEPT ![m] = [@ EXCEPT !.held = TRUE, !.cont = b, !.ctx = f, !.file_priv = f]]
          /\ st' = [st EXCEPT ![f] = "open"] /\ has' = [has EXCEPT ![f] = TRUE]
      BY <1>1, <1>5, <2>1 DEF Take
    <2>3. /\ lock' \in [Masters -> LockRec] /\ \A n \in Masters \ {m} : lock'[n] = lock[n]
          /\ lock'[m].hw = "mapped" /\ lock'[m].held /\ lock'[m].cont = b /\ lock'[m].ctx = f
          /\ lock'[m].file_priv = f
      <3>1. PICK r \in LockRec :
              /\ r = Taken(lock[m], f, b)
              /\ r.hw = lock[m].hw /\ r.held /\ r.cont = b /\ r.ctx = f /\ r.file_priv = f
        BY <1>2, SetTaken
      <3>2. lock' = [lock EXCEPT ![m] = r]
        BY <2>2, <3>1 DEF Taken
      <3> QED BY <1>2, <3>1, <3>2
    <2>4. /\ st'[f] = "open" /\ \A g \in Files \ {f} : st'[g] = st[g]
          /\ has'[f] /\ \A g \in Files \ {f} : has'[g] = has[g]
      BY <1>2, <2>2 DEF TypeOK
    <2>5. TypeOK'
      BY <1>2, <2>2, <2>3 DEF TypeOK, LockRec, FileRec
    <2>6. \A g \in Files : IsOpen(g)' <=> IsOpen(g)
      BY <2>4 DEF IsOpen
    <2>7. LockStep(m)
      BY <1>1, <1>3, <2>3, <2>4, <2>6 DEF LockStep
    <2>8. \A g \in Files : Settled(g)'
      BY <1>1, <1>3, <2>4, <2>6 DEF FileInv, Settled
    <2>9. LockFine(m)'
      BY <1>1, <1>3, <2>3, <2>6 DEF LockFine
    <2> QED BY <2>5, <2>7, <2>8, <2>9, LockStepInv
  <1> QED BY <1>4, <1>5

\* drm_lock interrupted: only the place of f changes.
LEMMA LockInterruptedInv ==
    ASSUME FileInv, NEW f \in Files, LockInterrupted(f)
    PROVE  FileInv'
  <1> DEFINE s == "open"
  <1>0. /\ st[f] = "asleep" /\ IsOpen(f) /\ st' = [st EXCEPT ![f] = s] /\ panic' = panic
        /\ UNCHANGED <<devVars, seen, file, masterVars, lockVars, sequence>>
    BY DEF LockInterrupted, IsOpen
  <1>1. PICK m \in Masters : Master(f) = m /\ ref[m] # 0
    BY <1>0, OpenFacts
  <1>2. /\ TypeOK /\ count' = count /\ ready' = ready /\ minor' = minor /\ seen' = seen /\ file' = file
        /\ ref' = ref /\ magics' = magics /\ lock' = lock /\ has' = has /\ sequence' = sequence
    BY <1>0 DEF FileInv, devVars, masterVars, lockVars
  <1>3. st'[f] = s /\ \A g \in Files \ {f} : st'[g] = st[g]
    BY <1>0, <1>2 DEF TypeOK
  <1>4. TypeOK'
    BY <1>0, <1>2 DEF TypeOK
  <1>5. \A g \in Files : (IsOpen(g)' <=> IsOpen(g)) /\ Master(g)' = Master(g)
    BY <1>0, <1>2, <1>3 DEF IsOpen, Master
  <1>6. LockStep(m)
    BY <1>1, <1>2, <1>3, <1>5 DEF LockStep
  <1>7. \A g \in Files : Settled(g)'
    BY <1>0, <1>2, <1>3, <1>5 DEF FileInv, Settled
  <1>8. LockFine(m)'
    <2>1. lock[m] \in LockRec /\ LockFine(m)
      BY Recs DEF FileInv
    <2>2. lock[m].ctx # NoFile => lock[m].ctx \in Files
      BY <2>1 DEF LockRec
    <2>3. Asleep(m)' \subseteq Asleep(m)
      BY <1>3, <1>5 DEF Asleep
    <2> QED BY <1>2, <1>5, <2>1, <2>2, <2>3 DEF LockFine
  <1> QED BY <1>4, <1>6, <1>7, <1>8, LockStepInv

\* The clients' own half: the word changes between held and free, and so does the client.
LEMMA FastInv ==
    ASSUME FileInv, NEW f \in Files, FastLock(f) \/ FastUnlock(f)
    PROVE  FileInv'
  <1>1. PICK b \in BOOLEAN :
          /\ lock' = [lock EXCEPT ![Master(f)].held = b] /\ has' = [has EXCEPT ![f] = b]
          /\ lock[Master(f)].ctx = f
          /\ b => lock[Master(f)].hw = "mapped" /\ ~lock[Master(f)].held
          /\ ~b => lock[Master(f)].held /\ ~lock[Master(f)].cont
    <2>1. CASE FastLock(f)
      BY <2>1 DEF FastLock
    <2>2. CASE FastUnlock(f)
      BY <2>2 DEF FastUnlock
    <2> QED BY <2>1, <2>2
  <1>2. /\ st[f] = "open" /\ IsOpen(f)
        /\ count' = count /\ ready' = ready /\ minor' = minor /\ st' = st /\ seen' = seen /\ file' = file
        /\ ref' = ref /\ magics' = magics /\ sequence' = sequence /\ panic' = panic
    BY DEF FastLock, FastUnlock, IsOpen, devVars, masterVars
  <1>3. PICK m \in Masters : Master(f) = m /\ ref[m] # 0
    BY <1>2, OpenFacts
  <1>4. lock \in [Masters -> LockRec] /\ TypeOK /\ LockFine(m)
    BY Recs DEF FileInv
  <1>5. /\ lock' \in [Masters -> LockRec] /\ \A n \in Masters \ {m} : lock'[n] = lock[n]
        /\ lock'[m].hw = lock[m].hw /\ lock'[m].held = b /\ lock'[m].cont = lock[m].cont
        /\ lock'[m].ctx = f /\ lock'[m].file_priv = lock[m].file_priv
    <2>1. PICK r \in LockRec :
            /\ r = Held(lock[m], b)
            /\ r.hw = lock[m].hw /\ r.held = b /\ r.cont = lock[m].cont /\ r.ctx = lock[m].ctx
            /\ r.file_priv = lock[m].file_priv
      BY <1>4, SetHeld
    <2>2. lock' = [lock EXCEPT ![m] = r]
      BY <1>1, <1>3, <2>1 DEF Held
    <2> QED BY <1>1, <1>3, <1>4, <2>1, <2>2
  <1>6. has'[f] = b /\ \A g \in Files \ {f} : has'[g] = has[g]
    BY <1>1, <1>4 DEF TypeOK
  <1>7. TypeOK'
    BY <1>1, <1>2, <1>4, <1>5 DEF TypeOK, LockRec
  <1>8. \A g \in Files : (IsOpen(g)' <=> IsOpen(g)) /\ Master(g)' = Master(g)
    BY <1>2 DEF IsOpen, Master
  <1>9. LockStep(m)
    BY <1>2, <1>3, <1>5, <1>6, <1>8 DEF LockStep
  <1>10. \A g \in Files : Settled(g)'
    BY <1>2, <1>6, <1>8 DEF FileInv, Settled
  <1>11. LockFine(m)'
    <2>1. lock[m].hw # "none"
      <3>1. ~NoLock.held
        BY DEF NoLock
      <3> QED BY <1>1, <1>3, <1>4, <3>1 DEF LockFine
    <2>2. Asleep(m)' = Asleep(m)
      BY <1>2, <1>8 DEF Asleep
    <2> QED BY <1>1, <1>2, <1>3, <1>4, <1>5, <1>8, <2>1, <2>2, FileAssumption DEF LockFine, FileAssumption
  <1> QED BY <1>7, <1>9, <1>10, <1>11, LockStepInv

\* wake_up_interruptible moves sleepers only, and one of them if there is one.
LEMMA WakeUpWakes ==
    ASSUME NEW m, NEW s, s \in WakeUp(m, st)
    PROVE  /\ s \in [Files -> {"woken"} \cup {st[g] : g \in Files}]
           /\ \A g \in Files : s[g] = st[g] \/ (g \in Asleep(m) /\ s[g] = "woken")
           /\ Asleep(m) # {} => \E g \in Asleep(m) : s[g] = "woken"
  <1>1. PICK W \in SUBSET Asleep(m) : /\ W # {} \/ Asleep(m) = {}
                                      /\ s = [g \in Files |-> IF g \in W THEN "woken" ELSE st[g]]
    BY DEF WakeUp
  <1>2. Asleep(m) \subseteq Files
    BY DEF Asleep
  <1> QED BY <1>1, <1>2

\* drm_unlock frees the lock, whoever has it, and wakes who waits for it or nobody.
LEMMA UnlockInv ==
    ASSUME FileInv, NEW f \in Files, Unlock(f), lock[Master(f)].hw = "mapped"
    PROVE  FileInv'
  <1>1. /\ st[f] = "open" /\ IsOpen(f) /\ has' = [has EXCEPT ![f] = FALSE]
        /\ lock' = [lock EXCEPT ![Master(f)] = Freed(lock[Master(f)])]
        /\ st' = st \/ st' \in WakeUp(Master(f), st)
        /\ count' = count /\ ready' = ready /\ minor' = minor /\ seen' = seen /\ file' = file
        /\ ref' = ref /\ magics' = magics /\ sequence' = sequence /\ panic' = panic
    BY DEF Unlock, Ioctl, IsOpen, devVars, masterVars
  <1>2. PICK m \in Masters : Master(f) = m /\ ref[m] # 0
    BY <1>1, OpenFacts
  <1>3. lock \in [Masters -> LockRec] /\ TypeOK /\ LockFine(m) /\ lock[m].hw = "mapped"
    BY <1>2, Recs DEF FileInv
  <1>4. /\ lock' \in [Masters -> LockRec] /\ \A n \in Masters \ {m} : lock'[n] = lock[n]
        /\ lock'[m].hw = "mapped" /\ lock'[m].ctx = lock[m].ctx /\ lock'[m].file_priv = lock[m].file_priv
    BY <1>1, <1>2, <1>3, SetFreed
  <1>5. /\ \A g \in Files : st'[g] = st[g] \/ (g \in Asleep(m) /\ st'[g] = "woken")
        /\ st' \in [Files -> {"woken"} \cup {st[g] : g \in Files}]
    <2>1. CASE st' = st
      BY <1>3, <2>1 DEF TypeOK
    <2>2. CASE st' \in WakeUp(m, st)
      BY <2>2, WakeUpWakes
    <2> QED BY <1>1, <1>2, <2>1, <2>2
  <1>6. ~has'[f] /\ \A g \in Files \ {f} : has'[g] = has[g]
    BY <1>1, <1>3 DEF TypeOK
  <1>7. TypeOK'
    <2>1. \A g \in Files : st[g] \in {"closed", "counting", "opening", "open", "asleep", "woken", "closing"}
      BY <1>3 DEF TypeOK
    <2>2. st' \in [Files -> {"closed", "counting", "opening", "open", "asleep", "woken", "closing"}]
      BY <1>5, <2>1
    <2> QED BY <1>1, <1>3, <1>4, <2>2 DEF TypeOK, LockRec
  <1>8. \A g \in Files : (IsOpen(g)' <=> IsOpen(g)) /\ Master(g)' = Master(g)
    BY <1>1, <1>5 DEF IsOpen, Master, Asleep
  <1>9. LockStep(m)
    <2>1. \A g \in Files : Master(g) # m => st'[g] = st[g]
      BY <1>5 DEF Asleep
    <2> QED BY <1>1, <1>2, <1>4, <1>6, <1>8, <2>1 DEF LockStep
  <1>10. \A g \in Files : Settled(g)'
    <2>1. \A g \in Files : st'[g] \in {"asleep", "woken"} => st[g] \in {"asleep", "woken"}
      BY <1>5 DEF Asleep
    <2> QED BY <1>1, <1>6, <1>8, <2>1 DEF FileInv, Settled
  <1>11. LockFine(m)'
    <2>1. lock[m].ctx # NoFile => lock[m].ctx \in Files
      BY <1>3 DEF LockRec
    <2> QED BY <1>1, <1>3, <1>4, <1>8, <2>1 DEF LockFine
  <1> QED BY <1>7, <1>9, <1>10, <1>11, LockStepInv

---------------------------------------------------------------------------
(* drm_open_helper                                                         *)

NewOpen(m, b, c) == [NewFile EXCEPT !.master = m, !.is_master = b, !.authenticated = c]
\* The file that drm_open_helper makes.
LEMMA NewOpens ==
    ASSUME NEW m \in Masters, NEW b \in BOOLEAN, NEW c \in BOOLEAN
    PROVE  /\ NewOpen(m, b, c) \in FileRec /\ NewOpen(m, b, c).master = m /\ NewOpen(m, b, c).is_master = b
           /\ NewOpen(m, b, c).magic = NoMagic /\ ~NewOpen(m, b, c).lock_count
  BY DEF NewOpen, NewFile, FileRec

\* drm_open_helper: the file is counted on its master, or is the first of a new one.
LEMMA OpenHelperInv == ASSUME FileInv, NEW f \in Files, OpenHelper(f) PROVE FileInv'
  <1>1. PICK m \in Masters :
          /\ IF minor = NoMaster THEN ref[m] = 0 ELSE m = minor
          /\ ref' = [ref EXCEPT ![m] = IF minor = NoMaster THEN 2 ELSE @ + 1]
          /\ minor' = m
          /\ file' = [file EXCEPT ![f] =
                        NewOpen(m, minor = NoMaster, f \in Root \/ minor = NoMaster)]
    BY DEF OpenHelper, NewOpen
  <1>2. /\ st[f] = "opening" /\ ~IsOpen(f) /\ st' = [st EXCEPT ![f] = "open"]
        /\ ready' = (ready \/ seen[f] = 0) /\ seen' = [seen EXCEPT ![f] = 0] /\ count' = count
        /\ magics' = magics /\ lock' = lock /\ has' = has /\ sequence' = sequence /\ panic' = panic
    BY DEF OpenHelper, IsOpen, lockVars
  <1>3. TypeOK /\ file \in [Files -> FileRec] /\ m # NoMaster
    BY Recs, FileAssumption DEF FileInv, FileAssumption
  <1>4. file[f] = NewFile /\ ~has[f] /\ Master(f) = NoMaster /\ ~file[f].is_master
    BY <1>2, NewRecs DEF FileInv, Settled, Master
  <1>5. PICK b \in BOOLEAN : b = (minor = NoMaster)
    OBVIOUS
  <1>6. /\ file' \in [Files -> FileRec] /\ \A g \in Files \ {f} : file'[g] = file[g]
        /\ file'[f].master = m /\ file'[f].is_master = b /\ file'[f].magic = NoMagic /\ ~file'[f].lock_count
    <2>1. PICK c \in BOOLEAN : c = (f \in Root \/ minor = NoMaster)
      OBVIOUS
    <2>2. file' = [file EXCEPT ![f] = NewOpen(m, b, c)]
      BY <1>1, <1>5, <2>1
    <2> QED BY <1>3, <2>2, NewOpens
  <1>7. st'[f] = "open" /\ \A g \in Files \ {f} : st'[g] = st[g]
    BY <1>2, <1>3 DEF TypeOK
  <1>8. /\ ref' \in [Masters -> Nat] /\ \A n \in Masters \ {m} : ref'[n] = ref[n]
        /\ ref'[m] = IF b THEN 2 ELSE ref[m] + 1
    <2>1. ref \in [Masters -> Nat]
      BY <1>3 DEF TypeOK
    <2>2. PICK v \in Nat : v = IF b THEN 2 ELSE ref[m] + 1
      BY <2>1
    <2>3. ref' = [ref EXCEPT ![m] = v]
      BY <1>1, <1>5, <2>1, <2>2
    <2> QED BY <2>1, <2>2, <2>3
  <1>9. TypeOK'
    BY <1>1, <1>2, <1>3, <1>6, <1>8 DEF TypeOK, FileRec
  <1>10. IsOpen(f)' /\ Master(f)' = m /\ \A g \in Files \ {f} : (IsOpen(g)' <=> IsOpen(g)) /\ Master(g)' = Master(g)
    BY <1>6, <1>7 DEF IsOpen, Master
  <1>11. Counted'
    <2>1. f \notin Users(m)
      BY <1>2 DEF Users
    <2>2. Users(m)' = Users(m) \cup {f} /\ \A n \in Masters \ {m} : Users(n)' = Users(n)
      BY <1>2, <1>10 DEF Users
    <2>3. Cardinality(Users(m)') = Cardinality(Users(m)) + 1
      BY <2>1, <2>2, UsersFinite, FS_AddElement
    <2>4. ASSUME NEW n \in Masters PROVE ref'[n] = Cardinality(Users(n)') + One(minor' = n)
      <3>1. ref[n] = Cardinality(Users(n)) + One(minor = n)
        BY DEF FileInv, Counted
      <3>2. One(minor' = n) = (IF n = m THEN 1 ELSE 0) /\ One(minor = n) = IF ~b /\ n = m THEN 1 ELSE 0
        BY <1>1, <1>3, <1>5, FileAssumption DEF One, FileAssumption
      <3>3. n = m /\ b => ref[n] = 0
        BY <1>1, <1>5
      <3> QED BY <1>8, <2>2, <2>3, <3>1, <3>2, <3>3, UsersFinite
    <2> QED BY <2>4 DEF Counted
  <1>12. Mastered'
    <2>1. b => \A g \in Files : ~file[g].is_master
      <3>1. \A g \in Files : file[g].is_master => minor \in Masters
        BY DEF FileInv, Mastered, Settled
      <3> QED BY <1>5, <3>1, FileAssumption DEF FileAssumption
    <2>2. ~b => minor = m /\ \E g \in Files \ {f} : file[g].is_master
      BY <1>1, <1>4, <1>5 DEF FileInv, Mastered
    <2>3. Mastered
      BY DEF FileInv
    <2> QED BY <1>1, <1>4, <1>6, <1>10, <2>1, <2>2, <2>3 DEF Mastered
  <1>13. MagicsLead'
    BY <1>2, <1>6, <1>10 DEF FileInv, MagicsLead, Leads
  <1>14. Unused'
    BY <1>2, <1>3, <1>8 DEF FileInv, Unused, TypeOK
  <1>15. \A g \in Files : Settled(g)'
    BY <1>2, <1>4, <1>6, <1>7, <1>10 DEF FileInv, Settled
  <1>16. ASSUME NEW n \in Masters PROVE LockFine(n)'
    <2>1. CASE n # m
      <3>1. Apart(n)
        BY <1>2, <1>3, <1>4, <1>6, <1>7, <1>10, <2>1, FileAssumption DEF Apart, FileAssumption
      <3> QED BY <3>1, ApartFine
    <2>2. CASE n = m
      <3>1. lock[n] \in LockRec /\ LockFine(n)
        BY Recs DEF FileInv
      <3>2. lock[n].ctx # NoFile => lock[n].ctx \in Files
        BY <3>1 DEF LockRec
      <3>3. Asleep(n)' = Asleep(n)
        BY <1>2, <1>7, <1>10 DEF Asleep
      <3> QED BY <1>2, <1>4, <1>6, <1>10, <2>2, <3>1, <3>2, <3>3 DEF LockFine
    <2> QED BY <2>1, <2>2
  <1> QED BY <1>9, <1>11, <1>12, <1>13, <1>14, <1>15, <1>16 DEF FileInv

---------------------------------------------------------------------------
(* What a step does to who has the lock and to who waits for it            *)

Seized == \E g \in Files : Unlock(g) /\ Others(g)
Keeps ==
    /\ \A f \in Files : Lost(f)' => Lost(f) \/ Seized
    /\ \A m \in Masters :
         /\ Orphan(m)' => Orphan(m) \/ \E f \in Files : Release(f) /\ minor = NoMaster
         /\ Stranded(m)' => Stranded(m) \/ Orphan(m)' \/ Seized

\* A step that gives nobody the lock, puts nobody to sleep and keeps awake who is awake.
LEMMA CalmKeeps ==
    ASSUME lock' = lock,
           \A g \in Files : has'[g] => has[g] /\ Master(g)' = Master(g),
           \A g \in Files : st'[g] = "asleep" => st[g] = "asleep" /\ Master(g)' = Master(g),
           \A g \in Files : st[g] = "woken" => st'[g] = "woken" /\ Master(g)' = Master(g)
    PROVE  Keeps
  <1>1. \A g \in Files : Lost(g)' => Lost(g)
    BY DEF Lost
  <1>2. \A m \in Masters : (Orphan(m)' => Orphan(m)) /\ (Stranded(m)' => Stranded(m))
    BY DEF Orphan, Stranded, Promised, Asleep
  <1> QED BY <1>1, <1>2 DEF Keeps

\* Opens, closes, masters, magic numbers and interrupted sleeps are such steps.
LEMMA CalmSteps ==
    ASSUME FileInv, NEW f \in Files,
           \/ OpenRead(f) \/ OpenWrite(f) \/ OpenHelper(f) \/ OpenFails(f) \/ ReleaseCount(f)
           \/ SetMaster(f) \/ DropMaster(f) \/ GetMagic(f) \/ AuthMagic(f) \/ LockInterrupted(f)
    PROVE  Keeps
  <1>1. lock' = lock /\ has' = has
    BY DEF OpenRead, OpenWrite, OpenHelper, OpenFails, ReleaseCount, SetMaster, DropMaster, GetMagic,
           AuthMagic, LockInterrupted, lockVars
  <1>2. TypeOK /\ file \in [Files -> FileRec]
    BY Recs DEF FileInv
  <1>3. \A g \in Files : (st'[g] = "asleep" => st[g] = "asleep") /\ (st[g] = "woken" => st'[g] = "woken")
    BY <1>2 DEF TypeOK, OpenRead, OpenWrite, OpenHelper, OpenFails, ReleaseCount, SetMaster, DropMaster,
           GetMagic, AuthMagic, LockInterrupted
  <1>4. \A g \in Files : IsOpen(g) => Master(g)' = Master(g)
    <2>1. CASE OpenHelper(f)
      <3>1. ~IsOpen(f) /\ \A g \in Files \ {f} : file'[g] = file[g]
        BY <1>2, <2>1 DEF OpenHelper, IsOpen
      <3> QED BY <3>1 DEF Master
    <2>2. CASE SetMaster(f) \/ DropMaster(f)
      <3>1. PICK b \in BOOLEAN : file' = [file EXCEPT ![f].is_master = b]
        BY <2>2 DEF SetMaster, DropMaster
      <3> QED BY <1>2, <3>1, SetIsMaster DEF Master
    <2>3. CASE GetMagic(f)
      <3>1. file' = [file EXCEPT ![f].magic = sequence] /\ sequence \in Magics
        BY <2>3 DEF GetMagic
      <3> QED BY <1>2, <3>1, SetMagic DEF Master
    <2>4. CASE AuthMagic(f)
      <3>1. PICK h : file' = [file EXCEPT ![h].authenticated = TRUE]
        BY <2>4 DEF AuthMagic
      <3> QED BY <1>2, <3>1, SetAuthenticated DEF Master
    <2>5. CASE OpenRead(f) \/ OpenWrite(f) \/ OpenFails(f) \/ ReleaseCount(f) \/ LockInterrupted(f)
      BY <2>5 DEF Master, OpenRead, OpenWrite, OpenFails, ReleaseCount, LockInterrupted
    <2> QED BY <2>1, <2>2, <2>3, <2>4, <2>5
  <1>5. \A g \in Files : has[g] => IsOpen(g)
    BY DEF FileInv, Settled
  <1>6. \A g \in Files : st'[g] = "asleep" \/ st[g] = "woken" => IsOpen(g)
    BY <1>3 DEF IsOpen
  <1> QED BY <1>1, <1>3, <1>4, <1>5, <1>6, CalmKeeps

\* A NULL hw_lock: nobody has anything any more.
LEMMA PanicKeeps == ASSUME Panic PROVE Keeps
  <1>1. \A g \in Files : ~has'[g] /\ st'[g] = "closed"
    BY DEF Panic
  <1>2. \A m \in Masters : ~lock'[m].held
    BY DEF Panic, NoLock
  <1>3. \A g \in Files : ~Lost(g)'
    BY <1>1 DEF Lost
  <1>4. \A m \in Masters : ~Orphan(m)' /\ ~Stranded(m)'
    BY <1>1, <1>2 DEF Orphan, Stranded, Asleep
  <1> QED BY <1>3, <1>4 DEF Keeps

\* It is enough to look at the lock of m and at its clients.
LEMMA OneLockKeeps ==
    ASSUME NEW m \in Masters,
           \A n \in Masters \ {m} : lock'[n] = lock[n],
           \A g \in Files : Master(g)' = Master(g) \/ (~has'[g] /\ st'[g] \notin {"asleep", "woken"}
                                                      /\ Master(g) = m /\ Master(g)' \notin Masters),
           \A g \in Files : Master(g) # m => has'[g] = has[g] /\ st'[g] = st[g],
           \A g \in Files : has[g] => Master(g) \in Masters,
           \A g \in Files : Master(g) = m /\ Lost(g)' => Lost(g) \/ Seized,
           Orphan(m)' => Orphan(m) \/ \E f \in Files : Release(f) /\ minor = NoMaster,
           Stranded(m)' => Stranded(m) \/ Orphan(m)' \/ Seized
    PROVE  Keeps
  <1>1. ASSUME NEW g \in Files, Master(g) # m, Lost(g)' PROVE Lost(g)
    <2>1. Master(g)' = Master(g) /\ has[g] /\ Master(g) \in Masters \ {m}
      BY <1>1 DEF Lost
    <2> QED BY <1>1, <2>1 DEF Lost
  <1>2. ASSUME NEW n \in Masters \ {m} PROVE (Orphan(n)' => Orphan(n)) /\ (Stranded(n)' => Stranded(n))
    <2>1. \A g \in Files : Master(g)' = n <=> Master(g) = n
      OBVIOUS
    <2>2. Asleep(n)' = Asleep(n)
      BY <2>1 DEF Asleep
    <2>3. Promised(n) => Promised(n)'
      BY <2>1 DEF Promised
    <2> QED BY <2>2, <2>3 DEF Orphan, Stranded
  <1> QED BY <1>1, <1>2 DEF Keeps

\* A new lock: nobody has it or waits for it.
LEMMA AddLockKeeps == ASSUME FileInv, NEW f \in Files, AddLock(f) PROVE Keeps
  <1>1. /\ IsOpen(f) /\ lock[minor].hw = "none" /\ lock' = [lock EXCEPT ![minor].hw = "mapped"]
        /\ file[f].is_master /\ st' = st /\ file' = file /\ has' = has
    BY DEF AddLock, Ioctl, IsOpen
  <1>2. PICK m \in Masters : Master(f) = m /\ minor = m
    BY <1>1, OpenFacts DEF FileInv, Mastered
  <1>3. lock \in [Masters -> LockRec] /\ LockFine(m)
    BY Recs DEF FileInv
  <1>4. lock[m] = NoLock /\ Asleep(m) = {} /\ \A g \in Files : Master(g) = m => ~has[g]
    BY <1>1, <1>2, <1>3 DEF LockFine
  <1>5. (\A n \in Masters \ {m} : lock'[n] = lock[n]) /\ lock'[m].held = lock[m].held
    <2>1. lock' = [lock EXCEPT ![m] = [lock[m] EXCEPT !.hw = "mapped"]]
      BY <1>1, <1>2
    <2> QED BY <1>3, <2>1, SetHw
  <1>6. ~lock'[m].held
    BY <1>4, <1>5 DEF NoLock
  <1>7. \A g \in Files : has[g] => Master(g) \in Masters
    BY DEF FileInv, Settled
  <1>8. \A g \in Files : Master(g) = m => ~Lost(g)'
    BY <1>1, <1>4 DEF Lost
  <1>9. ~Orphan(m)' /\ ~Stranded(m)'
    <2>1. Asleep(m)' = Asleep(m)
      BY <1>1 DEF Asleep, Master
    <2> QED BY <1>4, <1>6, <2>1 DEF Orphan, Stranded
  <1> QED BY <1>1, <1>5, <1>7, <1>8, <1>9, OneLockKeeps DEF Master

\* drm_lock_take: who finds the lock held marks it contended, and who takes it after others
\* have begun to wait marks it for them.
LEMMA TakeKeeps ==
    ASSUME FileInv, NEW f \in Files, IsOpen(f), Take(f), lock[Master(f)].hw = "mapped",
           \A g \in Files : Master(g)' = Master(g)
    PROVE  Keeps
  <1>1. PICK m \in Masters : Master(f) = m /\ lock[m].hw = "mapped"
    BY OpenFacts
  <1>2. lock \in [Masters -> LockRec] /\ TypeOK
    BY Recs DEF FileInv
  <1>3. \A g \in Files : has[g] => Master(g) \in Masters
    BY DEF FileInv, Settled
  <1>4. CASE lock[m].held
    <2>1. lock' = [lock EXCEPT ![m].cont = TRUE] /\ st' = [st EXCEPT ![f] = "asleep"] /\ has' = has
      BY <1>1, <1>4 DEF Take
    <2>2. /\ \A n \in Masters \ {m} : lock'[n] = lock[n]
          /\ lock'[m].hw = "mapped" /\ lock'[m].held /\ lock'[m].cont /\ lock'[m].ctx = lock[m].ctx
      BY <1>1, <1>2, <1>4, <2>1, SetCont
    <2>3. \A g \in Files \ {f} : st'[g] = st[g]
      BY <1>2, <2>1 DEF TypeOK
    <2>4. \A g \in Files : Master(g) = m /\ Lost(g)' => Lost(g)
      BY <1>1, <1>4, <2>1, <2>2 DEF Lost
    <2>5. Orphan(m)' => Orphan(m)
      BY <1>1, <1>4, <2>2 DEF Orphan
    <2>6. Stranded(m)' => Orphan(m)'
      BY <2>2 DEF Stranded, Promised, Orphan
    <2> QED BY <1>1, <1>3, <2>1, <2>2, <2>3, <2>4, <2>5, <2>6, OneLockKeeps
  <1>5. CASE ~lock[m].held
    <2>1. PICK b \in BOOLEAN : b = (Waiters(m) \ {f} # {})
      OBVIOUS
    <2>2. /\ lock' = [lock EXCEPT ![m] = Taken(lock[m], f, b)]
          /\ st' = [st EXCEPT ![f] = "open"] /\ has' = [has EXCEPT ![f] = TRUE]
      BY <1>1, <1>5, <2>1 DEF Take, Taken
    <2>3. /\ \A n \in Masters \ {m} : lock'[n] = lock[n]
          /\ lock'[m].held /\ lock'[m].cont = b /\ lock'[m].ctx = f
      BY <1>2, <2>2, SetTaken
    <2>4. /\ st'[f] = "open" /\ \A g \in Files \ {f} : st'[g] = st[g]
          /\ \A g \in Files \ {f} : has'[g] = has[g]
      BY <1>2, <2>2 DEF TypeOK
    <2>5. \A g \in Files : Master(g) = m /\ Lost(g)' => Lost(g)
      BY <1>1, <1>5, <2>3, <2>4 DEF Lost
    <2>6. f # NoFile
      BY FileAssumption DEF FileAssumption
    <2>7. ~Orphan(m)'
      BY <2>3, <2>6 DEF Orphan
    <2>8. ~Stranded(m)'
      <3>1. Asleep(m)' \subseteq Waiters(m) \ {f}
        BY <2>4 DEF Asleep, Waiters
      <3> QED BY <2>1, <2>3, <2>6, <3>1 DEF Stranded, Promised
    <2> QED BY <1>1, <1>3, <2>3, <2>4, <2>5, <2>7, <2>8, OneLockKeeps
  <1> QED BY <1>4, <1>5

\* drm_lock, and after its sleep.
LEMMA LockKeeps == ASSUME FileInv, NEW f \in Files, Lock(f) \/ LockRetry(f) PROVE Keeps
  <1>1. CASE lock[Master(f)].hw # "mapped"
    BY <1>1, PanicKeeps DEF Lock, LockRetry
  <1>2. CASE lock[Master(f)].hw = "mapped"
    <2>1. IsOpen(f) /\ Take(f) /\ (file' = file \/ file' = [file EXCEPT ![f].lock_count = TRUE])
      BY <1>2 DEF Lock, LockRetry, Ioctl, IsOpen
    <2>2. \A g \in Files : Master(g)' = Master(g)
      BY <2>1, Recs, SetLockCount DEF Master, FileInv
    <2> QED BY <1>2, <2>1, <2>2, TakeKeeps
  <1> QED BY <1>1, <1>2

\* The clients' own half frees only a lock that is not contended.
LEMMA FastKeeps == ASSUME FileInv, NEW f \in Files, FastLock(f) \/ FastUnlock(f) PROVE Keeps
  <1>1. PICK b \in BOOLEAN :
          /\ lock' = [lock EXCEPT ![Master(f)] = Held(lock[Master(f)], b)] /\ has' = [has EXCEPT ![f] = b]
          /\ lock[Master(f)].ctx = f /\ st[f] = "open"
          /\ b => ~lock[Master(f)].held
          /\ ~b => ~lock[Master(f)].cont
    <2>1. CASE FastLock(f)
      BY <2>1 DEF FastLock, Held
    <2>2. CASE FastUnlock(f)
      BY <2>2 DEF FastUnlock, Held
    <2> QED BY <2>1, <2>2
  <1>2. IsOpen(f) /\ st' = st /\ \A g \in Files : Master(g)' = Master(g)
    BY <1>1 DEF FastLock, FastUnlock, IsOpen, Master
  <1>3. PICK m \in Masters : Master(f) = m
    BY <1>2, OpenFacts
  <1>4. lock \in [Masters -> LockRec] /\ TypeOK /\ f # NoFile
    BY Recs, FileAssumption DEF FileInv, FileAssumption
  <1>5. /\ \A n \in Masters \ {m} : lock'[n] = lock[n]
        /\ lock'[m].hw = lock[m].hw /\ lock'[m].held = b /\ lock'[m].cont = lock[m].cont /\ lock'[m].ctx = f
    BY <1>1, <1>3, <1>4, SetHeld
  <1>6. has'[f] = b /\ \A g \in Files \ {f} : has'[g] = has[g]
    BY <1>1, <1>4 DEF TypeOK
  <1>7. \A g \in Files : has[g] => Master(g) \in Masters
    BY DEF FileInv, Settled
  <1>8. \A g \in Files : Master(g) = m /\ Lost(g)' => Lost(g)
    <2> SUFFICES ASSUME NEW g \in Files, Master(g) = m, Lost(g)' PROVE Lost(g)
      OBVIOUS
    <2>1. g # f
      BY <1>2, <1>3, <1>5, <1>6 DEF Lost
    <2>2. has[g] /\ lock[m].hw = "mapped" /\ lock[m].ctx # g
      BY <1>1, <1>2, <1>3, <1>5, <1>6, <2>1 DEF Lost
    <2> QED BY <2>2 DEF Lost
  <1>9. ~Orphan(m)'
    BY <1>4, <1>5 DEF Orphan
  <1>10. Stranded(m)' => Stranded(m)
    <2>1. Asleep(m)' = Asleep(m)
      BY <1>2 DEF Asleep
    <2>2. ~(lock[m].held /\ lock[m].cont /\ b = FALSE) /\ (b => ~lock[m].held)
      BY <1>1, <1>3
    <2>3. Promised(m) => Promised(m)'
      BY <1>2, <2>2 DEF Promised
    <2> QED BY <2>1, <2>3 DEF Stranded
  <1> QED BY <1>2, <1>3, <1>5, <1>6, <1>7, <1>8, <1>9, <1>10, OneLockKeeps

\* drm_unlock: of one's own lock, it wakes who waits; of another's, it seizes it.
LEMMA UnlockKeeps == ASSUME FileInv, NEW f \in Files, Unlock(f) PROVE Keeps
  <1>1. CASE lock[Master(f)].hw # "mapped"
    BY <1>1, PanicKeeps DEF Unlock
  <1>2. CASE lock[Master(f)].hw = "mapped"
    <2>1. /\ IsOpen(f) /\ st[f] = "open" /\ file' = file /\ has' = [has EXCEPT ![f] = FALSE]
          /\ lock' = [lock EXCEPT ![Master(f)] = Freed(lock[Master(f)])]
          /\ IF Others(f) THEN st' = st ELSE st' \in WakeUp(Master(f), st)
      BY <1>2 DEF Unlock, Ioctl, IsOpen
    <2>2. PICK m \in Masters : Master(f) = m
      BY <2>1, OpenFacts
    <2>3. lock \in [Masters -> LockRec] /\ TypeOK
      BY Recs DEF FileInv
    <2>4. (\A n \in Masters \ {m} : lock'[n] = lock[n]) /\ ~lock'[m].held
      BY <2>1, <2>2, <2>3, SetFreed
    <2>5. ~has'[f] /\ \A g \in Files \ {f} : has'[g] = has[g]
      BY <2>1, <2>3 DEF TypeOK
    <2>6. \A g \in Files : has[g] => Master(g) \in Masters
      BY DEF FileInv, Settled
    <2>7. /\ \A g \in Files : st'[g] = st[g] \/ (g \in Asleep(m) /\ st'[g] = "woken")
          /\ Asleep(m) # {} /\ ~Others(f) => \E g \in Asleep(m) : st'[g] = "woken"
      BY <2>1, <2>2, WakeUpWakes
    <2>8. ~Orphan(m)'
      BY <2>4 DEF Orphan
    <2>9. CASE Others(f)
      <3>1. Seized
        BY <2>9 DEF Seized
      <3> QED BY <2>1, <2>2, <2>4, <2>5, <2>6, <2>8, <2>9, <3>1, OneLockKeeps DEF Master
    <2>10. CASE ~Others(f)
      <3>1. \A g \in Files : Master(g) = m /\ Lost(g)' => Lost(g)
        <4> SUFFICES ASSUME NEW g \in Files, Master(g) = m, Lost(g)' PROVE Lost(g)
          OBVIOUS
        <4>1. g # f /\ has[g]
          BY <2>5 DEF Lost
        <4>2. ~(lock[m].held /\ lock[m].ctx = g)
          BY <2>2, <2>10, <4>1 DEF Others
        <4> QED BY <1>2, <2>2, <4>1, <4>2 DEF Lost
      <3>2. ~Stranded(m)'
        <4>1. Asleep(m)' \subseteq Asleep(m)
          BY <2>1, <2>7 DEF Asleep, Master
        <4>2. Asleep(m) # {} => \E g \in Files : st'[g] = "woken" /\ Master(g)' = m
          BY <2>1, <2>7, <2>10 DEF Asleep, Master
        <4> QED BY <4>1, <4>2 DEF Stranded, Promised
      <3>3. \A g \in Files : Master(g) # m => st'[g] = st[g]
        BY <2>7 DEF Asleep
      <3> QED BY <2>1, <2>2, <2>4, <2>5, <2>6, <2>8, <3>1, <3>2, <3>3, OneLockKeeps DEF Master
    <2> QED BY <2>9, <2>10
  <1> QED BY <1>1, <1>2

---------------------------------------------------------------------------
(* drm_release                                                             *)

\* LockAfter: the lock l when f is gone, freed if fr, and out of reach if go.
After(l, f, fr, go) ==
    LET freed == IF fr THEN Freed(l) ELSE l
        gone == IF go /\ l.hw = "mapped" THEN [freed EXCEPT !.hw = "gone", !.file_priv = NoFile] ELSE freed
    IN  [gone EXCEPT !.ctx = IF @ = f THEN NoFile ELSE @]

\* What is left of the lock when its master, or one of its clients, is gone.
LEMMA Afters ==
    ASSUME NEW l \in LockRec, NEW f \in Files, NEW fr \in BOOLEAN, NEW go \in BOOLEAN
    PROVE  /\ After(l, f, fr, go) \in LockRec
           /\ After(l, f, fr, go).hw = IF go /\ l.hw = "mapped" THEN "gone" ELSE l.hw
           /\ After(l, f, fr, go).held = (l.held /\ ~fr) /\ After(l, f, fr, go).cont = (l.cont /\ ~fr)
           /\ After(l, f, fr, go).ctx = IF l.ctx = f THEN NoFile ELSE l.ctx
           /\ ~(go /\ l.hw = "mapped") => After(l, f, fr, go).file_priv = l.file_priv
           /\ l = NoLock /\ ~fr => After(l, f, fr, go) = NoLock
  <1>1. PICK r \in LockRec : /\ r = IF fr THEN Freed(l) ELSE l
                             /\ r.hw = l.hw /\ r.held = (l.held /\ ~fr) /\ r.cont = (l.cont /\ ~fr)
                             /\ r.ctx = l.ctx /\ r.file_priv = l.file_priv
    <2>1. CASE fr
      BY <2>1, SetFreed DEF LockRec
    <2>2. CASE ~fr
      BY <2>2 DEF LockRec
    <2> QED BY <2>1, <2>2
  <1>2. PICK q \in LockRec : /\ q = IF go /\ l.hw = "mapped" THEN [r EXCEPT !.hw = "gone", !.file_priv = NoFile] ELSE r
                             /\ q.hw = IF go /\ l.hw = "mapped" THEN "gone" ELSE r.hw
                             /\ q.held = r.held /\ q.cont = r.cont /\ q.ctx = r.ctx
                             /\ ~(go /\ l.hw = "mapped") => q.file_priv = r.file_priv
    <2>1. [r EXCEPT !.hw = "gone", !.file_priv = NoFile] \in LockRec
      BY DEF LockRec
    <2> QED BY <2>1 DEF LockRec
  <1>3. PICK c \in Files \cup {NoFile} : c = IF q.ctx = f THEN NoFile ELSE q.ctx
    BY DEF LockRec
  <1>4. After(l, f, fr, go) = [q EXCEPT !.ctx = c]
    BY <1>1, <1>2, <1>3 DEF After
  <1>5. LET r1 == [q EXCEPT !.ctx = c]
        IN  r1 \in LockRec /\ r1.hw = q.hw /\ r1.held = q.held /\ r1.cont = q.cont /\ r1.ctx = c /\ r1.file_priv = q.file_priv
    BY DEF LockRec
  <1>6. ASSUME l = NoLock, ~fr PROVE After(l, f, fr, go) = NoLock
    <2>1. r = NoLock /\ q = NoLock /\ c = NoFile
      BY <1>1, <1>2, <1>3, <1>6 DEF NoLock
    <2> QED BY <1>4, <2>1 DEF NoLock
  <1> QED BY <1>1, <1>2, <1>3, <1>4, <1>5, <1>6

\* drm_release: the file's references, magic number and lock go with it, and the lock is
\* freed, unless the minor has no master, and who waits for it wakes.
LEMMA ReleaseInv == ASSUME FileInv, NEW f \in Files, Release(f) PROVE FileInv' /\ Keeps
  <1>1. /\ st[f] = "open" /\ IsOpen(f) /\ has' = [has EXCEPT ![f] = FALSE] /\ seen' = [seen EXCEPT ![f] = count]
        /\ count' = count /\ ready' = ready /\ sequence' = sequence /\ panic' = panic
    BY DEF Release, Ioctl, IsOpen
  <1>2. PICK m \in Masters : Master(f) = m /\ ref[m] # 0 /\ Cardinality(Users(m)) >= 1
    BY <1>1, OpenFacts
  <1>3. TypeOK /\ file \in [Files -> FileRec] /\ lock \in [Masters -> LockRec] /\ m # NoMaster
    BY Recs, FileAssumption DEF FileInv, FileAssumption
  <1>4. PICK is \in BOOLEAN : is = file[f].is_master
    BY <1>3 DEF FileRec
  <1>5. is => minor = m
    BY <1>2, <1>4 DEF FileInv, Mastered
  <1>6. PICK fr \in BOOLEAN : fr = (minor # NoMaster /\ IHaveHwLock(f))
    OBVIOUS
  <1>7. PICK drops \in {1, 2} : drops = IF is THEN 2 ELSE 1
    OBVIOUS
  \* What the step does, in those terms.
  <1>8. /\ ref' = [ref EXCEPT ![m] = @ - drops]
        /\ minor' = IF is THEN NoMaster ELSE minor
        /\ magics' = IF ref[m] = drops THEN [magics EXCEPT ![m] = [k \in Magics |-> NoFile]] ELSE DropMagic(f)
        /\ lock' = [lock EXCEPT ![m] = IF ref[m] = drops THEN NoLock ELSE LockAfter(f)]
        /\ file' = [g \in Files |->
              IF g = f THEN NewFile ELSE [file[g] EXCEPT !.authenticated = @ /\ ~(is /\ Master(g) = m)]]
        /\ \E s \in IF is /\ lock[m].hw = "mapped"
                    THEN {[g \in Files |-> IF g \in Asleep(m) THEN "woken" ELSE st[g]]}
                    ELSE IF fr THEN WakeUp(m, st) ELSE {st} :
             st' = [s EXCEPT ![f] = "closing"]
    BY <1>2, <1>4, <1>5, <1>6, <1>7 DEF Release
  <1>9. /\ file' \in [Files -> FileRec] /\ file'[f] = NewFile
        /\ \A g \in Files \ {f} : /\ file'[g].master = file[g].master /\ file'[g].is_master = file[g].is_master
                                  /\ file'[g].magic = file[g].magic /\ file'[g].lock_count = file[g].lock_count
    <2>1. ASSUME NEW g \in Files \ {f}
          PROVE  /\ file'[g] \in FileRec
                 /\ file'[g].master = file[g].master /\ file'[g].is_master = file[g].is_master
                 /\ file'[g].magic = file[g].magic /\ file'[g].lock_count = file[g].lock_count
      <3>1. PICK b \in BOOLEAN : b = (file[g].authenticated /\ ~(is /\ Master(g) = m))
        OBVIOUS
      <3>2. file'[g] = [file[g] EXCEPT !.authenticated = b]
        BY <1>8, <3>1
      <3> QED BY <1>3, <3>2, SetAuthenticated
    <2>2. file'[f] = NewFile /\ DOMAIN file' = Files /\ file' = [g \in Files |-> file'[g]]
      BY <1>8
    <2> QED BY <2>1, <2>2, NewRecs
  <1>10. /\ st' \in [Files -> {"closed", "counting", "opening", "open", "asleep", "woken", "closing"}]
         /\ st'[f] = "closing"
         /\ \A g \in Files \ {f} : st'[g] = st[g] \/ (g \in Asleep(m) /\ st'[g] = "woken")
         /\ is /\ lock[m].hw = "mapped" => \A g \in Asleep(m) : st'[g] = "woken"
         /\ fr /\ Asleep(m) # {} => \E g \in Asleep(m) : st'[g] = "woken"
    <2>1. PICK s : /\ st' = [s EXCEPT ![f] = "closing"]
                   /\ s \in IF is /\ lock[m].hw = "mapped"
                            THEN {[g \in Files |-> IF g \in Asleep(m) THEN "woken" ELSE st[g]]}
                            ELSE IF fr THEN WakeUp(m, st) ELSE {st}
      BY <1>8
    <2>2. st \in [Files -> {"closed", "counting", "opening", "open", "asleep", "woken", "closing"}]
      BY <1>3 DEF TypeOK
    <2>3. Asleep(m) \subseteq Files \ {f}
      BY <1>1 DEF Asleep
    <2>4. /\ s \in [Files -> {"closed", "counting", "opening", "open", "asleep", "woken", "closing"}]
          /\ \A g \in Files : s[g] = st[g] \/ (g \in Asleep(m) /\ s[g] = "woken")
          /\ is /\ lock[m].hw = "mapped" => \A g \in Asleep(m) : s[g] = "woken"
          /\ fr /\ Asleep(m) # {} => \E g \in Asleep(m) : s[g] = "woken"
      <3>1. CASE is /\ lock[m].hw = "mapped"
        <4>1. s = [g \in Files |-> IF g \in Asleep(m) THEN "woken" ELSE st[g]]
          BY <2>1, <3>1
        <4> QED BY <2>2, <2>3, <4>1
      <3>2. CASE ~(is /\ lock[m].hw = "mapped") /\ fr
        <4>1. s \in WakeUp(m, st)
          BY <2>1, <3>2
        <4>2. /\ s \in [Files -> {"woken"} \cup {st[g] : g \in Files}]
              /\ \A g \in Files : s[g] = st[g] \/ (g \in Asleep(m) /\ s[g] = "woken")
              /\ Asleep(m) # {} => \E g \in Asleep(m) : s[g] = "woken"
          BY <4>1, WakeUpWakes
        <4>3. {"woken"} \cup {st[g] : g \in Files} \subseteq {"closed", "counting", "opening", "open", "asleep", "woken", "closing"}
          BY <2>2
        <4>4. s \in [Files -> {"closed", "counting", "opening", "open", "asleep", "woken", "closing"}]
          BY <4>2, <4>3
        <4> QED BY <3>2, <4>2, <4>4
      <3>3. CASE ~(is /\ lock[m].hw = "mapped") /\ ~fr
        BY <2>1, <2>2, <3>3
      <3> QED BY <3>1, <3>2, <3>3
    <2> QED BY <2>1, <2>3, <2>4
  <1>11. ~has'[f] /\ \A g \in Files \ {f} : has'[g] = has[g]
    BY <1>1, <1>3 DEF TypeOK
  <1>12. /\ ~IsOpen(f)' /\ Master(f)' = NoMaster
         /\ \A g \in Files \ {f} : (IsOpen(g)' <=> IsOpen(g)) /\ Master(g)' = Master(g)
    BY <1>9, <1>10, NewRecs DEF IsOpen, Master, Asleep
  \* The users and the references of m.
  <1>13. ref[m] = Cardinality(Users(m)) + One(minor = m) /\ One(minor = m) \in {0, 1} /\ (minor = m => One(minor = m) = 1)
    BY DEF FileInv, Counted, One
  <1>14. ref[m] \in Nat /\ ref[m] >= drops /\ (ref[m] = drops => Cardinality(Users(m)) = 1)
    BY <1>2, <1>5, <1>7, <1>13, UsersFinite
  <1>15. /\ ref' \in [Masters -> Nat] /\ ref'[m] = ref[m] - drops /\ \A n \in Masters \ {m} : ref'[n] = ref[n]
    <2>1. ref \in [Masters -> Nat]
      BY <1>3 DEF TypeOK
    <2>2. PICK v \in Nat : v = ref[m] - drops
      BY <1>14
    <2>3. ref' = [ref EXCEPT ![m] = v]
      BY <1>8, <2>2
    <2> QED BY <2>1, <2>2, <2>3
  <1>16. ref[m] = drops => Users(m) = {f}
    <2>1. ASSUME ref[m] = drops PROVE Users(m) = {f}
      <3>1. f \in Users(m)
        BY <1>1, <1>2 DEF Users
      <3>2. IsFiniteSet(Users(m) \ {f}) /\ Cardinality(Users(m) \ {f}) = Cardinality(Users(m)) - 1
        BY <3>1, UsersFinite, FS_RemoveElement
      <3>3. Cardinality(Users(m) \ {f}) = 0
        BY <1>14, <2>1, <3>2
      <3>4. Users(m) \ {f} = {}
        BY <3>2, <3>3, FS_EmptySet
      <3> QED BY <3>1, <3>4
    <2> QED BY <2>1
  <1>17. /\ magics' \in [Masters -> [Magics -> Files \cup {NoFile}]]
         /\ \A n \in Masters \ {m} : magics'[n] = magics[n]
         /\ ref[m] = drops => \A k \in Magics : magics'[m][k] = NoFile
         /\ \A k \in Magics : magics'[m][k] = NoFile \/ (magics'[m][k] = magics[m][k] /\ k # file[f].magic)
    <2>1. magics \in [Masters -> [Magics -> Files \cup {NoFile}]]
      BY <1>3 DEF TypeOK
    <2>2. CASE ref[m] = drops
      BY <1>8, <2>1, <2>2
    <2>3. CASE ref[m] # drops /\ file[f].magic = NoMagic
      <3>1. \A k \in Magics : k # NoMagic
        BY FileAssumption DEF Magics, NoMagic, FileAssumption
      <3> QED BY <1>8, <2>1, <2>3, <3>1 DEF DropMagic
    <2>4. CASE ref[m] # drops /\ file[f].magic # NoMagic
      <3>1. magics' = [magics EXCEPT ![m][file[f].magic] = NoFile] /\ file[f].magic \in Magics
        BY <1>2, <1>3, <1>8, <2>4 DEF DropMagic, FileRec
      <3> QED BY <2>1, <2>4, <3>1
    <2> QED BY <2>2, <2>3, <2>4
  <1>18. /\ lock' \in [Masters -> LockRec] /\ \A n \in Masters \ {m} : lock'[n] = lock[n]
         /\ ref[m] = drops => lock'[m] = NoLock
         /\ ref[m] # drops => lock'[m] = After(lock[m], f, fr, is)
    <2>1. LockAfter(f) = After(lock[m], f, fr, is)
      BY <1>2, <1>4, <1>6 DEF LockAfter, After
    <2>2. After(lock[m], f, fr, is) \in LockRec
      BY <1>3, Afters
    <2> QED BY <1>3, <1>8, <2>1, <2>2, NewRecs
  <1>19. TypeOK'
    <2>1. count' \in Int /\ ready' \in BOOLEAN /\ minor' \in Masters \cup {NoMaster} /\ seen' \in [Files -> Int]
          /\ has' \in [Files -> BOOLEAN] /\ sequence' \in 1 .. (MaxMagic + 1) /\ panic' \in BOOLEAN
      BY <1>1, <1>3, <1>8 DEF TypeOK
    <2> QED BY <1>9, <1>10, <1>15, <1>17, <1>18, <2>1 DEF TypeOK, FileRec, LockRec
  <1>20. Counted'
    <2>1. Users(m)' = Users(m) \ {f} /\ \A n \in Masters \ {m} : Users(n)' = Users(n)
      BY <1>2, <1>12 DEF Users
    <2>2. Cardinality(Users(m)') = Cardinality(Users(m)) - 1
      <3>1. f \in Users(m)
        BY <1>1, <1>2 DEF Users
      <3> QED BY <2>1, <3>1, UsersFinite, FS_RemoveElement
    <2>3. ASSUME NEW n \in Masters PROVE ref'[n] = Cardinality(Users(n)') + One(minor' = n)
      <3>1. ref[n] = Cardinality(Users(n)) + One(minor = n)
        BY DEF FileInv, Counted
      <3>2. One(minor' = n) = (IF is THEN 0 ELSE One(minor = n)) /\ (is => One(minor = n) = IF n = m THEN 1 ELSE 0)
        BY <1>3, <1>5, <1>8, FileAssumption DEF One, FileAssumption
      <3>3. CASE n = m
        BY <1>5, <1>7, <1>13, <1>15, <2>2, <3>1, <3>2, <3>3, UsersFinite
      <3>4. CASE n # m
        BY <1>15, <2>1, <3>1, <3>2, <3>4, UsersFinite
      <3> QED BY <3>3, <3>4
    <2> QED BY <2>3 DEF Counted
  <1>21. Mastered'
    <2>1. Mastered
      BY DEF FileInv
    <2>2. \A g \in Files \ {f} : file[g].is_master => ~is
      BY <1>4, <2>1 DEF Mastered
    <2>3. ~file'[f].is_master
      BY <1>9, NewRecs
    <2>4. minor' # NoMaster => \E g \in Files \ {f} : file[g].is_master
      BY <1>4, <1>8, <2>1 DEF Mastered
    <2> QED BY <1>8, <1>9, <1>12, <2>1, <2>2, <2>3, <2>4 DEF Mastered
  <1>22. MagicsLead'
    <2> SUFFICES ASSUME NEW n \in Masters, NEW k \in Magics, NEW g \in Files, magics'[n][k] = g
                 PROVE  Leads(g, n, k)'
      BY DEF MagicsLead
    <2>1. magics[n][k] = g /\ (n = m => k # file[f].magic)
      BY <1>17, FileAssumption DEF FileAssumption
    <2>2. IsOpen(g) /\ Master(g) = n /\ file[g].magic = k
      BY <2>1 DEF FileInv, MagicsLead, Leads
    <2>3. g # f
      BY <1>2, <2>1, <2>2
    <2> QED BY <1>9, <1>12, <2>2, <2>3 DEF Leads
  <1>23. Unused'
    <2>1. ref'[m] = 0 => ref[m] = drops
      BY <1>14, <1>15
    <2> QED BY <1>15, <1>17, <1>18, <2>1 DEF FileInv, Unused
  <1>24. \A g \in Files : Settled(g)'
    <2>1. Settled(f)'
      BY <1>9, <1>10, <1>11, <1>12 DEF Settled
    <2>2. ASSUME NEW g \in Files \ {f} PROVE Settled(g)'
      <3>1. Settled(g)
        BY DEF FileInv
      <3>2. ~IsOpen(g) => file'[g] = file[g]
        <4>1. ASSUME ~IsOpen(g) PROVE file'[g] = file[g]
          <5>1. Master(g) # m /\ file[g] \in FileRec
            BY <1>3, <3>1, <4>1, NewRecs DEF Settled, Master
          <5>2. file'[g] = [file[g] EXCEPT !.authenticated = @ /\ TRUE]
            BY <1>8, <5>1
          <5> QED BY <5>1, <5>2 DEF FileRec
        <4> QED BY <4>1
      <3>3. st'[g] \in {"asleep", "woken"} => st[g] \in {"asleep", "woken"}
        BY <1>10 DEF Asleep
      <3> QED BY <1>9, <1>11, <1>12, <3>1, <3>2, <3>3 DEF Settled
    <2> QED BY <2>1, <2>2
  <1>25. ASSUME NEW n \in Masters, n # m PROVE LockFine(n)'
    <2>1. \A g \in Files : Master(g) = n => st'[g] = st[g] /\ g # f
      BY <1>2, <1>10, <1>25 DEF Asleep
    <2>2. Apart(n)
      BY <1>2, <1>9, <1>11, <1>12, <1>18, <1>25, <2>1, FileAssumption DEF Apart, FileAssumption
    <2> QED BY <2>2, ApartFine
  <1>26. LockFine(m)'
    <2>1. LockFine(m) /\ lock[m] \in LockRec
      BY <1>3 DEF FileInv
    <2>2. CASE ref[m] = drops
      <3>1. \A g \in Files : Master(g)' # m
        <4>1. \A g \in Files \ {f} : ~IsOpen(g) \/ Master(g) # m
          BY <1>16, <2>2 DEF Users
        <4>2. \A g \in Files : ~IsOpen(g) => Master(g) = NoMaster
          BY NewRecs DEF FileInv, Settled, Master
        <4> QED BY <1>3, <1>12, <4>1, <4>2
      <3>2. lock'[m] = NoLock
        BY <1>18, <2>2
      <3> QED BY <3>1, <3>2, NewRecs DEF LockFine, Asleep
    <2>3. CASE ref[m] # drops
      <3>1. /\ lock'[m].hw = IF is /\ lock[m].hw = "mapped" THEN "gone" ELSE lock[m].hw
            /\ lock'[m].ctx = IF lock[m].ctx = f THEN NoFile ELSE lock[m].ctx
            /\ ~(is /\ lock[m].hw = "mapped") => lock'[m].file_priv = lock[m].file_priv
            /\ lock[m] = NoLock /\ ~fr => lock'[m] = NoLock
        BY <1>3, <1>18, <2>3, Afters
      <3>2. Asleep(m)' \subseteq Asleep(m)
        BY <1>10, <1>12 DEF Asleep
      <3>3. CASE lock[m].hw = "none"
        <4>1. fr => lock[m].hw = "mapped"
          BY <1>2, <1>6 DEF IHaveHwLock
        <4>2. lock'[m] = NoLock /\ lock'[m].hw = "none" /\ lock[m] = NoLock
          BY <2>1, <3>1, <3>3, <4>1, NewRecs DEF LockFine
        <4> QED BY <2>1, <3>2, <3>3, <1>11, <1>12, <4>2 DEF LockFine
      <3>4. CASE lock[m].hw # "none" /\ lock'[m].hw # "mapped"
        <4>1. lock'[m].hw # "none"
          BY <3>1, <3>4
        <4>2. Asleep(m)' = {}
          <5>1. CASE lock[m].hw # "mapped"
            BY <2>1, <3>2, <5>1 DEF LockFine
          <5>2. CASE lock[m].hw = "mapped"
            <6>1. is /\ lock[m].hw = "mapped"
              BY <3>1, <3>4, <5>2
            <6> QED BY <1>10, <3>2, <6>1 DEF Asleep
          <5> QED BY <5>1, <5>2
        <4> QED BY <3>4, <4>1, <4>2 DEF LockFine
      <3>5. CASE lock'[m].hw = "mapped"
        <4>1. lock[m].hw = "mapped" /\ lock'[m].file_priv = lock[m].file_priv
          BY <3>1, <3>5
        <4>2. ASSUME lock'[m].ctx # NoFile
              PROVE  lock[m].ctx # f /\ lock[m].ctx \in Files /\ lock'[m].ctx = lock[m].ctx
          BY <2>1, <3>1, <4>2 DEF LockRec
        <4> QED BY <1>9, <1>12, <2>1, <3>5, <4>1, <4>2 DEF LockFine
      <3> QED BY <3>1, <3>3, <3>4, <3>5
    <2> QED BY <2>2, <2>3
  <1>27. /\ \A n \in Masters \ {m} : lock'[n] = lock[n]
         /\ \A g \in Files : Master(g)' = Master(g) \/ (~has'[g] /\ st'[g] \notin {"asleep", "woken"}
                                                         /\ Master(g) = m /\ Master(g)' \notin Masters)
         /\ \A g \in Files : Master(g) # m => has'[g] = has[g] /\ st'[g] = st[g]
         /\ \A g \in Files : has[g] => Master(g) \in Masters
    BY <1>2, <1>10, <1>11, <1>12, <1>18, FileAssumption DEF FileInv, Settled, Asleep, FileAssumption
  <1>28. Keeps
    <2>1. CASE ref[m] = drops
      <3>1. \A g \in Files : Master(g) = m => ~Lost(g)'
        BY <1>11, <1>12, <1>18, <2>1, NewRecs DEF Lost
      <3>2. ~Orphan(m)'
        BY <1>18, <2>1, NewRecs DEF Orphan
      <3>3. ~Stranded(m)'
        BY <1>18, <1>26, <2>1, NewRecs DEF LockFine, Stranded
      <3> QED BY <3>1, <3>2, <3>3, <1>27, OneLockKeeps
    <2>2. CASE ref[m] # drops
      <3>1. /\ lock'[m].hw = IF is /\ lock[m].hw = "mapped" THEN "gone" ELSE lock[m].hw
            /\ lock'[m].held = (lock[m].held /\ ~fr) /\ lock'[m].cont = (lock[m].cont /\ ~fr)
            /\ lock'[m].ctx = IF lock[m].ctx = f THEN NoFile ELSE lock[m].ctx
        BY <1>3, <1>18, <2>2, Afters
      <3>2. LockFine(m) /\ lock[m] \in LockRec
        BY <1>3 DEF FileInv
      \* The lock is freed for f if it is mapped, held for f, and the minor has a master.
      <3>3. fr => lock[m].hw = "mapped" /\ lock[m].file_priv = f
        BY <1>2, <1>6 DEF IHaveHwLock
      <3>4. lock[m].hw = "mapped" /\ lock[m].held /\ lock[m].ctx = f => fr \/ minor = NoMaster
        BY <1>2, <1>6, <3>2, FileAssumption DEF IHaveHwLock, LockFine, FileAssumption
      <3>5. \A g \in Files : Master(g) = m /\ Lost(g)' => Lost(g)
        <4> SUFFICES ASSUME NEW g \in Files, Master(g) = m, Lost(g)' PROVE Lost(g)
          OBVIOUS
        <4>1. g # f /\ has[g] /\ g # NoFile
          BY <1>11, FileAssumption DEF Lost, FileAssumption
        <4>2. lock[m].hw = "mapped"
          BY <1>2, <1>12, <3>1, <4>1 DEF Lost
        <4>3. lock[m].ctx = g => ~fr
          BY <3>2, <3>3, <4>1, <4>2 DEF LockFine
        <4>4. ~(lock[m].held /\ lock[m].ctx = g)
          BY <1>12, <3>1, <4>1, <4>3 DEF Lost
        <4> QED BY <4>1, <4>2, <4>4 DEF Lost
      <3>6. Orphan(m)' => Orphan(m) \/ minor = NoMaster
        BY <3>1, <3>4 DEF Orphan
      <3>7. Stranded(m)' => Stranded(m) \/ Orphan(m)'
        <4> SUFFICES ASSUME Stranded(m)', Promised(m) PROVE Orphan(m)'
          BY <1>10, <1>12 DEF Stranded, Asleep
        <4>1. Asleep(m)' \subseteq Asleep(m) /\ Asleep(m)' # {}
          BY <1>10, <1>12 DEF Stranded, Asleep
        <4>2. \A g \in Files : Master(g) = m => st'[g] # "woken" \/ g = f
          BY <1>12 DEF Stranded, Promised
        <4>3. \A g \in Asleep(m) : g \in Files \ {f} /\ Master(g) = m
          BY <1>1 DEF Asleep
        <4>4. ~fr /\ ~(is /\ lock[m].hw = "mapped")
          BY <1>10, <4>1, <4>2, <4>3
        <4>5. lock[m].held /\ lock[m].cont /\ lock[m].ctx # NoFile
          BY <1>1, <1>10, <4>2 DEF Promised, Asleep
        <4>6. lock[m].ctx = f
          BY <3>1, <4>4, <4>5 DEF Stranded, Promised
        <4>7. lock[m].hw = "mapped"
          BY <3>2, <4>1 DEF LockFine
        <4> QED BY <3>1, <4>4, <4>5, <4>6, <4>7 DEF Orphan
      <3> QED BY <1>27, <3>5, <3>6, <3>7, OneLockKeeps
    <2> QED BY <2>1, <2>2
  <1> QED BY <1>19, <1>20, <1>21, <1>22, <1>23, <1>24, <1>25, <1>26, <1>28 DEF FileInv

---------------------------------------------------------------------------
(* The theorems                                                            *)

\* Nobody has opened the device.
Blank ==
    /\ count = 0 /\ ready = FALSE /\ minor = NoMaster
    /\ st = [f \in Files |-> "closed"] /\ seen = [f \in Files |-> 0]
    /\ file = [f \in Files |-> NewFile] /\ ref = [m \in Masters |-> 0]
    /\ magics = [m \in Masters |-> [k \in Magics |-> NoFile]]
    /\ lock = [m \in Masters |-> NoLock] /\ has = [f \in Files |-> FALSE]
    /\ sequence = 1 /\ panic \in BOOLEAN

\* Then the invariant holds.
LEMMA BlankInv == Blank => FileInv
  <1> SUFFICES ASSUME Blank PROVE FileInv
    OBVIOUS
  <1>1. TypeOK
    <2>1. file \in [Files -> FileRec] /\ lock \in [Masters -> LockRec]
      BY NewRecs DEF Blank
    <2>2. sequence \in 1 .. (MaxMagic + 1)
      BY FileAssumption DEF Blank, FileAssumption
    <2>3. /\ count = 0 /\ ready = FALSE /\ minor = NoMaster
          /\ st = [f \in Files |-> "closed"] /\ seen = [f \in Files |-> 0] /\ ref = [m \in Masters |-> 0]
          /\ magics = [m \in Masters |-> [k \in Magics |-> NoFile]] /\ has = [f \in Files |-> FALSE]
      BY DEF Blank
    <2>4. /\ st \in [Files -> {"closed", "counting", "opening", "open", "asleep", "woken", "closing"}]
          /\ seen \in [Files -> Int] /\ ref \in [Masters -> Nat] /\ has \in [Files -> BOOLEAN]
          /\ magics \in [Masters -> [Magics -> Files \cup {NoFile}]]
      BY <2>3
    <2>5. count \in Int /\ minor \in Masters \cup {NoMaster}
      BY <2>3
    <2>6. ready \in BOOLEAN
      BY <2>3, Zenon
    <2>7. panic \in BOOLEAN
      BY DEF Blank
    <2> QED BY <2>1, <2>2, <2>4, <2>5, <2>6, <2>7 DEF TypeOK, FileRec, LockRec
  <1>2. \A f \in Files : st[f] = "closed" /\ ~IsOpen(f) /\ file[f] = NewFile /\ ~has[f] /\ Master(f) = NoMaster
    BY NewRecs DEF Blank, IsOpen, Master
  <1>3. \A m \in Masters : m # NoMaster /\ ref[m] = 0 /\ lock[m] = NoLock /\ minor = NoMaster /\ \A k \in Magics : magics[m][k] = NoFile
    BY FileAssumption DEF Blank, FileAssumption
  <1>4. Counted
    <2>1. \A m \in Masters : Users(m) = {}
      BY <1>2 DEF Users
    <2> QED BY <1>3, <2>1, FS_EmptySet DEF Counted, One
  <1>5. Mastered
    BY <1>2, NewRecs DEF Blank, Mastered
  <1>6. MagicsLead /\ Unused
    BY <1>3, FileAssumption DEF MagicsLead, Unused, FileAssumption
  <1>7. \A f \in Files : Settled(f)
    BY <1>2 DEF Settled
  <1>8. \A m \in Masters : LockFine(m)
    BY <1>2, <1>3, NewRecs DEF LockFine, Asleep
  <1> QED BY <1>1, <1>4, <1>5, <1>6, <1>7, <1>8 DEF FileInv

\* At first.
LEMMA InitInv == Init => FileInv
  BY BlankInv DEF Init, Blank
\* The kernel has followed a NULL hw_lock: everything is as at first.
LEMMA PanicInv == Panic => FileInv'
  <1>1. Panic => Blank'
    BY DEF Panic, Blank
  <1> QED BY <1>1, BlankInv, PTL

\* drm_lock, also before there is a lock.
LEMMA LockInv == ASSUME FileInv, NEW f \in Files, Lock(f) PROVE FileInv'
  <1>1. CASE lock[Master(f)].hw = "mapped"
    <2>1. /\ IsOpen(f) /\ Take(f) /\ file' = [file EXCEPT ![f].lock_count = TRUE]
          /\ count' = count /\ ready' = ready /\ minor' = minor /\ seen' = seen
          /\ ref' = ref /\ magics' = magics /\ sequence' = sequence /\ panic' = panic
      BY <1>1 DEF Lock, Ioctl, IsOpen, devVars, masterVars
    <2>2. file \in [Files -> FileRec]
      BY Recs DEF FileInv
    <2>3. /\ file' \in [Files -> FileRec] /\ \A g \in Files \ {f} : file'[g] = file[g]
          /\ file'[f].magic = file[f].magic /\ file'[f].master = file[f].master
          /\ file'[f].is_master = file[f].is_master /\ file'[f].lock_count
      BY <2>1, <2>2, SetLockCount
    <2> QED BY <1>1, <2>1, <2>3, TakeInv
  <1>2. CASE lock[Master(f)].hw # "mapped"
    BY <1>2, PanicInv DEF Lock
  <1> QED BY <1>1, <1>2
\* drm_lock, back from its sleep.
LEMMA LockRetryInv == ASSUME FileInv, NEW f \in Files, LockRetry(f) PROVE FileInv'
  <1>1. CASE lock[Master(f)].hw = "mapped"
    <2>1. /\ st[f] = "woken" /\ IsOpen(f) /\ Take(f) /\ file' = file
          /\ count' = count /\ ready' = ready /\ minor' = minor /\ seen' = seen
          /\ ref' = ref /\ magics' = magics /\ sequence' = sequence /\ panic' = panic
      BY <1>1 DEF LockRetry, IsOpen, devVars, masterVars
    <2>2. file \in [Files -> FileRec] /\ file[f].lock_count
      BY <2>1, Recs DEF FileInv, Settled
    <2> QED BY <1>1, <2>1, <2>2, TakeInv
  <1>2. CASE lock[Master(f)].hw # "mapped"
    BY <1>2, PanicInv DEF LockRetry
  <1> QED BY <1>1, <1>2

\* drm_unlock, also before there is a lock.
LEMMA UnlocksInv == ASSUME FileInv, NEW f \in Files, Unlock(f) PROVE FileInv'
  <1>1. CASE lock[Master(f)].hw # "mapped"
    BY <1>1, PanicInv DEF Unlock
  <1> QED BY <1>1, UnlockInv

\* A step that changes nothing keeps everything.
LEMMA StutterInv == ASSUME FileInv, UNCHANGED vars PROVE FileInv'
  <1>1. /\ count' = count /\ ready' = ready /\ minor' = minor /\ st' = st /\ seen' = seen /\ file' = file
        /\ ref' = ref /\ magics' = magics /\ lock' = lock /\ has' = has /\ sequence' = sequence /\ panic' = panic
    BY DEF vars, devVars, masterVars, lockVars
  <1>2. TypeOK'
    BY <1>1 DEF FileInv, TypeOK
  <1>3. Counted' /\ Mastered' /\ MagicsLead' /\ Unused'
    BY <1>1 DEF FileInv, Counted, Mastered, MagicsLead, Unused, Leads, Users, IsOpen, Master
  <1> QED BY <1>1, <1>2, <1>3, NoLockStep DEF Master

\* The strengthening of FileSafe that every step keeps, and that LockSafe rests on.
THEOREM FileInvariant == Spec => []FileInv
  <1>1. FileInv /\ [Next]_vars => FileInv'
    <2> SUFFICES ASSUME FileInv, [Next]_vars PROVE FileInv'
      OBVIOUS
    <2>1. CASE UNCHANGED vars
      BY <2>1, StutterInv
    <2>2. ASSUME NEW f \in Files,
                 \/ OpenRead(f) \/ OpenWrite(f) \/ OpenHelper(f) \/ OpenFails(f)
                 \/ SetMaster(f) \/ DropMaster(f) \/ GetMagic(f) \/ AuthMagic(f)
                 \/ AddLock(f) \/ Lock(f) \/ LockRetry(f) \/ LockInterrupted(f)
                 \/ FastLock(f) \/ FastUnlock(f) \/ Unlock(f)
                 \/ Release(f) \/ ReleaseCount(f)
          PROVE  FileInv'
      BY <2>2, QuietSteps, OpenHelperInv, SetMasterInv, DropMasterInv, GetMagicInv, AuthMagicInv, AddLockInv,
         LockInv, LockRetryInv, LockInterruptedInv, FastInv, UnlocksInv, ReleaseInv
    <2> QED BY <2>1, <2>2 DEF Next
  <1> QED BY InitInv, <1>1, PTL DEF Spec

\* Files, their masters and their magic numbers agree, whatever the order of opens, closes and
\* gifts of mastership: no master is freed while a file or the minor points to it, one file at
\* most is the master, and a magic number leads to the open client it was given to.
THEOREM FilesAgree == Spec => []FileSafe
  <1>1. FileInv => FileSafe
    <2> SUFFICES ASSUME FileInv PROVE FileSafe
      OBVIOUS
    <2>1. MasterCounted
      <3>1. \A m \in Masters : ref[m] = Cardinality({f \in Files : IsOpen(f) /\ Master(f) = m})
                                        + (IF minor = m THEN 1 ELSE 0)
        BY DEF FileInv, Counted, Users, One
      <3>2. \A f \in Files : IsOpen(f) => Master(f) # NoMaster
        BY FileAssumption DEF FileInv, Settled, FileAssumption
      <3> QED BY <3>1, <3>2 DEF MasterCounted
    <2>2. OneMaster
      <3>1. CASE \E f \in Files : file[f].is_master
        <4>1. PICK f \in Files : file[f].is_master
          BY <3>1
        <4>2. {g \in Files : file[g].is_master} = {f}
          BY <4>1 DEF FileInv, Mastered
        <4>3. Cardinality({g \in Files : file[g].is_master}) <= 1
          BY <4>2, FS_Singleton
        <4> QED BY <4>3 DEF FileInv, Mastered, OneMaster
      <3>2. CASE ~\E f \in Files : file[f].is_master
        <4>1. {g \in Files : file[g].is_master} = {}
          BY <3>2
        <4>2. Cardinality({g \in Files : file[g].is_master}) <= 1
          BY <4>1, FS_EmptySet
        <4> QED BY <4>2 DEF FileInv, Mastered, OneMaster
      <3> QED BY <3>1, <3>2
    <2>3. MagicOwned
      BY DEF FileInv, MagicsLead, Leads, MagicOwned, TypeOK
    <2> QED BY <2>1, <2>2, <2>3 DEF FileSafe
  <1> QED BY FileInvariant, <1>1, PTL

\* The hardware lock is taken from nobody, is freed when its holder dies, and nobody sleeps for
\* it without a wakeup to come, but for the steps of which drm_lock.c:300 and drm_fops.c:564
\* make it otherwise: whatever clients die, are interrupted, seize it or lose their master.
THEOREM LockIsSafe == Spec => LockSafe
  <1>1. FileInv /\ [Next]_vars => [Keeps]_vars
    <2> SUFFICES ASSUME FileInv, Next PROVE Keeps
      OBVIOUS
    <2>1. PICK f \in Files :
             \/ OpenRead(f) \/ OpenWrite(f) \/ OpenHelper(f) \/ OpenFails(f)
             \/ SetMaster(f) \/ DropMaster(f) \/ GetMagic(f) \/ AuthMagic(f)
             \/ AddLock(f) \/ Lock(f) \/ LockRetry(f) \/ LockInterrupted(f)
             \/ FastLock(f) \/ FastUnlock(f) \/ Unlock(f)
             \/ Release(f) \/ ReleaseCount(f)
      BY DEF Next
    <2> QED BY <2>1, CalmSteps, AddLockKeeps, LockKeeps, FastKeeps, UnlockKeeps, ReleaseInv
  <1>2. Spec => [][Keeps]_vars
    BY FileInvariant, <1>1, PTL DEF Spec
  <1> QED BY <1>2 DEF LockSafe, Keeps, Seized
=============================================================================
