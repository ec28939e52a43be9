------------------------------ MODULE DrmFile ------------------------------
(***************************************************************************)
(* Opening and closing the device (drm/drm_fops.c): the open count, the    *)
(* master of the minor and the reference counts of masters (drm_stub.c),   *)
(* authentication by magic numbers (drm_auth.c) and the hardware lock that *)
(* the clients of a master share (drm_lock.c).                             *)
(*                                                                         *)
(* Grain: drm_global_mutex covers an ioctl, an open but for its count, and *)
(* a close; drm_lock gives it up while it sleeps.  Each file has one       *)
(* thread.  A file and a master are the memory they live in, used again.   *)
(***************************************************************************)
EXTENDS Integers, FiniteSets

CONSTANTS
    Files, Masters, NoFile, NoMaster,
    Root,        \* the files opened with CAP_SYS_ADMIN
    MaxMagic,    \* bound: magic numbers handed out
    Counts       \* bound: the values of dev->open_count with which opens go on

ASSUME FileAssumption ==
    /\ Root \subseteq Files /\ IsFiniteSet(Files) /\ NoFile \notin Files
    /\ NoMaster \notin Masters /\ MaxMagic \in Nat /\ Counts \subseteq Int

NoMagic == 0
Magics  == 1 .. MaxMagic

VARIABLES
    count,    \* dev->open_count
    ready,    \* drm_setup has run, and not drm_lastclose since
    minor,    \* minor->master
    st,       \* where each file is
    seen,     \* the open_count that drm_open or drm_release has read
    file,     \* struct drm_file
    ref,      \* master->refcount
    magics,   \* master->magiclist
    lock,     \* master->lock: hw_lock, what it points to, and file_priv
    has,      \* external: the clients that have taken the lock
    sequence, \* the next magic number
    panic     \* the kernel has followed a NULL hw_lock

devVars    == <<count, ready, minor>>
masterVars == <<ref, magics>>
lockVars   == <<lock, has>>
vars == <<devVars, st, seen, file, masterVars, lockVars, sequence, panic>>

Master(f) == file[f].master
NewFile   == [master |-> NoMaster, is_master |-> FALSE, authenticated |-> FALSE,
              magic |-> NoMagic, lock_count |-> FALSE]
NoLock    == [hw |-> "none", held |-> FALSE, cont |-> FALSE, ctx |-> NoFile,
              file_priv |-> NoFile]

\* A thread that closes keeps drm_global_mutex between two actions.
MutexFree == \A f \in Files : st[f] # "closing"
Ioctl(f)  == ~panic /\ st[f] = "open" /\ MutexFree
Asleep(m) == {f \in Files : st[f] = "asleep" /\ Master(f) = m}

Init ==
    /\ count = 0 /\ ready = FALSE /\ minor = NoMaster
    /\ st = [f \in Files |-> "closed"] /\ seen = [f \in Files |-> 0]
    /\ file = [f \in Files |-> NewFile]
    /\ ref = [m \in Masters |-> 0]
    /\ magics = [m \in Masters |-> [k \in Magics |-> NoFile]]
    /\ lock = [m \in Masters |-> NoLock] /\ has = [f \in Files |-> FALSE]
    /\ sequence = 1 /\ panic = FALSE

\* The kernel follows a NULL hw_lock: the machine is down and its state lost.
Panic ==
    /\ count' = 0 /\ ready' = FALSE /\ minor' = NoMaster
    /\ st' = [f \in Files |-> "closed"] /\ seen' = [f \in Files |-> 0]
    /\ file' = [f \in Files |-> NewFile]
    /\ ref' = [m \in Masters |-> 0]
    /\ magics' = [m \in Masters |-> [k \in Magics |-> NoFile]]
    /\ lock' = [m \in Masters |-> NoLock] /\ has' = [f \in Files |-> FALSE]
    /\ sequence' = 1 /\ panic' = TRUE

-----------------------------------------------------------------------------
(* drm_open                                                                *)

\* dev->open_count++ is done with no lock
OpenRead(f) ==
    /\ ~panic /\ st[f] = "closed" /\ count \in Counts
    /\ seen' = [seen EXCEPT ![f] = count]
    /\ st' = [st EXCEPT ![f] = "counting"]
    /\ UNCHANGED <<devVars, file, masterVars, lockVars, sequence, panic>>

OpenWrite(f) ==
    /\ ~panic /\ st[f] = "counting"
    /\ count' = seen[f] + 1
    /\ st' = [st EXCEPT ![f] = "opening"]
    /\ UNCHANGED <<ready, minor, seen, file, masterVars, lockVars, sequence, panic>>

\* drm_open_helper for the first client makes it the master; drm_setup
OpenHelper(f) ==
    /\ ~panic /\ st[f] = "opening" /\ MutexFree
    /\ \E m \in Masters :
         /\ IF minor = NoMaster THEN ref[m] = 0 ELSE m = minor
         /\ ref' = [ref EXCEPT ![m] = IF minor = NoMaster THEN 2 ELSE @ + 1]
         /\ minor' = m
         /\ file' = [file EXCEPT ![f] =
              [NewFile EXCEPT !.master = m, !.is_master = (minor = NoMaster),
                              !.authenticated = (f \in Root \/ minor = NoMaster)]]
    /\ ready' = (ready \/ seen[f] = 0)
    /\ st' = [st EXCEPT ![f] = "open"]
    /\ seen' = [seen EXCEPT ![f] = 0]
    /\ UNCHANGED <<count, magics, lockVars, sequence, panic>>

\* drm_open_helper fails (O_EXCL, powered down, no memory), and drm_open
\* returns without taking the count back.
OpenFails(f) ==
    /\ ~panic /\ st[f] = "opening" /\ MutexFree
    /\ st' = [st EXCEPT ![f] = "closed"]
    /\ seen' = [seen EXCEPT ![f] = 0]
    /\ UNCHANGED <<devVars, file, masterVars, lockVars, sequence, panic>>

-----------------------------------------------------------------------------
(* Masters and authentication                                              *)

\* Mutant: no reference for the minor
SetMasterUncounted(f) ==
    /\ Ioctl(f) /\ f \in Root /\ ~file[f].is_master /\ minor = NoMaster
    /\ minor' = Master(f)
    /\ file' = [file EXCEPT ![f].is_master = TRUE]
    /\ UNCHANGED <<count, ready, st, seen, masterVars, lockVars, sequence, panic>>

SetMaster(f) ==
    /\ Ioctl(f) /\ f \in Root /\ ~file[f].is_master /\ minor = NoMaster
    /\ minor' = Master(f)
    /\ ref' = [ref EXCEPT ![Master(f)] = @ + 1]
    /\ file' = [file EXCEPT ![f].is_master = TRUE]
    /\ UNCHANGED <<count, ready, st, seen, magics, lockVars, sequence, panic>>

\* Mutant: the file stays a master
DropKeepsMaster(f) ==
    /\ Ioctl(f) /\ f \in Root /\ file[f].is_master /\ minor # NoMaster
    /\ minor' = NoMaster
    /\ ref' = [ref EXCEPT ![minor] = @ - 1]
    /\ UNCHANGED <<count, ready, st, seen, file, magics, lockVars, sequence, panic>>

\* The reference dropped is not the last: the file has one of its own.
DropMaster(f) ==
    /\ Ioctl(f) /\ f \in Root /\ file[f].is_master /\ minor # NoMaster
    /\ minor' = NoMaster
    /\ ref' = [ref EXCEPT ![minor] = @ - 1]
    /\ file' = [file EXCEPT ![f].is_master = FALSE]
    /\ UNCHANGED <<count, ready, st, seen, magics, lockVars, sequence, panic>>

\* drm_getmagic and drm_add_magic, for a file that has no magic number yet
GetMagic(f) ==
    /\ Ioctl(f) /\ file[f].magic = NoMagic /\ sequence \in Magics
    /\ file' = [file EXCEPT ![f].magic = sequence]
    /\ magics' = [magics EXCEPT ![Master(f)][sequence] = f]
    /\ sequence' = sequence + 1
    /\ UNCHANGED <<devVars, st, seen, ref, lockVars, panic>>

\* drm_authmagic, for the master
AuthMagic(f) ==
    /\ Ioctl(f) /\ file[f].authenticated /\ file[f].is_master
    /\ \E k \in Magics :
         /\ magics[Master(f)][k] # NoFile
         /\ file' = [file EXCEPT ![magics[Master(f)][k]].authenticated = TRUE]
         /\ magics' = [magics EXCEPT ![Master(f)][k] = NoFile]
    /\ UNCHANGED <<devVars, st, seen, ref, lockVars, sequence, panic>>

-----------------------------------------------------------------------------
(* The hardware lock.  The word is in memory that the clients of a master  *)
(* map; a context stands for the one client that uses it.  No driver of    *)
(* this tree calls drm_idlelock_take, so there are no kernel_waiters.      *)

\* drm_addmap_core, _DRM_SHM with _DRM_CONTAINS_LOCK
AddLock(f) ==
    /\ Ioctl(f) /\ f \in Root /\ file[f].authenticated /\ file[f].is_master
    /\ lock[minor].hw = "none"
    /\ lock' = [lock EXCEPT ![minor].hw = "mapped"]
    /\ UNCHANGED <<devVars, st, seen, file, masterVars, has, sequence, panic>>

Waiters(m) == {g \in Files : st[g] \in {"asleep", "woken"} /\ Master(g) = m}

\* Mutant: a lock that is held is not marked contended
TakeUnmarked(f) ==
    LET m == Master(f)
    IN  IF lock[m].held
        THEN /\ st' = [st EXCEPT ![f] = "asleep"]
             /\ UNCHANGED lockVars
        ELSE /\ lock' = [lock EXCEPT ![m] =
                  [@ EXCEPT !.held = TRUE, !.cont = Waiters(m) \ {f} # {},
                            !.ctx = f, !.file_priv = f]]
             /\ has' = [has EXCEPT ![f] = TRUE]
             /\ st' = [st EXCEPT ![f] = "open"]

\* drm_lock_take, and what drm_lock does next
Take(f) ==
    LET m == Master(f)
    IN  IF lock[m].held
        THEN /\ lock' = [lock EXCEPT ![m].cont = TRUE]
             /\ st' = [st EXCEPT ![f] = "asleep"]
             /\ UNCHANGED has
        ELSE /\ lock' = [lock EXCEPT ![m] =
                  [@ EXCEPT !.held = TRUE, !.cont = Waiters(m) \ {f} # {},
                            !.ctx = f, !.file_priv = f]]
             /\ has' = [has EXCEPT ![f] = TRUE]
             /\ st' = [st EXCEPT ![f] = "open"]

\* drm_lock, also before there is a lock, or by the client that has it and
\* then sleeps for itself.
Lock(f) ==
    /\ Ioctl(f) /\ file[f].authenticated
    /\ IF lock[Master(f)].hw = "mapped"
       THEN /\ Take(f)
            /\ file' = [file EXCEPT ![f].lock_count = TRUE]
            /\ UNCHANGED <<devVars, seen, masterVars, sequence, panic>>
       ELSE Panic

\* Back from sx_sleep: hw_lock is not looked at again on FreeBSD.
LockRetry(f) ==
    /\ ~panic /\ st[f] = "woken" /\ MutexFree
    /\ IF lock[Master(f)].hw = "mapped"
       THEN Take(f) /\ UNCHANGED <<devVars, seen, file, masterVars, sequence, panic>>
       ELSE Panic

LockInterrupted(f) ==
    /\ ~panic /\ st[f] = "asleep" /\ MutexFree
    /\ st' = [st EXCEPT ![f] = "open"]
    /\ UNCHANGED <<devVars, seen, file, masterVars, lockVars, sequence, panic>>

\* External: wake_up_interruptible wakes at least one
WakeUp(m, s) == {[f \in Files |-> IF f \in W THEN "woken" ELSE s[f]] :
                   W \in {V \in SUBSET Asleep(m) : V # {} \/ Asleep(m) = {}}}
Freed(l) == [l EXCEPT !.held = FALSE, !.cont = FALSE]

\* External: the clients' half in libdrm, a compare and swap that succeeds
\* when the word has the client's context and nothing else.
FastLock(f) ==
    /\ ~panic /\ st[f] = "open" /\ ~has[f]
    /\ LET m == Master(f) IN
         /\ lock[m].hw = "mapped" /\ lock[m].ctx = f /\ ~lock[m].held
         /\ lock' = [lock EXCEPT ![m].held = TRUE]
    /\ has' = [has EXCEPT ![f] = TRUE]
    /\ UNCHANGED <<devVars, st, seen, file, masterVars, sequence, panic>>

FastUnlock(f) ==
    /\ ~panic /\ st[f] = "open" /\ has[f]
    /\ LET m == Master(f) IN
         /\ lock[m].held /\ lock[m].ctx = f /\ ~lock[m].cont
         /\ lock' = [lock EXCEPT ![m].held = FALSE]
    /\ has' = [has EXCEPT ![f] = FALSE]
    /\ UNCHANGED <<devVars, st, seen, file, masterVars, sequence, panic>>

\* The word says that somebody else has the lock.
Others(f) == lock[Master(f)].held /\ lock[Master(f)].ctx # f

\* drm_unlock and drm_lock_free, by any client: the word is freed before its
\* context is compared, and if another had the lock nobody is woken.
Unlock(f) ==
    /\ Ioctl(f) /\ file[f].authenticated
    /\ LET m == Master(f) IN
         IF lock[m].hw = "mapped"
         THEN /\ lock' = [lock EXCEPT ![m] = Freed(@)]
              /\ IF Others(f) THEN UNCHANGED st ELSE st' \in WakeUp(m, st)
              /\ has' = [has EXCEPT ![f] = FALSE]
              /\ UNCHANGED <<devVars, seen, file, masterVars, sequence, panic>>
         ELSE Panic

-----------------------------------------------------------------------------
(* drm_release                                                             *)

\* Mutant of the next test: whoever has the lock
LockIsHeld(f) == lock[Master(f)].hw = "mapped" /\ lock[Master(f)].held

\* drm_i_have_hw_lock
IHaveHwLock(f) == /\ file[f].lock_count /\ lock[Master(f)].hw = "mapped"
                  /\ lock[Master(f)].held /\ lock[Master(f)].file_priv = f

\* The lock of f's master after drm_master_release, and once f is gone: its
\* context is then nobody's.
LockAfter(f) ==
    LET l == lock[Master(f)]
        freed == IF minor # NoMaster /\ IHaveHwLock(f) THEN Freed(l) ELSE l
        gone == IF file[f].is_master /\ l.hw = "mapped"
                THEN [freed EXCEPT !.hw = "gone", !.file_priv = NoFile] ELSE freed
    IN  [gone EXCEPT !.ctx = IF @ = f THEN NoFile ELSE @]

\* Mutant: the magic number outlives its file
KeepMagic(f) == magics

\* drm_remove_magic for the file's own number, if it is still there
DropMagic(f) == IF file[f].magic = NoMagic THEN magics
                ELSE [magics EXCEPT ![Master(f)][file[f].magic] = NoFile]

\* All of drm_release up to reading dev->open_count
Release(f) ==
    /\ Ioctl(f)
    /\ LET m == Master(f)
           is == file[f].is_master
           drops == IF is /\ minor = m THEN 2 ELSE 1
       IN  /\ ref' = [ref EXCEPT ![m] = @ - drops]
           /\ minor' = IF is /\ minor = m THEN NoMaster ELSE minor
           \* drm_master_destroy frees what is left of the master
           /\ magics' = IF ref[m] = drops
                        THEN [magics EXCEPT ![m] = [k \in Magics |-> NoFile]]
                        ELSE DropMagic(f)
           /\ lock' = [lock EXCEPT ![m] = IF ref[m] = drops THEN NoLock ELSE LockAfter(f)]
           /\ file' = [g \in Files |->
                IF g = f THEN NewFile
                ELSE [file[g] EXCEPT !.authenticated = @ /\ ~(is /\ Master(g) = m)]]
           /\ \E s \in IF is /\ lock[m].hw = "mapped"
                       THEN {[g \in Files |-> IF g \in Asleep(m) THEN "woken" ELSE st[g]]}
                       ELSE IF minor # NoMaster /\ IHaveHwLock(f) THEN WakeUp(m, st)
                       ELSE {st} :
                st' = [s EXCEPT ![f] = "closing"]
    /\ has' = [has EXCEPT ![f] = FALSE]
    /\ seen' = [seen EXCEPT ![f] = count]
    /\ UNCHANGED <<count, ready, sequence, panic>>

\* --dev->open_count, and drm_lastclose unless an ioctl is still running
ReleaseCount(f) ==
    /\ ~panic /\ st[f] = "closing"
    /\ count' = seen[f] - 1
    /\ ready' = (ready /\ ~(seen[f] = 1 /\ \A g \in Files : st[g] \notin {"asleep", "woken"}))
    /\ st' = [st EXCEPT ![f] = "closed"]
    /\ seen' = [seen EXCEPT ![f] = 0]
    /\ UNCHANGED <<minor, file, masterVars, lockVars, sequence, panic>>

-----------------------------------------------------------------------------
Next == \E f \in Files :
    \/ OpenRead(f) \/ OpenWrite(f) \/ OpenHelper(f) \/ OpenFails(f)
    \/ SetMaster(f) \/ DropMaster(f) \/ GetMagic(f) \/ AuthMagic(f)
    \/ AddLock(f) \/ Lock(f) \/ LockRetry(f) \/ LockInterrupted(f)
    \/ FastLock(f) \/ FastUnlock(f) \/ Unlock(f)
    \/ Release(f) \/ ReleaseCount(f)

Spec == Init /\ [][Next]_vars

-----------------------------------------------------------------------------
(* Properties                                                              *)

IsOpen(f) == st[f] \in {"open", "asleep", "woken"}

TypeOK ==
    /\ count \in Int
    /\ ready \in BOOLEAN /\ minor \in Masters \cup {NoMaster}
    /\ st \in [Files -> {"closed", "counting", "opening", "open", "asleep", "woken",
                         "closing"}]
    /\ seen \in [Files -> Int]
    /\ file \in [Files -> [master : Masters \cup {NoMaster}, is_master : BOOLEAN,
                           authenticated : BOOLEAN, magic : Magics \cup {NoMagic},
                           lock_count : BOOLEAN]]
    /\ ref \in [Masters -> Nat]
    /\ magics \in [Masters -> [Magics -> Files \cup {NoFile}]]
    /\ lock \in [Masters -> [hw : {"none", "mapped", "gone"}, held : BOOLEAN,
                             cont : BOOLEAN, ctx : Files \cup {NoFile},
                             file_priv : Files \cup {NoFile}]]
    /\ has \in [Files -> BOOLEAN] /\ sequence \in 1 .. (MaxMagic + 1)
    /\ panic \in BOOLEAN

\* A master has a reference for each open file that belongs to it and one for
\* the minor, so none is freed while a file or the minor still points to it.
MasterCounted ==
    /\ \A m \in Masters : ref[m] = Cardinality({f \in Files : IsOpen(f) /\ Master(f) = m})
                                   + (IF minor = m THEN 1 ELSE 0)
    /\ \A f \in Files : IsOpen(f) => Master(f) # NoMaster

\* At most one file is the master of the device, whatever order files are
\* opened, closed, given and deprived of it; the minor's master is its master.
OneMaster ==
    /\ \A f \in Files : file[f].is_master => IsOpen(f) /\ minor = Master(f)
    /\ Cardinality({f \in Files : file[f].is_master}) <= 1
    /\ minor # NoMaster => \E f \in Files : file[f].is_master

\* A magic number leads to the open client it was given to and to no other:
\* not to a closed file, nor to whoever got the memory of one.
MagicOwned == \A m \in Masters, k \in Magics : magics[m][k] # NoFile =>
    LET g == magics[m][k] IN IsOpen(g) /\ Master(g) = m /\ file[g].magic = k

\* f has taken the lock, and the word says that it is free or another's.
Lost(f) == /\ has[f] /\ lock[Master(f)].hw = "mapped"
           /\ ~(lock[Master(f)].held /\ lock[Master(f)].ctx = f)

\* The lock is held and its holder is gone.
Orphan(m) == lock[m].hw = "mapped" /\ lock[m].held /\ lock[m].ctx = NoFile

\* A wakeup is to come: the lock is contended, so that the client who has it
\* must free it through the kernel, or somebody is awake to take and pass it on.
Promised(m) == \/ lock[m].held /\ lock[m].cont /\ lock[m].ctx # NoFile
               \/ \E f \in Files : st[f] = "woken" /\ Master(f) = m
Stranded(m) == Asleep(m) # {} /\ ~Promised(m)

\* The files, their masters and their magic numbers agree, whatever the order of
\* opens, closes, drops and gifts of mastership (drm_fops.c, drm_auth.c, drm_stub.c).
FileSafe == MasterCounted /\ OneMaster /\ MagicOwned
\* The hardware lock (drm_lock.c) is nobody's but its holder's, is freed when its
\* holder dies, and nobody sleeps for it without a wakeup to come.  Two steps break
\* that and no other does: a client unlocks what another has (drm_lock.c:300), which
\* takes the lock from that one and wakes nobody, and the holder closes while the
\* minor has no master (drm_fops.c:564), which leaves the lock held for ever.
\* A holder that asks for its own lock again sleeps for itself: that wakeup, too, is
\* one that it alone could give.
LockSafe == [][
    LET seized == \E g \in Files : Unlock(g) /\ Others(g)
    IN  /\ \A f \in Files : Lost(f)' => Lost(f) \/ seized
        /\ \A m \in Masters :
             /\ Orphan(m)' => Orphan(m) \/ \E f \in Files : Release(f) /\ minor = NoMaster
             /\ Stranded(m)' => Stranded(m) \/ Orphan(m)' \/ seized ]_vars

\* Every open is matched: open_count is the number of files that are open or
\* being opened or closed (drm_open: "increments the device open count").
OpenCounted ==
    (\A f \in Files : st[f] \notin {"counting", "closing"}) =>
        count = Cardinality({f \in Files : st[f] # "closed"})

=============================================================================
