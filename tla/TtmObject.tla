----------------------------- MODULE TtmObject -----------------------------
(***************************************************************************)
(* TTM user objects (drm/ttm/ttm_object.c): base objects named by a key in *)
(* the device's hash, each file's references to them, and the counts that  *)
(* keep objects and files.  An action is a critical section of the file's  *)
(* lock, or one half of a critical section of object_lock, its beginning   *)
(* (Enter) and its end; between them a thread holds what its job says.     *)
(*                                                                         *)
(* The key of an object is the first free one from its address on          *)
(* (drm_ht_just_insert_please), so an object is its own name here.         *)
(***************************************************************************)
EXTENDS Integers, FiniteSets

CONSTANTS Threads, Files, Bases, RefTypes, Usage, None, MaxRefs

VARIABLES
    base,   \* the objects: None, or counts and flags
    named,  \* the objects in object_hash
    kref,   \* the reference objects: kref[f][y][b], 0 when there is none
    file,   \* open, closing, closed or freed
    frefs,  \* refcount of the files
    job,    \* what each thread is at, and whether it is in object_lock
    torn    \* object_lock was initialised while somebody had it, and no step follows

objVars == <<base, named, kref, file, frefs, job, torn>>
NoJob == [pc |-> "idle", f |-> None, b |-> None, y |-> None, creating |-> FALSE, lock |-> "no"]

ObjInit ==
    /\ base = [b \in Bases |-> None] /\ named = {}
    /\ kref = [f \in Files |-> [y \in RefTypes |-> [b \in Bases |-> 0]]]
    /\ file = [f \in Files |-> "open"] /\ frefs = [f \in Files |-> 1]
    /\ job = [t \in Threads |-> NoJob] /\ torn = FALSE

At(t, pc) == job[t].pc = pc
In(t, pc) == At(t, pc) /\ job[t].lock # "no"
Goto(t, pc) == job' = [job EXCEPT ![t].pc = pc, ![t].lock = "no"]

\* Those who look an object up share object_lock, all others take it alone.
Enter(t) ==
    /\ job[t].lock = "no"
    /\ \/ At(t, "lookup") /\ \A u \in Threads : job[u].lock # "write"
       \/ /\ At(t, "name") \/ At(t, "unref") \/ (At(t, "failed") /\ job[t].creating)
          /\ \A u \in Threads : job[u].lock = "no"
    /\ job' = [job EXCEPT ![t].lock = IF At(t, "lookup") THEN "read" ELSE "write"]
    /\ UNCHANGED <<base, named, kref, file, frefs, torn>>

\* ttm_base_object_init as far as rw_init, which each creation does again.
BaseInit(t, f, b, shareable, callback) ==
    /\ At(t, "idle") /\ file[f] = "open" /\ base[b] = None /\ frefs[f] < MaxRefs
    /\ base' = [base EXCEPT ![b] = [refs |-> 1, owner |-> f, shareable |-> shareable,
                                    callback |-> callback, orphan |-> FALSE]]
    /\ frefs' = [frefs EXCEPT ![f] = @ + 1]
    /\ job' = [job EXCEPT ![t] = [NoJob EXCEPT !.pc = "name", !.f = f, !.b = b, !.y = Usage, !.creating = TRUE]]
    /\ torn' = \E u \in Threads : job[u].lock # "no"
    /\ UNCHANGED <<named, kref, file>>

\* The insertion, which fails when no key is left: the file's reference stays.
Name(t) ==
    LET b == job[t].b
    IN  /\ In(t, "name")
        /\ \/ named' = named \cup {b} /\ Goto(t, "find") /\ UNCHANGED base
           \/ base' = [base EXCEPT ![b] = None] /\ job' = [job EXCEPT ![t] = NoJob] /\ UNCHANGED named
        /\ UNCHANGED <<kref, file, frefs, torn>>

\* ttm_base_object_lookup takes its reference under the lock, and only then
\* asks whether the file may have the object.
StartLookup(t, f) ==
    /\ At(t, "idle") /\ file[f] = "open" /\ job' = [job EXCEPT ![t] = [NoJob EXCEPT !.pc = "lookup", !.f = f]]
    /\ UNCHANGED <<base, named, kref, file, frefs, torn>>
Lookup(t) ==
    /\ In(t, "lookup")
    /\ \/ \E b \in named :
              /\ base[b].refs < MaxRefs /\ base' = [base EXCEPT ![b].refs = @ + 1]
              /\ job' = [job EXCEPT ![t] = [NoJob EXCEPT !.pc = "looked", !.f = job[t].f, !.b = b]]
       \/ job' = [job EXCEPT ![t] = NoJob] /\ UNCHANGED base
    /\ UNCHANGED <<named, kref, file, frefs, torn>>

\* The caller uses the object, and may make a reference of some type.
Looked(t) ==
    LET j == job[t]
    IN  /\ At(t, "looked")
        /\ \/ Goto(t, "unref")
           \/ /\ base[j.b].shareable \/ base[j.b].owner = j.f
              /\ \E y \in RefTypes : job' = [job EXCEPT ![t].pc = "find", ![t].y = y]
        /\ UNCHANGED <<base, named, kref, file, frefs, torn>>

\* ttm_ref_object_add: there is a reference object, or one is allocated, which
\* may fail.
FindRef(t) ==
    LET j == job[t]
    IN  /\ At(t, "find")
        /\ IF kref[j.f][j.y][j.b] > 0
           THEN /\ kref[j.f][j.y][j.b] < MaxRefs
                /\ kref' = [kref EXCEPT ![j.f][j.y][j.b] = @ + 1]
                /\ Goto(t, "unref")
           ELSE UNCHANGED kref /\ (Goto(t, "insert") \/ Goto(t, "failed"))
        /\ UNCHANGED <<base, named, file, frefs, torn>>

\* Mutant: the insertion does not look again
AlwaysInserts(j) == TRUE

\* drm_ht_insert_item finds no entry of the key.
StillAbsent(j) == kref[j.f][j.y][j.b] = 0

InsertRef(t) ==
    LET j == job[t]
    IN  /\ At(t, "insert")
        /\ IF StillAbsent(j)
           THEN /\ kref' = [kref EXCEPT ![j.f][j.y][j.b] = 1]
                /\ base' = [base EXCEPT ![j.b].refs = @ + 1]
                /\ Goto(t, "unref")
           ELSE Goto(t, "find") /\ UNCHANGED <<base, kref>>
        /\ UNCHANGED <<named, file, frefs, torn>>

\* A creation that fails takes the name back and leaves the object to the
\* caller, who frees it.  The file's reference is not dropped, and whoever has
\* looked the name up in the meantime is left with an orphan.
AddFailed(t) ==
    LET b == job[t].b
    IN  /\ IF job[t].creating THEN In(t, "failed") ELSE At(t, "failed")
        /\ IF job[t].creating
           THEN /\ named' = named \ {b}
                /\ base' = [base EXCEPT ![b] = IF @.refs = 1 THEN None
                                               ELSE [@ EXCEPT !.orphan = TRUE]]
                /\ job' = [job EXCEPT ![t] = NoJob]
           ELSE Goto(t, "unref") /\ UNCHANGED <<base, named>>
        /\ UNCHANGED <<kref, file, frefs, torn>>

DropFile(f) == /\ frefs' = [frefs EXCEPT ![f] = @ - 1]
               /\ file' = IF frefs[f] = 1 THEN [file EXCEPT ![f] = "freed"] ELSE file

\* ttm_base_object_unref and ttm_release_base.  Without a callback the
\* reference on the owner stays.
BaseUnref(t) ==
    LET b == job[t].b
    IN  /\ In(t, "unref")
        /\ IF base[b].refs > 1
           THEN base' = [base EXCEPT ![b].refs = @ - 1] /\ UNCHANGED <<named, frefs, file>>
           ELSE /\ base' = [base EXCEPT ![b] = None]
                /\ named' = named \ {b}
                /\ IF base[b].callback THEN DropFile(base[b].owner) ELSE UNCHANGED <<frefs, file>>
        /\ job' = [job EXCEPT ![t] = IF file[job[t].f] = "closing"
                                     THEN [NoJob EXCEPT !.pc = "close", !.f = job[t].f] ELSE NoJob]
        /\ UNCHANGED <<kref, torn>>

\* ttm_ref_object_release keeps the object's reference for the moment after
\* the file's lock.
Release(t, f, y, b) ==
    /\ kref' = [kref EXCEPT ![f][y][b] = 0]
    /\ job' = [job EXCEPT ![t] = [NoJob EXCEPT !.pc = "unref", !.f = f, !.b = b]]

\* ttm_ref_object_base_unref
RefUnref(t, f, y, b) ==
    /\ At(t, "idle") /\ file[f] = "open" /\ kref[f][y][b] > 0
    /\ IF kref[f][y][b] = 1 THEN Release(t, f, y, b)
       ELSE kref' = [kref EXCEPT ![f][y][b] = @ - 1] /\ UNCHANGED job
    /\ UNCHANGED <<base, named, file, frefs, torn>>

\* ttm_object_file_release, when the last descriptor is closed
StartRelease(t, f) ==
    /\ At(t, "idle") /\ file[f] = "open" /\ \A u \in Threads : job[u].f # f
    /\ file' = [file EXCEPT ![f] = "closing"]
    /\ job' = [job EXCEPT ![t] = [NoJob EXCEPT !.pc = "close", !.f = f]]
    /\ UNCHANGED <<base, named, kref, frefs, torn>>

References(f) == {r \in RefTypes \X Bases : kref[f][r[1]][r[2]] > 0}

FileRelease(t) ==
    LET f == job[t].f
    IN  /\ At(t, "close")
        /\ IF References(f) # {}
           THEN /\ \E r \in References(f) : Release(t, f, r[1], r[2])
                /\ UNCHANGED <<frefs, file>>
           ELSE /\ frefs' = [frefs EXCEPT ![f] = @ - 1]
                /\ file' = [file EXCEPT ![f] = IF frefs[f] = 1 THEN "freed" ELSE "closed"]
                /\ job' = [job EXCEPT ![t] = NoJob] /\ UNCHANGED kref
        /\ UNCHANGED <<base, named, torn>>

ObjNext == ~torn /\ \E t \in Threads :
    \/ \E f \in Files, b \in Bases :
          \/ \E s, c \in BOOLEAN : BaseInit(t, f, b, s, c)
          \/ \E y \in RefTypes : RefUnref(t, f, y, b)
    \/ \E f \in Files : StartLookup(t, f)
    \/ Enter(t) \/ Name(t) \/ Lookup(t) \/ Looked(t) \/ FindRef(t) \/ InsertRef(t) \/ AddFailed(t) \/ BaseUnref(t)
    \/ \E f \in Files : StartRelease(t, f)
    \/ FileRelease(t)

-----------------------------------------------------------------------------
(* Properties                                                              *)

ObjTypeOK ==
    /\ named \subseteq Bases /\ \A b \in named : base[b] # None
    /\ kref \in [Files -> [RefTypes -> [Bases -> 0 .. MaxRefs]]]
    /\ file \in [Files -> {"open", "closing", "closed", "freed"}]
    /\ frefs \in [Files -> Nat]

\* An object's count is the reference objects of all files, the threads that
\* hold it between two critical sections, and the creator of an orphan; so an
\* object that anybody can reach is never released.
HolderOf(b) == {t \in Threads : job[t].b = b}
RefsOf(b) == {r \in Files \X RefTypes : kref[r[1]][r[2]][b] > 0}
ObjectsCounted == \A b \in Bases :
    IF base[b] = None THEN HolderOf(b) = {} /\ RefsOf(b) = {}
    ELSE base[b].refs = Cardinality(HolderOf(b)) + Cardinality(RefsOf(b))
                        + (IF base[b].orphan THEN 1 ELSE 0)

\* A file outlives the objects made through it: ttm_base_object_unref reads
\* the device through the owner, long after the owner's descriptor is closed.
OwnersLive == \A b \in Bases : base[b] # None => file[base[b].owner] # "freed"

\* A file reaches another file's object only when that is shareable.
Confined == \A f \in Files, y \in RefTypes, b \in Bases :
    kref[f][y][b] > 0 => base[b].shareable \/ base[b].owner = f

\* All this until a creation initialises object_lock under a thread that has it
\* (ttm_object.c:161): then two of them work on the hash at once.
ObjectsSafe == ~torn => ObjectsCounted /\ OwnersLive /\ Confined

\* "Releases all data associated with a ttm_object_file": a closed file whose
\* objects are gone is freed.
FilesFreed == \A f \in Files :
    file[f] = "closed" /\ (\A b \in Bases : base[b] = None \/ base[b].owner # f) => FALSE
=============================================================================
