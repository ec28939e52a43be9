------------------------------- MODULE DrmGem -------------------------------
(***************************************************************************)
(* GEM objects of drm/drm_gem.c: the reference count and the handle count  *)
(* of an object, the handles of each file, the global names, and the       *)
(* offsets by which objects are mapped.                                    *)
(*                                                                         *)
(* Grain: one action per section under table_lock, object_name_lock or     *)
(* struct_mutex, or per atomic operation outside them.  An object is the   *)
(* memory it lives in: once freed, the same memory can be a new object.    *)
(***************************************************************************)
EXTENDS Integers, FiniteSets

CONSTANTS
    Files,
    Threads,
    FileOf,       \* the file each thread makes its ioctls on
    Objects,      \* memory for objects
    NoObject,
    NumHandles,   \* bound: handles of a file
    NumNames      \* bound: names of the device

ASSUME GemAssumption ==
    /\ IsFiniteSet(Threads) /\ IsFiniteSet(Files) /\ FileOf \in [Threads -> Files]
    /\ NoObject \notin Objects
    /\ NumHandles \in Nat \ {0} /\ NumNames \in Nat \ {0}

Handles == 1 .. NumHandles
Names   == 1 .. NumNames
NoName  == 0

VARIABLES
    live,    \* the memory holds an object
    ref,     \* obj->refcount
    hcount,  \* obj->handle_count
    name,    \* obj->name
    onMap,   \* obj->on_map: its offset is in mm->offset_hash
    mapped,  \* external: VM objects that map the object
    table,   \* file_priv->object_idr
    names,   \* dev->object_name_idr
    opened,  \* the file is open, and not in drm_release
    th       \* each thread's place, the object it works on, what comes after

objVars == <<live, ref, hcount, name, onMap>>
vars == <<objVars, mapped, table, names, opened, th>>

At(t, pc)     == th[t].pc = pc
Obj(t)        == th[t].obj
Goto(t, l)    == th' = [th EXCEPT ![t].pc = l]
Work(t, l, o, a) == th' = [th EXCEPT ![t] = [pc |-> l, obj |-> o, after |-> a]]
Idle          == [pc |-> "idle", obj |-> NoObject, after |-> "idle"]
Return(t)     == th' = [th EXCEPT ![t] = Idle]
\* An ioctl on its own file starts; drm_release runs when there is none.
Begin(t)      == At(t, "idle") /\ opened[FileOf[t]]

Least(S) == CHOOSE n \in S : \A m \in S : n <= m
FreeHandles(f) == {h \in Handles : table[f][h] = NoObject}
FreeNames      == {n \in Names : names[n] = NoObject}

Init ==
    /\ live = [o \in Objects |-> FALSE] /\ ref = [o \in Objects |-> 0]
    /\ hcount = [o \in Objects |-> 0] /\ name = [o \in Objects |-> NoName]
    /\ onMap = [o \in Objects |-> FALSE] /\ mapped = [o \in Objects |-> 0]
    /\ table = [f \in Files |-> [h \in Handles |-> NoObject]]
    /\ names = [n \in Names |-> NoObject]
    /\ opened = [f \in Files |-> TRUE]
    /\ th = [t \in Threads |-> Idle]

-----------------------------------------------------------------------------
(* References                                                              *)

Reference(o) == ref' = [ref EXCEPT ![o] = @ + 1]

\* Mutant: the offset stays in the hash table
FreeKeepsOffset(o) ==
    /\ live' = [live EXCEPT ![o] = FALSE]
    /\ UNCHANGED onMap

\* The driver's gem_free_object, called for the last reference
Free(o) ==
    /\ live' = [live EXCEPT ![o] = FALSE]
    /\ onMap' = [onMap EXCEPT ![o] = FALSE]

\* drm_gem_object_unreference, and _unlocked, which takes struct_mutex
Unreference(o) ==
    /\ ref' = [ref EXCEPT ![o] = @ - 1]
    /\ IF ref[o] = 1 THEN Free(o) ELSE UNCHANGED <<live, onMap>>

-----------------------------------------------------------------------------
(* Handles                                                                 *)

\* The driver's create ioctl allocates an object (i915_gem_create)
Create(t) ==
    /\ Begin(t)
    /\ \E o \in Objects :
         /\ ~live[o]
         /\ live' = [live EXCEPT ![o] = TRUE]
         /\ ref' = [ref EXCEPT ![o] = 1] /\ hcount' = [hcount EXCEPT ![o] = 0]
         /\ name' = [name EXCEPT ![o] = NoName] /\ onMap' = [onMap EXCEPT ![o] = FALSE]
         /\ Work(t, "insert", o, "created")
    /\ UNCHANGED <<mapped, table, names, opened>>

\* drm_gem_handle_create: the handle is in the table ...
HandleInsert(t) ==
    /\ At(t, "insert")
    /\ LET f == FileOf[t] IN
         \/ /\ FreeHandles(f) # {}
            /\ table' = [table EXCEPT ![f][Least(FreeHandles(f))] = Obj(t)]
            /\ Goto(t, "reference")
            /\ UNCHANGED objVars
         \* it fails: the creator frees the object as it is
         \/ /\ th[t].after = "created" /\ Free(Obj(t)) /\ Return(t)
            /\ UNCHANGED <<table, ref, hcount, name>>
         \/ /\ th[t].after = "opened" /\ Work(t, "unref", Obj(t), "idle")
            /\ UNCHANGED <<table, objVars>>
    /\ UNCHANGED <<mapped, names, opened>>

\* Mutant: handle_count is left as it is
HandleUncounted(t) ==
    /\ At(t, "reference")
    /\ Reference(Obj(t))
    /\ Goto(t, "unref")
    /\ UNCHANGED <<live, hcount, name, onMap, mapped, table, names, opened>>

\* ... before the object knows
HandleReference(t) ==
    /\ At(t, "reference")
    /\ Reference(Obj(t))
    /\ hcount' = [hcount EXCEPT ![Obj(t)] = @ + 1]
    /\ Goto(t, "unref")
    /\ UNCHANGED <<live, name, onMap, mapped, table, names, opened>>

\* The last step of every ioctl that holds a reference of its own, and of
\* dropping a handle; drm_gem_open_ioctl then still reads obj->size.
UnreferenceUnlocked(t) ==
    /\ At(t, "unref")
    /\ Unreference(Obj(t))
    /\ IF th[t].after = "opened" THEN Goto(t, "size")
       ELSE IF th[t].after = "release" THEN Work(t, "release", NoObject, "idle")
       ELSE Return(t)
    /\ UNCHANGED <<hcount, name, mapped, table, names, opened>>

ReadSize(t) ==
    /\ At(t, "size") /\ Return(t)
    /\ UNCHANGED <<objVars, mapped, table, names, opened>>

\* drm_gem_handle_delete, under table_lock
HandleDelete(t) ==
    /\ Begin(t)
    /\ \E h \in Handles :
         /\ table[FileOf[t]][h] # NoObject
         /\ table' = [table EXCEPT ![FileOf[t]][h] = NoObject]
         /\ Work(t, "unhandle", table[FileOf[t]][h], "idle")
    /\ UNCHANGED <<objVars, mapped, names, opened>>

\* drm_gem_object_handle_unreference_unlocked: nothing if the count is zero
HandleUnreference(t) ==
    /\ At(t, "unhandle")
    /\ IF hcount[Obj(t)] # 0 THEN Goto(t, "count")
       ELSE IF th[t].after = "release" THEN Work(t, "release", NoObject, "idle")
       ELSE Return(t)
    /\ UNCHANGED <<objVars, mapped, table, names, opened>>

HandleCount(t) ==
    /\ At(t, "count")
    /\ hcount' = [hcount EXCEPT ![Obj(t)] = @ - 1]
    /\ Goto(t, IF hcount[Obj(t)] = 1 THEN "unname" ELSE "unref")
    /\ UNCHANGED <<live, ref, name, onMap, mapped, table, names, opened>>

\* Mutant: the object keeps the name that the table has given up
NameStays(t) ==
    /\ At(t, "unname")
    /\ LET o == Obj(t) IN
         IF name[o] # NoName
         THEN names' = [names EXCEPT ![name[o]] = NoObject] /\ Goto(t, "nameref")
         ELSE Goto(t, "unref") /\ UNCHANGED names
    /\ UNCHANGED <<objVars, mapped, table, opened>>

\* drm_gem_object_handle_free: the last handle takes the name along
HandleFree(t) ==
    /\ At(t, "unname")
    /\ LET o == Obj(t) IN
         IF name[o] # NoName
         THEN /\ names' = [names EXCEPT ![name[o]] = NoObject]
              /\ name' = [name EXCEPT ![o] = NoName]
              /\ Goto(t, "nameref")
         ELSE Goto(t, "unref") /\ UNCHANGED <<names, name>>
    /\ UNCHANGED <<live, ref, hcount, onMap, mapped, table, opened>>

\* Mutant: the reference of the name is not dropped
NameKeepsReference(t) ==
    /\ At(t, "nameref")
    /\ Goto(t, "unref")
    /\ UNCHANGED <<objVars, mapped, table, names, opened>>

\* kref_put(&obj->refcount, drm_gem_object_ref_bug)
NameUnreference(t) ==
    /\ At(t, "nameref")
    /\ ref' = [ref EXCEPT ![Obj(t)] = @ - 1]
    /\ Goto(t, "unref")
    /\ UNCHANGED <<live, hcount, name, onMap, mapped, table, names, opened>>

-----------------------------------------------------------------------------
(* Names, and ioctls that use an object                                    *)

\* drm_gem_object_lookup, for drm_gem_flink_ioctl or to use the object
Lookup(t) ==
    /\ Begin(t)
    /\ \E h \in Handles, l \in {"flink", "unref"} :
         /\ table[FileOf[t]][h] # NoObject
         /\ Reference(table[FileOf[t]][h])
         /\ Work(t, l, table[FileOf[t]][h], "idle")
    /\ UNCHANGED <<live, hcount, name, onMap, mapped, table, names, opened>>

\* drm_gem_flink_ioctl, under object_name_lock ...
Flink(t) ==
    /\ At(t, "flink")
    /\ LET o == Obj(t) IN
         \/ /\ name[o] = NoName /\ FreeNames # {}
            /\ name' = [name EXCEPT ![o] = Least(FreeNames)]
            /\ names' = [names EXCEPT ![Least(FreeNames)] = o]
            /\ Goto(t, "named")
         \/ /\ Goto(t, "unref")         \* it has a name, or there is no memory
            /\ UNCHANGED <<name, names>>
    /\ UNCHANGED <<live, ref, hcount, onMap, mapped, table, opened>>

\* ... and the reference of the name table, after it
FlinkReference(t) ==
    /\ At(t, "named")
    /\ Reference(Obj(t))
    /\ Goto(t, "unref")
    /\ UNCHANGED <<live, hcount, name, onMap, mapped, table, names, opened>>

\* Mutant: no reference for the time until there is a handle
OpenUncounted(t) ==
    /\ Begin(t)
    /\ \E n \in Names :
         /\ names[n] # NoObject
         /\ Work(t, "insert", names[n], "opened")
    /\ UNCHANGED <<objVars, mapped, table, names, opened>>

\* drm_gem_open_ioctl, under object_name_lock
Open(t) ==
    /\ Begin(t)
    /\ \E n \in Names :
         /\ names[n] # NoObject
         /\ Reference(names[n])
         /\ Work(t, "insert", names[n], "opened")
    /\ UNCHANGED <<live, hcount, name, onMap, mapped, table, names, opened>>

-----------------------------------------------------------------------------
(* Mappings                                                                *)

\* i915_gem_mmap_gtt: the whole ioctl holds struct_mutex
MmapGtt(t) ==
    /\ Begin(t)
    /\ \E h \in Handles :
         /\ table[FileOf[t]][h] # NoObject
         /\ onMap' = [onMap EXCEPT ![table[FileOf[t]][h]] = TRUE]
    /\ UNCHANGED <<live, ref, hcount, name, mapped, table, names, opened, th>>

\* drm_gem_mmap_single: the object of an offset, under struct_mutex
MmapSingle(t) ==
    /\ Begin(t)
    /\ \E o \in Objects : onMap[o] /\ Reference(o) /\ Work(t, "pager", o, "idle")
    /\ UNCHANGED <<live, hcount, name, onMap, mapped, table, names, opened>>

\* cdev_pager_allocate makes a VM object, or fails.  Bound: an object has one
\* at a time; whether a second mmap shares the first is up to the VM.
PagerAllocate(t) ==
    /\ At(t, "pager")
    /\ \/ /\ mapped[Obj(t)] = 0
          /\ mapped' = [mapped EXCEPT ![Obj(t)] = 1] /\ Return(t)
       \/ Goto(t, "unref") /\ UNCHANGED mapped
    /\ UNCHANGED <<objVars, table, names, opened>>

\* i915_gem_pager_dtor: the last user of the mapping is gone
PagerDtor(o) ==
    /\ mapped[o] = 1
    /\ mapped' = [mapped EXCEPT ![o] = 0]
    /\ Unreference(o)
    /\ UNCHANGED <<hcount, name, table, names, opened, th>>

-----------------------------------------------------------------------------
(* The end of a file                                                       *)

\* drm_release, once no thread is in an ioctl of the file ...
Release(t) ==
    /\ Begin(t) /\ \A u \in Threads : FileOf[u] = FileOf[t] => At(u, "idle")
    /\ opened' = [opened EXCEPT ![FileOf[t]] = FALSE]
    /\ Work(t, "release", NoObject, "idle")
    /\ UNCHANGED <<objVars, mapped, table, names>>

\* ... drm_gem_release drops every handle.  The table is emptied afterwards in
\* one go; here each entry goes with its handle, for nobody reads it any more.
GemRelease(t) ==
    /\ At(t, "release")
    /\ LET f == FileOf[t]
           used == Handles \ FreeHandles(f)
       IN  IF used = {}
           THEN Return(t) /\ UNCHANGED table
           ELSE /\ table' = [table EXCEPT ![f][Least(used)] = NoObject]
                /\ Work(t, "unhandle", table[f][Least(used)], "release")
    /\ UNCHANGED <<objVars, mapped, names, opened>>

\* drm_gem_open
GemOpen(f) ==
    /\ ~opened[f] /\ \A t \in Threads : FileOf[t] = f => At(t, "idle")
    /\ opened' = [opened EXCEPT ![f] = TRUE]
    /\ UNCHANGED <<objVars, mapped, table, names, th>>

-----------------------------------------------------------------------------
Finish(t) == \/ HandleInsert(t) \/ HandleReference(t) \/ UnreferenceUnlocked(t)
             \/ ReadSize(t) \/ HandleUnreference(t) \/ HandleCount(t)
             \/ HandleFree(t) \/ NameUnreference(t) \/ Flink(t) \/ FlinkReference(t)
             \/ PagerAllocate(t) \/ GemRelease(t)

Next == \/ \E t \in Threads : \/ Create(t) \/ HandleDelete(t) \/ Lookup(t) \/ Open(t)
                              \/ MmapGtt(t) \/ MmapSingle(t) \/ Release(t) \/ Finish(t)
        \/ \E o \in Objects : PagerDtor(o)
        \/ \E f \in Files : GemOpen(f)

Spec == Init /\ [][Next]_vars

-----------------------------------------------------------------------------
(* Properties                                                              *)

PCs == {"idle", "insert", "reference", "unref", "size", "unhandle", "count", "unname",
        "nameref", "flink", "named", "pager", "release"}

TypeOK ==
    /\ live \in [Objects -> BOOLEAN] /\ ref \in [Objects -> Nat]
    /\ hcount \in [Objects -> Nat] /\ name \in [Objects -> Names \cup {NoName}]
    /\ onMap \in [Objects -> BOOLEAN] /\ mapped \in [Objects -> {0, 1}]
    /\ table \in [Files -> [Handles -> Objects \cup {NoObject}]]
    /\ names \in [Names -> Objects \cup {NoObject}]
    /\ opened \in [Files -> BOOLEAN]
    /\ th \in [Threads -> [pc : PCs, obj : Objects \cup {NoObject},
                           after : {"idle", "created", "opened", "release"}]]

One(b) == IF b THEN 1 ELSE 0
HandlesOf(o) == {p \in Files \X Handles : table[p[1]][p[2]] = o}
ThreadsAt(S, o) == {t \in Threads : th[t].pc \in S /\ Obj(t) = o}

\* Every reference has one owner: a handle that has been counted, the name
\* once flink has got there, a mapping, or a thread in the middle of an
\* operation (one that has taken the name away owns that reference too).
RefsCounted == \A o \in Objects : live[o] =>
    ref[o] = hcount[o] + mapped[o] + One(name[o] # NoName)
             + Cardinality(ThreadsAt({"insert", "reference", "unref", "unname",
                                      "nameref", "flink", "named", "pager"}, o))
             + Cardinality(ThreadsAt({"nameref"}, o))
             - Cardinality(ThreadsAt({"named"}, o))

\* handle_count is the number of handles, but for those on their way.
HandlesCounted == \A o \in Objects : live[o] =>
    hcount[o] + Cardinality(ThreadsAt({"reference"}, o))
      = Cardinality(HandlesOf(o)) + Cardinality(ThreadsAt({"unhandle", "count"}, o))

\* Freed memory is not touched: not through a handle, a name, an offset, a
\* mapping or a pointer that a thread still has.
NoDangling == \A o \in Objects : ~live[o] =>
    /\ HandlesOf(o) = {} /\ ThreadsAt(PCs, o) = {}
    /\ \A n \in Names : names[n] # o
    /\ ~onMap[o] /\ mapped[o] = 0

\* An object that no handle, mapping or thread can reach any more is freed:
\* its name alone does not keep it (drm_gem_flink_ioctl: "Note that the name
\* does not hold a reference; when the object is freed, the name goes away").
NoLeak == \A o \in Objects :
    live[o] => HandlesOf(o) # {} \/ mapped[o] # 0 \/ ThreadsAt(PCs, o) # {}

\* Names and objects agree, so a name never opens another object.
NamesAgree == \A o \in Objects, n \in Names :
    live[o] => (names[n] = o <=> name[o] = n)

\* References and handles are counted and freed memory is not touched (drm_gem.c).
GemSafe == RefsCounted /\ HandlesCounted /\ NoDangling
\* What nobody can reach is freed, and a name opens what it was given to (drm_gem.c).
GemNames == NoLeak /\ NamesAgree
=============================================================================
