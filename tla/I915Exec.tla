------------------------------ MODULE I915Exec ------------------------------
(***************************************************************************)
(* Execbuffer (i915_gem_execbuffer.c): the lookup of the objects, their    *)
(* reservation in the address space, the relocations, the slow path that   *)
(* lets go of everything in between, and the dispatch; beside it another   *)
(* thread closes and opens handles of the file and other clients move      *)
(* objects.  The list of the call is a target and, last, the batch, whose  *)
(* relocations point to one or the other.                                  *)
(***************************************************************************)
EXTENDS Integers, Sequences, SequencesExt, FiniteSets

CONSTANTS ExecObjs,     \* the objects
          Foreign,      \* an object of another client
          Slots,        \* places of the address space, of one object each
          Mappable,     \* those of them in the aperture
          MaxCalls,     \* bound on the calls
          None

VARIABLES want,         \* [mappable, relocs]: the call of the user
          handles,      \* handle -> object
          space,        \* object -> slot or None
          value,        \* object -> relocation -> what its page says
          presumed,     \* relocation -> what the user's list says
          call,         \* the call under way
          pending,      \* object -> write domains of this call
          calls,        \* how many calls were made
          unreported,   \* relocations of the page that the user's list does not know
          wrong         \* what is wrong with what was dispatched, and the handles closed meanwhile
execVars == <<want, handles, space, value, presumed, call, pending, calls, unreported, wrong>>

ExecAssumption == None \notin Slots /\ Foreign \notin ExecObjs /\ Mappable \subseteq Slots
Target == 1
Batch == 2
Relocs == 1..2
Domains == {"render", "blt"}
Wants == [mappable : {{}, {Target}, {Target, Batch}},
          relocs : {<<<<Target, "render">>, r>> : r \in {<<Target, "blt">>, <<Target, None>>}}
                   \cup {<<<<Target, None>>, <<Batch, None>>>>}]
Invalid == [r \in Relocs |-> None]
Everything == ExecObjs \cup {Foreign}
Idle == [pc |-> "idle", list |-> <<>>, batch |-> None, todo |-> <<>>, pinned |-> {}, again |-> FALSE, slow |-> FALSE, copy |-> Invalid]

ExecInit ==
    /\ want \in Wants
    /\ \E a, b \in ExecObjs : a # b /\ handles = [h \in {Target, Batch} |-> IF h = Target THEN a ELSE b]
    /\ space = [o \in Everything |-> None] /\ value = [o \in ExecObjs |-> [r \in Relocs |-> None]]
    /\ presumed = [r \in Relocs |-> None] /\ pending = [o \in ExecObjs |-> {}]
    /\ calls = 0 /\ unreported = {} /\ wrong = {}
    /\ call = Idle

Free == Slots \ {space[o] : o \in Everything}
Listed == ToSet(call.list)
Needs(o) == \E h \in want.mappable : call.list[h] = o
Fitting(o) == IF Needs(o) THEN Mappable ELSE Slots
Pc(pc) == call' = [call EXCEPT !.pc = pc]
\* err: the references are dropped
Return == call' = Idle /\ calls' = calls + 1
------------------------------------------------------------------------------
\* eb_get_object is for handles; the first lookup refuses an object listed twice, the
\* second one (relocate_slow) adds it again, to a list that then never becomes empty:
\* the reservation spins with the mutex.
LookUp ==
    /\ call.pc \in {"idle", "relock"} /\ calls < MaxCalls
    /\ LET twice == handles[Target] = handles[Batch] IN
       IF (\E h \in {Target, Batch} : handles[h] = None) \/ (call.pc = "idle" /\ twice) THEN
         Return
       ELSE
         /\ call' = [call EXCEPT !.pc = IF twice THEN "spins" ELSE "order", !.list = <<handles[Target], handles[Batch]>>,
                                 !.batch = IF call.slow THEN call.batch ELSE handles[Batch]]
         /\ UNCHANGED calls
    /\ IF call.pc = "relock" THEN UNCHANGED <<unreported, wrong>>
       ELSE wrong' = {} /\ unreported' = {r \in unreported : presumed[r] # None}
    /\ UNCHANGED <<want, handles, space, value, presumed, pending>>

\* i915_gem_execbuffer_reserve: what must be mappable goes first.
Ordered(list) == Reverse(SelectSeq(list, Needs)) \o SelectSeq(list, LAMBDA o : ~Needs(o))
Order ==
    /\ call.pc = "order"
    /\ pending' = [o \in ExecObjs |-> IF o \in Listed THEN {} ELSE pending[o]]
    /\ call' = [call EXCEPT !.pc = "bound", !.todo = Ordered(call.list)]
    /\ UNCHANGED <<want, handles, space, value, presumed, calls, unreported, wrong>>

\* First pass: what is bound is unbound if it is misplaced, else pinned.
Bound ==
    /\ call.pc = "bound"
    /\ IF call.todo = <<>> THEN
         /\ call' = [call EXCEPT !.pc = "unbound", !.todo = Ordered(call.list)] /\ UNCHANGED space
       ELSE LET o == Head(call.todo) IN
         IF space[o] = None THEN
           /\ call' = [call EXCEPT !.todo = Tail(@)] /\ UNCHANGED space
         ELSE IF space[o] \notin Fitting(o) THEN
           /\ space' = [space EXCEPT ![o] = None] /\ call' = [call EXCEPT !.todo = Tail(@)]
         ELSE
           /\ call' = [call EXCEPT !.todo = Tail(@), !.pinned = @ \cup {o}] /\ UNCHANGED space
    /\ UNCHANGED <<want, handles, value, presumed, pending, calls, unreported, wrong>>

\* Second pass: the others are bound; where there is no room one that is not pinned is evicted.
Reserved(pc) == call' = [call EXCEPT !.pc = pc, !.todo = <<>>, !.pinned = {}]    \* and unreserve_object
Unbound ==
    /\ call.pc = "unbound"
    /\ IF call.todo = <<>> THEN
         Reserved("relocate") /\ UNCHANGED space
       ELSE LET o == Head(call.todo)
                places == Fitting(o) \ {space[p] : p \in call.pinned} IN
         IF space[o] # None THEN
           /\ call' = [call EXCEPT !.todo = Tail(@)] /\ UNCHANGED space
         ELSE IF places = {} THEN
           Reserved(IF call.again THEN "nospace" ELSE "evict") /\ UNCHANGED space
         ELSE
           /\ \E s \in IF Free \cap places = {} THEN places ELSE Free \cap places :
                space' = [p \in Everything |-> IF p = o THEN s ELSE IF space[p] = s THEN None ELSE space[p]]
           /\ call' = [call EXCEPT !.todo = Tail(@), !.pinned = @ \cup {o}]
    /\ UNCHANGED <<want, handles, value, presumed, pending, calls, unreported, wrong>>
EvictEverything ==
    /\ call.pc = "evict" /\ space' = [o \in Everything |-> None]
    /\ call' = [call EXCEPT !.pc = "bound", !.todo = Ordered(call.list), !.again = TRUE]
    /\ UNCHANGED <<want, handles, value, presumed, pending, calls, unreported, wrong>>
\* An unbind, a bind or the eviction waits, and is interrupted, or has no memory.
ReserveFails ==
    /\ call.pc = "evict" \/ (call.pc \in {"bound", "unbound"} /\ call.todo # <<>>)
    /\ Return
    /\ UNCHANGED <<want, handles, space, value, presumed, pending, unreported, wrong>>
NoSpace ==
    /\ call.pc = "nospace" /\ Return
    /\ UNCHANGED <<want, handles, space, value, presumed, pending, unreported, wrong>>

\* relocate_entry: the domains, then the page unless the place is the presumed one
Clash(r, pend) == LET t == call.list[want.relocs[r][1]] d == want.relocs[r][2] IN d # None /\ pend[t] \ {d} # {}
Pending(r, pend) ==
    LET t == call.list[want.relocs[r][1]] d == want.relocs[r][2] IN
    [pend EXCEPT ![t] = @ \cup ({d} \ {None})]
Place(r) == space[call.list[want.relocs[r][1]]]
Written(known, val) == [r \in Relocs |-> IF Place(r) = known[r] THEN val[r] ELSE Place(r)]

\* The fast path: the list of the user is written as it goes, and a fault of either copy ends it.
Relocate ==
    /\ call.pc = "relocate" /\ ~call.slow
    /\ LET all == Pending(2, Pending(1, pending))
           done == Written(presumed, value[call.list[Batch]]) IN
       \/ /\ ~Clash(1, pending) /\ ~Clash(2, Pending(1, pending))
          /\ pending' = all /\ value' = [value EXCEPT ![call.list[Batch]] = done]
          /\ presumed' = [r \in Relocs |-> Place(r)] /\ Pc("dispatch") /\ UNCHANGED calls
          /\ unreported' = {r \in unreported : Place(r) = presumed[r]}
       \/ /\ Clash(1, pending) \/ Clash(2, Pending(1, pending))
          /\ pending' = all /\ Return /\ UNCHANGED <<value, presumed, unreported>>
       \/ /\ \E n \in 0..1, lost \in BOOLEAN :    \* n relocations are done, and perhaps one whose report is lost
             LET pages == {r \in Relocs : r <= n \/ (lost /\ r = n + 1)} IN
             /\ lost => Place(n + 1) # presumed[n + 1]
             /\ value' = [value EXCEPT ![call.list[Batch]] = [r \in Relocs |-> IF r \in pages THEN done[r] ELSE @[r]]]
             /\ presumed' = [r \in Relocs |-> IF r <= n THEN Place(r) ELSE presumed[r]]
             /\ unreported' = {r \in unreported : r > n \/ Place(r) = presumed[r]} \cup {r \in {n + 1} : lost}
          /\ pending' = all
          /\ call' = [call EXCEPT !.pc = "copy", !.list = <<>>, !.slow = TRUE, !.again = FALSE] /\ UNCHANGED calls
    /\ UNCHANGED <<want, handles, space, wrong>>

\* Mutant: the user's list stays as it is
CopyOnly ==
    /\ call.pc = "copy" /\ call' = [call EXCEPT !.pc = "relock", !.copy = presumed]
    /\ UNCHANGED <<want, handles, space, value, presumed, pending, calls, unreported, wrong>>
\* The slow path, without the mutex: the list is copied, and the user's is marked invalid;
\* the memory for it, a copy or the mutex may fail.
Copy ==
    /\ call.pc = "copy"
    /\ \/ call' = [call EXCEPT !.pc = "relock", !.copy = presumed] /\ presumed' = Invalid /\ UNCHANGED calls
       \/ \E n \in 0..2 : presumed' = [r \in Relocs |-> IF r <= n THEN None ELSE presumed[r]] /\
                          Return
    /\ UNCHANGED <<want, handles, space, value, pending, unreported, wrong>>
RelocateSlow ==
    /\ call.pc = "relocate" /\ call.slow
    /\ pending' = Pending(2, Pending(1, pending))
    /\ value' = [value EXCEPT ![call.list[Batch]] = Written(call.copy, @)]
    /\ IF Clash(1, pending) \/ Clash(2, Pending(1, pending)) THEN Return ELSE Pc("dispatch") /\ UNCHANGED calls
    /\ UNCHANGED <<want, handles, space, presumed, unreported, wrong>>

\* The batch is the object of the first lookup.
Misplaced == {r \in Relocs : value[call.batch][r] # Place(r)}
Dispatch ==
    /\ call.pc = "dispatch"
    /\ Return
    /\ \/ UNCHANGED wrong                          \* move_to_gpu, the context or the ring fails
       \/ /\ pending[call.batch] = {}
          /\ wrong' = wrong \cup {<<"misfit", h>> : h \in {g \in {Target, Batch} : space[call.list[g]] \notin Fitting(call.list[g])}}
                      \cup (IF call.batch # call.list[Batch] THEN {<<"stale", Batch>>} ELSE {<<"moved", r>> : r \in Misplaced})
    /\ UNCHANGED <<want, handles, space, value, presumed, pending, unreported>>
------------------------------------------------------------------------------
\* Others get the mutex between calls and while the slow path copies.
Unlocked == call.pc \in {"idle", "copy", "relock"}
Move ==    \* an eviction, or a client that needs a place
    /\ Unlocked
    /\ \/ \E o \in Everything : space[o] # None /\ space' = [space EXCEPT ![o] = None]
       \/ \E s \in Slots : /\ space[Foreign] = None
                           /\ space' = [o \in Everything |-> IF o = Foreign THEN s ELSE IF space[o] = s THEN None ELSE space[o]]
    /\ UNCHANGED <<want, handles, value, presumed, call, pending, calls, unreported, wrong>>
\* A handle is closed, and may come again for another object, one that has a handle
\* included; the next call finds it so, and between the calls it is left as it is.
Close(h) ==
    /\ call.pc \in {"copy", "relock"} /\ handles[h] # None /\ handles' = [handles EXCEPT ![h] = None]
    /\ wrong' = wrong \cup {<<"closed", h>>}
    /\ UNCHANGED <<want, space, value, presumed, call, pending, calls, unreported>>
Open(h) ==
    /\ call.pc \in {"copy", "relock"} /\ handles[h] = None
    /\ \E o \in ExecObjs : handles' = [handles EXCEPT ![h] = o]
    /\ presumed' = Invalid    \* a new list for new objects
    /\ UNCHANGED <<want, space, value, call, pending, calls, unreported, wrong>>

ExecNext ==
    /\ <<"stale", Batch>> \notin wrong
    /\ \/ LookUp \/ Order \/ Bound \/ Unbound \/ EvictEverything \/ ReserveFails \/ NoSpace
       \/ Relocate \/ Copy \/ RelocateSlow \/ Dispatch
       \/ Move \/ (\E h \in {Target, Batch} : Close(h) \/ Open(h))
ExecSpec == ExecInit /\ [][ExecNext]_execVars
------------------------------------------------------------------------------
ExecTypeOK ==
    /\ want \in Wants /\ \A o \in Everything : space[o] \in Slots \cup {None}
    /\ \A h \in {Target, Batch} : handles[h] \in ExecObjs \cup {None}
    /\ \A o \in ExecObjs : pending[o] \subseteq Domains
    /\ calls \in 0..MaxCalls /\ wrong \subseteq {"closed", "misfit", "stale", "moved"} \X {1, 2} /\ unreported \subseteq Relocs

\* A batch runs with its objects at places that fit and every relocation at the place
\* of its target, unless the report of that very relocation to the user was lost; it
\* is the batch of the list, and the list has no object twice, unless a handle was
\* closed while the slow path had no mutex.
DispatchedRight ==
    /\ ~\E h \in {Target, Batch} : <<"misfit", h>> \in wrong
    /\ \A r \in Relocs : <<"moved", r>> \in wrong => r \in unreported
    /\ <<"stale", Batch>> \in wrong => <<"closed", Batch>> \in wrong
    /\ call.pc = "spins" => \E h \in {Target, Batch} : <<"closed", h>> \in wrong
\* No place is given twice, and only what cannot be placed is refused for lack of space.
SpaceOwned == \A o, p \in Everything : o # p /\ space[o] # None => space[o] # space[p]
RefusedRight ==
    call.pc = "nospace" => Cardinality({o \in Listed : Needs(o)}) > Cardinality(Mappable) \/ Cardinality(Listed) > Cardinality(Slots)
ExecSafe == DispatchedRight /\ SpaceOwned /\ RefusedRight
=============================================================================
