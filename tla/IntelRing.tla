------------------------------ MODULE IntelRing ------------------------------
(***************************************************************************)
(* A ring buffer (intel_ringbuffer.c): setting it up and taking it down    *)
(* with the ways back from a failure, the space between the head of the    *)
(* hardware and the tail of the driver, the wrap, waiting for room, and    *)
(* the flushes that go before a batch and before a breadcrumb.             *)
(***************************************************************************)
EXTENDS Integers, Sequences, SequencesExt, FiniteSets

CONSTANTS Size,         \* of the ring, in words of the model
          Gap,          \* I915_RING_FREE_SPACE
          Unused,       \* words at the end that some chips must not use
          MaxSeqno,     \* bound on the requests
          RingGens      \* generations to model; 2 needs a copy of its batches

VARIABLES gen, has,     \* what the ring has: memory, pins, mappings
          stage,        \* [op, todo]: setting up, running, taking down
          mem,          \* what the ring holds
          hw,           \* [head, tail]: the registers
          sw,           \* [head, tail, space, retired]: the copies of the driver
          todo,         \* the commands that are still to be emitted
          requests,     \* [seqno, tail], oldest first
          olr, done,    \* the next seqno, and the last the hardware wrote
          dirty,        \* gpu_caches_dirty
          caches,       \* [written, stale]: a batch left data there
          order,        \* the commands that were emitted and not executed
          amiss
ringVars == <<gen, has, stage, mem, hw, sw, todo, requests, olr, done, dirty, caches, order, amiss>>

ASSUME RingAssumption ==
    /\ Size \in Nat /\ Gap \in 1..Size /\ Unused \in 0..Size - 1
    /\ MaxSeqno \in Nat /\ RingGens \subseteq Nat
Words == 0..Size - 1
Nop == "noop"
Old == gen = 2                       \* HAS_BROKEN_CS_TLB
Effective == IF Old THEN Size - Unused ELSE Size
\* Mutant: what is behind the wrap is not added
RingSpaceFlat(head, tail) == head - (tail + Gap)
RingSpace(head, tail) == (head - (tail + Gap)) % Size

\* intel_init_render_ring_buffer, intel_init_ring_buffer and init_render_ring
Steps == IF Old THEN <<"copy", "status", "object", "pin", "map", "start">>
         ELSE IF gen >= 5 THEN <<"status", "object", "pin", "map", "start", "control">>
         ELSE <<"status", "object", "pin", "map", "start">>
\* cleanup_status_page knows only a page that is an object; that of init_phys_hws_pga
\* stays until i915_free_hws, when the driver is unloaded.
Page == IF Old THEN {} ELSE {"status"}
\* What a failure of a step undoes: the copy stays.
Undone(s) == CASE s \in {"start", "control"} -> {"map", "pin", "object", "start"} \cup Page
               [] s \in {"map", "pin"} -> {"pin", "object"} \cup Page
               [] s = "object" -> Page
               [] OTHER -> {}

Length(c) == IF c \in {"invalidate", "flush"} THEN 1 ELSE 2
RingInit ==
    /\ gen \in RingGens /\ has = {} /\ stage = [op |-> "setup", todo |-> Steps]
    /\ mem = [w \in Words |-> Nop] /\ hw = [head |-> 0, tail |-> 0]
    /\ sw = [head |-> 0, tail |-> 0, space |-> Size - Gap, retired |-> -1]
    /\ todo = <<>> /\ requests = <<>> /\ olr = 1 /\ done = 0
    /\ dirty = FALSE /\ caches = [written |-> FALSE, stale |-> FALSE] /\ order = <<>> /\ amiss = {}
streamVars == <<mem, hw, sw, todo, requests, olr, done, dirty, caches, order>>
------------------------------------------------------------------------------
Setup ==
    /\ stage.op = "setup"
    /\ LET s == Head(stage.todo) rest == Tail(stage.todo) IN
       \/ /\ has' = has \cup {s}
          /\ stage' = IF rest = <<>> THEN [op |-> "run", todo |-> <<>>] ELSE [stage EXCEPT !.todo = rest]
          /\ UNCHANGED amiss
       \* init_pipe_control overwrites the result of init_ring_common.
       \/ /\ s = "start" /\ gen >= 5 /\ amiss' = {"unstarted"} /\ UNCHANGED <<has, stage>>
       \* Without an address for its page it gives up what it has, and reports success.
       \/ /\ s = "control" /\ amiss' = {"uncontrolled"} /\ UNCHANGED <<has, stage>>
       \/ /\ s # "start" \/ gen < 5
          /\ has' = has \ Undone(s) /\ stage' = [op |-> "failed", todo |-> <<>>] /\ UNCHANGED amiss
    /\ UNCHANGED <<gen, streamVars>>

\* intel_cleanup_ring_buffer, after intel_ring_idle or in spite of its failure, with
\* requests left; render_ring_cleanup takes the copy for a pipe control.
Cleanup ==
    /\ stage.op = "run" /\ todo = <<>>
    /\ IF Old THEN amiss' = {"copy"} /\ has' = has \ {"copy"}
       ELSE UNCHANGED amiss /\ has' = {}
    /\ stage' = [op |-> "gone", todo |-> <<>>]
    /\ UNCHANGED <<gen, streamVars>>

\* An execbuffer: invalidate_all_caches, the batch, and add_request, which flushes
\* what is dirty; its return value is ignored.
Exec ==
    /\ stage.op = "run" /\ todo = <<>> /\ olr <= MaxSeqno
    /\ todo' = <<"invalidate", "batch", "flush", "seqno">>
    /\ UNCHANGED <<gen, has, stage, mem, hw, sw, requests, olr, done, dirty, caches, order, amiss>>
\* intel_ring_idle and others, when a call that gave up has left its number
AddRequest ==
    /\ stage.op = "run" /\ todo = <<>> /\ olr <= MaxSeqno
    /\ todo' = <<"flush", "seqno">>
    /\ UNCHANGED <<gen, has, stage, mem, hw, sw, requests, olr, done, dirty, caches, order, amiss>>

\* intel_ring_begin
Wrapping(n) == sw.tail + n > Effective
Needed(n) == IF Wrapping(n) THEN Size - sw.tail ELSE n
Fill(from, n, c) == [w \in Words |-> IF w = from THEN c ELSE IF w - from \in 1..n - 1 THEN Nop ELSE mem[w]]    \* Nop for its operands
Overwrites(from, n) == \E i \in 0..n - 1 : LET w == from + i IN w < Size /\ (w - hw.head) % Size < (hw.tail - hw.head) % Size
Running == stage.op = "run" /\ todo # <<>>

Wrap ==
    /\ Running /\ Wrapping(Length(Head(todo))) /\ sw.space >= Size - sw.tail
    /\ mem' = Fill(sw.tail, Size - sw.tail, Nop)
    /\ amiss' = {a \in {"overwritten"} : Overwrites(sw.tail, Size - sw.tail)}
    /\ sw' = [sw EXCEPT !.tail = 0, !.space = RingSpace(sw.head, 0)]
    /\ UNCHANGED <<gen, has, stage, hw, todo, requests, olr, done, dirty, caches, order>>

\* Mutant: it ends where the breadcrumb ends
RequestEnd == (sw.tail + Length("seqno")) % Size
\* Emitting and intel_ring_advance; the request ends where the breadcrumb begins.
RequestTail == sw.tail
Emit ==
    /\ Running /\ LET c == Head(todo) n == Length(c) tail == (sw.tail + n) % Size
                      skip == c = "flush" /\ ~dirty IN
       IF skip THEN
         /\ todo' = Tail(todo) /\ UNCHANGED <<mem, hw, sw, requests, olr, dirty, order, amiss>>
       ELSE
         /\ ~Wrapping(n) /\ sw.space >= n
         /\ mem' = Fill(sw.tail, n, c) /\ amiss' = {a \in {"overwritten"} : Overwrites(sw.tail, n)}
         /\ sw' = [sw EXCEPT !.tail = tail, !.space = @ - n] /\ hw' = [hw EXCEPT !.tail = tail]
         /\ order' = Append(order, c) /\ todo' = Tail(todo)
         /\ dirty' = CASE c = "batch" -> TRUE [] c \in {"flush", "invalidate"} -> FALSE [] OTHER -> dirty
         /\ IF c = "seqno" THEN
              /\ requests' = Append(requests, [seqno |-> olr, tail |-> RequestTail]) /\ olr' = olr + 1
            ELSE UNCHANGED <<requests, olr>>
    /\ UNCHANGED <<gen, has, stage, done, caches>>

\* ring_wait_for_space: what is retired first, then the oldest request that leaves room,
\* then the head of the hardware, until a minute is over.
Retired == {i \in DOMAIN requests : requests[i].seqno <= done}
Retire ==    \* i915_gem_retire_requests_ring, by anyone who has the mutex
    /\ Retired # {}
    /\ sw' = [sw EXCEPT !.retired = requests[Cardinality(Retired)].tail]
    /\ requests' = SubSeq(requests, Cardinality(Retired) + 1, Len(requests))
    /\ UNCHANGED <<gen, has, stage, mem, hw, todo, olr, done, dirty, caches, order, amiss>>
Short == Running /\ ~(Head(todo) = "flush" /\ ~dirty) /\ sw.space < Needed(Length(Head(todo)))
TakeRetired ==
    /\ Short /\ Retired = {} /\ sw.retired # -1
    /\ sw' = [sw EXCEPT !.head = sw.retired, !.space = RingSpace(sw.retired, sw.tail), !.retired = -1]
    /\ UNCHANGED <<gen, has, stage, mem, hw, todo, requests, olr, done, dirty, caches, order, amiss>>
Suffices(r) == r.tail # -1 /\ RingSpace(r.tail, sw.tail) >= Needed(Length(Head(todo)))
\* A request that does not leave room loses its place.
Skipped == LET k == SelectInSeq(requests, Suffices) IN
           [i \in DOMAIN requests |-> IF k = 0 \/ i < k THEN [requests[i] EXCEPT !.tail = -1] ELSE requests[i]]
Search ==
    /\ Short /\ Retired = {} /\ sw.retired = -1 /\ requests # Skipped
    /\ requests' = Skipped
    /\ UNCHANGED <<gen, has, stage, mem, hw, sw, todo, olr, done, dirty, caches, order, amiss>>
Poll ==
    /\ Short /\ Retired = {} /\ sw.retired = -1 /\ \A i \in DOMAIN requests : ~Suffices(requests[i])
    /\ sw' = [sw EXCEPT !.head = hw.head, !.space = RingSpace(hw.head, sw.tail)]
    /\ UNCHANGED <<gen, has, stage, mem, hw, todo, requests, olr, done, dirty, caches, order, amiss>>
\* A wedged chip, no number or, with no room, a signal or the time end the call; its
\* breadcrumb comes with the next.
GiveUp ==
    /\ Running /\ (Head(todo) = "flush" => dirty) /\ todo' = <<>>
    /\ UNCHANGED <<gen, has, stage, mem, hw, sw, requests, olr, done, dirty, caches, order, amiss>>

\* The hardware: a batch leaves data in the caches and makes those of the readers stale.
Execute ==
    /\ stage.op = "run" /\ hw.head # hw.tail
    /\ LET c == mem[hw.head] IN
       /\ hw' = [hw EXCEPT !.head = (@ + 1) % Size]
       /\ IF c = Nop THEN
            UNCHANGED <<done, caches, order, amiss>>
          ELSE
            /\ order' = Tail(order)
            /\ done' = IF c = "seqno" THEN done + 1 ELSE done
            /\ caches' = CASE c = "batch" -> [written |-> TRUE, stale |-> TRUE]
                           [] c = "flush" -> [caches EXCEPT !.written = FALSE]
                           [] c = "invalidate" -> [written |-> FALSE, stale |-> FALSE]
                           [] OTHER -> caches
            /\ amiss' = {a \in {"order"} : order = <<>> \/ Head(order) # c}
                        \cup {a \in {"stale"} : c = "batch" /\ caches.stale}
                        \cup {a \in {"unflushed"} : c = "seqno" /\ caches.written}
    /\ UNCHANGED <<gen, has, stage, mem, sw, todo, requests, olr, dirty>>

RingNext ==
    /\ amiss = {}
    /\ \/ Setup \/ Cleanup \/ Exec \/ AddRequest \/ Wrap \/ Emit \/ Retire \/ TakeRetired \/ Search \/ Poll \/ GiveUp \/ Execute
RingSpec == RingInit /\ [][RingNext]_ringVars
------------------------------------------------------------------------------
RingTypeOK ==
    /\ sw.tail \in Words /\ sw.space \in 0..Size /\ hw.head \in Words /\ olr \in 1..MaxSeqno + 1 /\ done \in 0..MaxSeqno
    /\ stage.op \in {"setup", "run", "failed", "gone"} /\ has \subseteq ToSet(Steps)

\* What the hardware has not read is never written over, it reads what was emitted
\* and in that order, a batch finds no stale data, and a breadcrumb is written
\* when the data of the batches before it are out of the caches.
StreamRight == amiss \subseteq {"unstarted", "uncontrolled", "copy"}
\* The driver never counts more space than there is.
SpaceCounted == stage.op = "run" /\ amiss = {} => sw.space <= RingSpace(hw.head, sw.tail)
\* A failure leaves nothing, but on old chips the copy and the physical status page.
NothingLeft == stage.op = "failed" => has \subseteq IF Old THEN {"copy", "status"} ELSE {}
RingSafe == StreamRight /\ SpaceCounted /\ NothingLeft
=============================================================================
