------------------------------ MODULE I915Dri ------------------------------
(***************************************************************************)
(* The render ring without mode setting (i915_dma.c): an X server maps a   *)
(* ring of its own and writes into it under the hardware lock, or it lets  *)
(* GEM have one (i915_gem.c) between entervt and leavevt, and clients put  *)
(* commands and breadcrumbs there with the old ioctls, which hold          *)
(* drm_global_mutex throughout.  A command is one cell.  The chip has      *)
(* its status page in a place the server maps (gfx) or in system memory.   *)
(* Behaviours end with the first thing that goes wrong.                    *)
(***************************************************************************)
EXTENDS Integers, Sequences

CONSTANTS Cells,        \* of the ring
          MaxCounter,   \* 0x7FFFFFFF
          None

\* dri: gfx, master ("none", "bare", "sarea"), ring ("none", "dri", "gem", "stale": taken down with
\* virtual_start left), hws (what READ_HWSP reads: "none" also when it is gone, "mapped", "other":
\* the GPU writes elsewhere), irq, suspended; mem, head, tail of the ring and shead, stail of the
\* driver, sent (what was written and not executed), olr; counter, enqueue (of the sarea), crumb
\* (in the status page); lock and half (a command of the server before its tail), job (a call
\* with struct_mutex), wait (the number, and whether it sleeps), wrapped, lost.
VARIABLE dri

DriAssumption == Cells \in Nat /\ Cells > 1 /\ MaxCounter \in Nat \ {0}
Empty == <<"noop", 0>>
Commands == {Empty, <<"work", 0>>, <<"server", 0>>} \cup ({"crumb"} \X (0..MaxCounter + 1))
Fresh(h) == [h EXCEPT !.mem = [i \in 0..Cells - 1 |-> Empty], !.head = 0, !.tail = 0, !.shead = 0, !.stail = 0,
                      !.sent = <<>>]
\* What goes wrong ends the behaviour; what was in the ring no longer matters.
Slip(h, what) == Fresh([h EXCEPT !.lost = {what}, !.job = None, !.wait = None])

DriInit == \E chip \in BOOLEAN :
    dri = [gfx |-> chip, master |-> "none", ring |-> "none", hws |-> "none", irq |-> FALSE, suspended |-> TRUE,
           mem |-> [i \in 0..Cells - 1 |-> Empty], head |-> 0, tail |-> 0, shead |-> 0, stail |-> 0, sent |-> <<>>,
           olr |-> FALSE, counter |-> 0, enqueue |-> None, crumb |-> 0, lock |-> "none", half |-> FALSE,
           job |-> None, wait |-> None, wrapped |-> FALSE, lost |-> {}]
------------------------------------------------------------------------------
Going == dri.lost = {}
Free == Going /\ dri.job = None                 \* struct_mutex
Alone == Free /\ dri.wait = None                \* and drm_global_mutex
Server == dri.master # "none" /\ ~dri.half      \* the X server may call
Room(head, tail) == (head - (tail + 1)) % Cells
\* Mutant: the driver trusts its own copies
KernelLostNothing(h) == h
\* i915_kernel_lost_context: the server may have moved both.
KernelLostContext(h) == [h EXCEPT !.shead = h.head, !.stail = h.tail]
\* intel_ring_emit and intel_ring_advance
Put(h, c) == [h EXCEPT !.mem[h.stail] = c, !.stail = (@ + 1) % Cells, !.tail = (h.stail + 1) % Cells,
                       !.sent = Append(@, c), !.olr = TRUE]

\* i915_dma_cleanup: a ring of the server is not unmapped, a GEM ring goes whatever GEM does.
DmaCleanup(h) ==
    LET c == [h EXCEPT !.irq = FALSE, !.ring = IF @ = "gem" THEN "stale" ELSE @, !.hws = IF h.gfx THEN "none" ELSE @]
    IN IF h.ring = "gem" /\ ~h.suspended THEN Slip(c, "ringless") ELSE c
\* i915_gem_idle, when the GPU could be idled; it may not be
GemIdle(h) == IF h.suspended THEN h
              ELSE [h EXCEPT !.suspended = TRUE, !.olr = FALSE, !.ring = IF @ = "gem" THEN "stale" ELSE @]
Idled == {dri} \cup (IF dri.suspended \/ dri.head = dri.tail THEN {GemIdle(dri)} ELSE {})
\* A new mapping of the ring, while the last may still be there
Mapped(h, ring) == LET m == Fresh([h EXCEPT !.ring = ring]) IN IF h.ring = "dri" THEN Slip(m, "leak") ELSE m
------------------------------------------------------------------------------
BecomeMaster == Free /\ dri.master = "none" /\ dri' = [dri EXCEPT !.master = "bare", !.enqueue = None]
DropMaster == Alone /\ Server /\ dri' = [dri EXCEPT !.master = "none", !.lock = "none"]

\* i915_dma_init; resuming only gives the GPU the address of its page again.
InitDma(sarea, own) ==
    /\ Alone /\ Server
    /\ LET h == [dri EXCEPT !.master = IF sarea THEN "sarea" ELSE @]
           paged(g) == IF g.gfx THEN g ELSE [g EXCEPT !.hws = "mapped", !.crumb = 0]
       IN \/ ~own /\ dri' = h
          \/ own /\ h.ring = "gem" /\ dri' = DmaCleanup(h)
          \/ own /\ h.ring # "gem" /\ dri' \in {paged(Mapped(h, "dri")), DmaCleanup(Mapped(h, "none"))}
          \/ own /\ h.ring # "gem" /\ ~h.gfx /\ dri' = DmaCleanup(Mapped(h, "dri"))    \* no status page
CleanupDma == Alone /\ Server /\ dri' = DmaCleanup(dri)
\* i915_set_status_page maps again without looking, and takes the GPU from the page of GEM.
SetStatusPage ==
    /\ Alone /\ Server /\ dri.gfx
    /\ dri' \in {DmaCleanup(dri), CASE dri.ring = "gem" -> Slip(dri, "moved")
                                     [] dri.ring # "gem" /\ dri.hws # "none" -> Slip(dri, "leak")
                                     [] OTHER -> [dri EXCEPT !.hws = "mapped", !.crumb = 0]}
Control == Alone /\ Server /\ dri' = [dri EXCEPT !.irq = ~@]    \* drm_control

\* i915_gem_init_ioctl, without the guard that its comment asks for
GemInitTwice == Free /\ Server /\ ~dri.suspended /\ dri' = Slip(dri, "again")
EnterVt ==
    /\ Free /\ Server /\ dri.suspended
    /\ LET h == [Mapped(dri, "gem") EXCEPT !.suspended = FALSE, !.crumb = IF dri.gfx THEN @ ELSE 0,
                                          !.hws = IF ~dri.gfx THEN "mapped" ELSE IF @ = "none" THEN @ ELSE "other"]
       IN \/ dri' = IF dri.irq THEN GemIdle(h) ELSE [h EXCEPT !.irq = TRUE]
          \/ dri' = Slip([dri EXCEPT !.suspended = FALSE], "ringless")    \* i915_gem_init_hw fails
LeaveVt == Free /\ Server /\ \E h \in Idled : dri' = [h EXCEPT !.irq = FALSE]
\* i915_driver_lastclose goes on when GEM could not be idled.
LastClose ==
    /\ Alone /\ ~dri.half
    /\ \E h \in Idled : dri' = [DmaCleanup(h) EXCEPT !.master = "none", !.lock = "none"]
------------------------------------------------------------------------------
\* Who has the lock while GEM has the ring changes nothing.
TakeLock(who) ==
    /\ Free /\ dri.ring # "gem" /\ dri.master # "none" /\ dri.lock = "none"
    /\ dri' = [dri EXCEPT !.lock = who]
Unlock == Free /\ dri.lock # "none" /\ ~dri.half /\ dri' = [dri EXCEPT !.lock = "none"]
\* The server writes the ring itself, first the command and then the tail.
ServerWrite ==
    /\ Going /\ dri.lock = "server" /\ dri.ring = "dri" /\ ~dri.half /\ Room(dri.head, dri.tail) > 0
    /\ dri' = [dri EXCEPT !.mem[dri.tail] = <<"server", 0>>, !.half = TRUE]
ServerKick ==
    /\ Going /\ dri.half
    /\ dri' = [dri EXCEPT !.half = FALSE, !.tail = (@ + 1) % Cells, !.sent = Append(@, <<"server", 0>>)]

\* What the calls do once they have struct_mutex, one step for each
FlipSteps == <<"flip", "behind", "crumb">>
Steps(op) ==
    CASE op \in {"cmd", "batch"} -> <<"work", "count", "crumb", "read">>
      [] op = "flip" -> FlipSteps
      [] op = "irq" -> <<"count", "crumb">>
      [] op = "flush" -> IF dri.olr THEN <<"seqno", "drain">> ELSE <<"drain">>
      [] op = "exec" -> <<"work", "seqno">>
Start(op) == [dri EXCEPT !.job = [op |-> op, todo |-> Steps(op)]]
\* RING_LOCK_TEST_WITH_RETURN: only the ring of the server needs the lock.
Legacy(op) ==
    /\ Alone /\ (dri.ring = "gem" \/ dri.lock = "client")
    /\ op = "irq" => dri.ring # "none"
    /\ \/ dri.master = "none" /\ op # "flush" /\ dri' = Slip(dri, "no master")
       \/ /\ dri.master # "none" \/ op = "flush"
          /\ op = "flip" => dri.master = "sarea" /\ dri.counter <= MaxCounter    \* and the bound
          /\ dri' = KernelLostContext(Start(op))
\* GEM looks at the head when it has no room; here it always does.
Execbuffer == Free /\ ~dri.suspended /\ dri.ring = "gem" /\ dri' = [Start("exec") EXCEPT !.shead = dri.head]

Working == Going /\ dri.job # None
Now(steps) == Working /\ Head(dri.job.todo) \in steps
Done(h) == [h EXCEPT !.job = None, !.shead = 0]
Rest(h) == IF Len(h.job.todo) = 1 THEN Done(h) ELSE [h EXCEPT !.job.todo = Tail(@)]
One(b) == IF b THEN 1 ELSE 0
Enqueue(h, n) == [h EXCEPT !.counter = n, !.enqueue = IF h.master = "sarea" THEN n ELSE @,
                           !.wrapped = @ \/ n <= h.counter]
Emits == {"work", "flip", "crumb", "seqno"}
Cell(s) == IF s = "crumb" THEN <<"crumb", dri.counter>> ELSE <<"work", 0>>
\* intel_ring_begin has room, or reads the head again, or gives up when the GPU does not
\* move or there is no ring: the breadcrumb is then left out, and everything else ends the call.
Emit ==
    /\ Now(Emits) /\ dri.ring # "none"
    /\ LET s == Head(dri.job.todo) h == Put(dri, Cell(s)) IN
       \/ dri.ring = "stale" /\ dri' = Slip(dri, "wild")    \* the mapping is gone
       \/ /\ dri.ring # "stale" /\ Room(dri.shead, dri.stail) > 0
          /\ ~(dri.ring = "dri" /\ dri.gfx /\ s = "seqno")
          /\ dri' = Rest([h EXCEPT !.olr = s # "seqno"])
       \* The seqno is read through status_page.page_addr, which nobody set.
       \/ s = "seqno" /\ dri.ring = "dri" /\ dri.gfx /\ dri' = Slip(dri, "no page")
       \/ Room(dri.shead, dri.stail) = 0 /\ dri.shead # dri.head /\ dri' = [dri EXCEPT !.shead = dri.head]
GiveUp ==
    /\ Now(Emits) /\ dri.ring # "stale"
    /\ dri.ring = "none" \/ (Room(dri.shead, dri.stail) = 0 /\ dri.shead = dri.head)
    /\ LET s == Head(dri.job.todo) h == [dri EXCEPT !.olr = TRUE] IN
       dri' = CASE s = "crumb" -> Rest(h)
                [] s = "seqno" /\ dri.ring = "none" -> Slip(h, "no ring")    \* ring->add_request
                [] dri.job.op = "batch" -> [h EXCEPT !.job.todo = <<"read">>]
                [] OTHER -> Done(h)
\* The counter: i915_emit_breadcrumb wraps to 0, i915_emit_irq to 1, and i915_dispatch_flip
\* does not, and tells the client the number before its own.
Count ==
    /\ Now({"count", "behind", "read"})
    /\ LET s == Head(dri.job.todo) next == dri.counter + 1 IN
       dri' = CASE s = "count" -> Rest(Enqueue(dri, IF next <= MaxCounter THEN next ELSE One(dri.job.op = "irq")))
                [] s = "behind" -> Rest([dri EXCEPT !.enqueue = dri.counter, !.counter = next])
                [] s = "read" -> IF dri.master = "sarea" /\ dri.hws = "none" THEN Slip(dri, "no page") ELSE Rest(dri)
Drain == Now({"drain"}) /\ dri.head = dri.tail /\ dri' = Rest(dri)

\* The GPU.  An interrupt handler reads the breadcrumb for the sarea.
Execute ==
    /\ Going /\ dri.head # dri.tail
    /\ LET c == dri.mem[dri.head] IN
       dri' = [dri EXCEPT !.mem[dri.head] = Empty, !.head = (@ + 1) % Cells, !.sent = Tail(@),
                          !.crumb = IF c[1] = "crumb" /\ dri.hws = "mapped" THEN c[2] ELSE @]
Interrupt == Going /\ dri.irq /\ dri.master = "sarea" /\ dri.hws = "none" /\ dri' = Slip(dri, "no page")
------------------------------------------------------------------------------
\* i915_wait_irq, for the last number given out.  Nobody wakes who sleeps on the ring of the
\* server (notify_ring), and the three seconds end in an error without another look.
Due(nr) == \E i \in DOMAIN dri.sent : dri.sent[i] = <<"crumb", nr>>
Return0(nr) == IF Due(nr) THEN Slip(dri, "early") ELSE [dri EXCEPT !.wait = None]
Wait ==
    /\ Alone
    /\ dri' = CASE dri.master = "none" -> Slip(dri, "no master")
                [] dri.hws = "none" -> Slip(dri, "no page")
                [] dri.master # "none" /\ dri.hws # "none" ->
                     IF dri.crumb >= dri.counter THEN Return0(dri.counter)
                     ELSE [dri EXCEPT !.wait = [nr |-> dri.counter, sleeps |-> dri.irq]]
Waiting == Going /\ dri.wait # None
Notified == ~dri.wait.sleeps \/ (dri.ring = "gem" /\ dri.irq)
Woken == Waiting /\ Notified /\ dri.crumb >= dri.wait.nr /\ dri' = Return0(dri.wait.nr)
TimedOut ==
    /\ Waiting /\ (dri.crumb < dri.wait.nr \/ ~Notified)
    /\ dri' = IF dri.crumb >= dri.wait.nr THEN Slip(dri, "late") ELSE [dri EXCEPT !.wait = None]

DriNext ==
    \/ BecomeMaster \/ DropMaster \/ (\E sarea, own \in BOOLEAN : InitDma(sarea, own)) \/ CleanupDma
    \/ SetStatusPage \/ Control \/ GemInitTwice \/ EnterVt \/ LeaveVt \/ LastClose
    \/ (\E who \in {"server", "client"} : TakeLock(who)) \/ Unlock \/ ServerWrite \/ ServerKick
    \/ (\E op \in {"cmd", "batch", "flip", "irq", "flush"} : Legacy(op)) \/ Execbuffer
    \/ Emit \/ GiveUp \/ Count \/ Drain \/ Execute \/ Interrupt \/ Wait \/ Woken \/ TimedOut
DriSpec == DriInit /\ [][DriNext]_dri
------------------------------------------------------------------------------
DriTypeOK ==
    /\ \A i \in 0..Cells - 1 : dri.mem[i] \in Commands
    /\ {dri.head, dri.tail, dri.shead, dri.stail} \subseteq 0..Cells - 1
    /\ dri.counter \in 0..MaxCounter + 1 /\ dri.crumb \in 0..MaxCounter + 1
    /\ dri.ring \in {"none", "dri", "gem", "stale"} /\ dri.hws \in {"none", "mapped", "other"}

\* What the GPU will execute is what was written, by whom and in the order it was.
Intact ==
    Len(dri.sent) = (dri.tail - dri.head) % Cells
    /\ \A i \in DOMAIN dri.sent : dri.mem[(dri.head + i - 1) % Cells] = dri.sent[i]
\* What the sarea says was enqueued is the last number, or after a flip the one before.
Told ==
    Going /\ dri.job = None /\ dri.master = "sarea" =>
        dri.enqueue \in {None, dri.counter, dri.counter - 1}
\* While the counter has not wrapped, a wait that succeeds was for what is done.
Answered == "early" \in dri.lost => dri.wrapped
\* GEM runs only with its ring, unless somebody took it or it was never there.
Held == ~dri.suspended => dri.ring = "gem" \/ "ringless" \in dri.lost
DriSafe == Intact /\ Told /\ Answered /\ Held
=============================================================================
