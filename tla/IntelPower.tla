----------------------------- MODULE IntelPower -----------------------------
(***************************************************************************)
(* What saves power in drm/i915 (intel_pm.c and its callers): framebuffer  *)
(* compression that starts 50 ms later in a work, the frequency of the GPU *)
(* (RPS on generation 6 and 7, IPS and the power contexts on generation    *)
(* 5), and the forcewake that keeps the GPU's registers awake.  They share *)
(* no state: feature says which one a behaviour is about.                  *)
(***************************************************************************)
EXTENDS Integers, FiniteSets

CONSTANTS Crtcs, Fbs,
          Flat,           \* framebuffers that can not be compressed
          MaxDelay,       \* bound on the frequencies
          MaxDue,         \* bound on the works that wait for struct_mutex
          Writers,        \* threads that write registers
          FifoSize, FifoReserved,
          NoFb

VARIABLES feature,
          fbc,      \* [crtc, hw, pending, works, cfb, doing]
          rps,      \* frequency of generation 6
          ips,      \* frequency and contexts of generation 5
          wake      \* forcewake and the FIFO of register writes
powerVars == <<feature, fbc, rps, ips, wake>>

PowerAssumption == /\ MaxDelay \in Nat \ {0} /\ Flat \subseteq Fbs /\ NoFb \notin Fbs
                   /\ FifoReserved \in 1 .. FifoSize - 1
Features == {"fbc", "rps", "ips", "wake"}
Delays == 0 .. MaxDelay
------------------------------------------------------------------------------
(* Compression.  pending is dev_priv->fbc_work, works those not yet freed. *)
NoWork == [id |-> 0, crtc |-> NoFb, fb |-> NoFb, due |-> FALSE]
Off == [crtc |-> NoFb, fb |-> NoFb, stray |-> FALSE]
FbcFirst == [crtc |-> [c \in Crtcs |-> [active |-> FALSE, fb |-> NoFb, plane |-> TRUE]],
             hw |-> Off, pending |-> 0, works |-> {}, cfb |-> Off, doing |-> NoFb]

\* intel_cancel_fbc_work frees what has not started to run.
Cancelled(s) == [s EXCEPT !.pending = 0, !.works = {w \in @ : w.id # s.pending \/ w.due}]
\* intel_disable_fbc
Disabled(s) == [Cancelled(s) EXCEPT !.hw = Off, !.cfb = Off]
Showing(s) == {c \in Crtcs : s.crtc[c].active /\ s.crtc[c].fb # NoFb /\ s.crtc[c].plane}
Lit(s, c) == [crtc |-> c, fb |-> s.crtc[c].fb, stray |-> FALSE]
\* intel_enable_fbc; without memory it starts at once and nothing is noted.
EnableFbc(s, c, memory) ==
    LET t == Cancelled(s)
        id == CHOOSE i \in 1..MaxDue + 1 : \A w \in t.works : w.id # i
    IN  IF memory THEN [t EXCEPT !.pending = id, !.works = @ \cup {[id |-> id, crtc |-> c, fb |-> s.crtc[c].fb, due |-> FALSE]}]
        ELSE [t EXCEPT !.hw = Lit(s, c)]
Stopped(s) == IF s.hw = Off THEN s ELSE Disabled(s)
\* intel_update_fbc
UpdateFbc(s, memory) ==
    IF Cardinality(Showing(s)) # 1 \/ \E c \in Showing(s) : s.crtc[c].fb \in Flat THEN Stopped(s)
    ELSE LET c == CHOOSE d \in Showing(s) : TRUE IN
         IF s.cfb = Lit(s, c) THEN s ELSE EnableFbc(Stopped(s), c, memory)

\* A mode set shows a framebuffer, or turns the crtc off in three steps: the
\* compressor, the pipe, and the update; both are under the modeset locks.
Show(c, fb, memory) ==
    /\ fbc.doing = NoFb /\ fb # fbc.crtc[c].fb
    /\ fbc' = UpdateFbc([fbc EXCEPT !.crtc[c].active = TRUE, !.crtc[c].fb = fb], memory)
Leave(c) ==
    /\ fbc.doing = NoFb /\ fbc.crtc[c].active
    /\ fbc' = [(IF fbc.cfb.crtc = c THEN Disabled(fbc) ELSE fbc) EXCEPT !.doing = c]
Left(c, gone, memory) ==
    /\ fbc.doing = c
    /\ fbc' = [UpdateFbc([fbc EXCEPT !.crtc[c].active = FALSE, !.crtc[c].fb = IF gone THEN NoFb ELSE @], memory) EXCEPT !.doing = NoFb]
\* Light up again what DPMS turned off
Return(c, memory) ==
    /\ fbc.doing = NoFb /\ ~fbc.crtc[c].active /\ fbc.crtc[c].fb # NoFb
    /\ fbc' = UpdateFbc([fbc EXCEPT !.crtc[c].active = TRUE], memory)
\* intel_crtc_page_flip, and later the unpin work
Flip(c, fb) ==
    /\ fbc.doing = NoFb /\ fbc.crtc[c].active /\ fb # fbc.crtc[c].fb
    /\ fbc' = Disabled([fbc EXCEPT !.crtc[c].fb = fb])
Unpinned(memory) == fbc' = UpdateFbc(fbc, memory) /\ fbc' # fbc
\* A sprite that covers everything turns the plane off and on.
Sprite(c, memory) ==
    /\ fbc.doing = NoFb /\ fbc.crtc[c].active
    /\ fbc' = UpdateFbc([fbc EXCEPT !.crtc[c].plane = ~@], memory)
Expire(w) == ~w.due /\ Cardinality({v \in fbc.works : v.due}) < MaxDue
             /\ fbc' = [fbc EXCEPT !.works = (@ \ {w}) \cup {[w EXCEPT !.due = TRUE]}]
\* Mutant: whatever the crtc shows by now
FbcWorkAnyFb(w) ==
    LET here == fbc.pending = w.id
        on == here
        lit == [crtc |-> w.crtc, fb |-> w.fb, stray |-> Showing(fbc) # {w.crtc}]
    IN  /\ w.due
        /\ fbc' = [fbc EXCEPT !.works = @ \ {w}, !.pending = IF here THEN 0 ELSE @,
                              !.hw = IF on THEN lit ELSE @, !.cfb = IF on THEN [lit EXCEPT !.stray = FALSE] ELSE @]
\* intel_fbc_work_fn.  It is astray when the update meant to stop it: that looks at
\* the compressor, which does not run yet, and leaves the work.
FbcWork(w) ==
    LET here == fbc.pending = w.id
        on == here /\ fbc.crtc[w.crtc].fb = w.fb
        lit == [crtc |-> w.crtc, fb |-> w.fb, stray |-> Showing(fbc) # {w.crtc}]
    IN  /\ w.due
        /\ fbc' = [fbc EXCEPT !.works = @ \ {w}, !.pending = IF here THEN 0 ELSE @,
                              !.hw = IF on THEN lit ELSE @, !.cfb = IF on THEN [lit EXCEPT !.stray = FALSE] ELSE @]
FbcNext ==
    \/ \E c \in Crtcs, memory \in BOOLEAN :
          (\E fb \in Fbs : Show(c, fb, memory)) \/ (\E gone \in BOOLEAN : Left(c, gone, memory))
          \/ Return(c, memory) \/ Sprite(c, memory)
    \/ \E c \in Crtcs : Leave(c) \/ \E fb \in Fbs : Flip(c, fb)
    \/ \E memory \in BOOLEAN : Unpinned(memory)
    \/ \E w \in fbc.works : Expire(w) \/ FbcWork(w)
------------------------------------------------------------------------------
(* RPS.  iir and imr are the registers, soft is rps.pm_iir.                *)
Events == {"up", "down"}
Lazy == [at |-> "idle", iir |-> {}]
RpsFirst == [on |-> FALSE, max |-> MaxDelay, min |-> 1, cur |-> 0, request |-> 0, ier |-> FALSE, iir |-> {}, imr |-> {},
             soft |-> {}, handler |-> Lazy, queued |-> FALSE, worker |-> Lazy, resume |-> FALSE]
Least(a, b) == IF a <= b THEN a ELSE b
\* gen6_rps_limits and gen6_set_rps
Limited(s, v) == LET u == Least(v, s.max) IN IF u <= s.min THEN s.min ELSE u
SetRps(s, v) == IF Limited(s, v) = s.cur THEN s ELSE [s EXCEPT !.cur = Limited(s, v), !.request = Limited(s, v)]

RpsEvent(e) == rps.ier /\ e \notin rps.imr /\ e \notin rps.iir /\ rps' = [rps EXCEPT !.iir = @ \cup {e}]
\* gen6_queue_rps_work in the interrupt handler: note and mask, queue, acknowledge
Take == rps.handler = Lazy /\ rps.ier /\ rps.iir # {} /\ rps' = [rps EXCEPT !.handler = [at |-> "note", iir |-> rps.iir]]
Note == rps.handler.at = "note"
        /\ rps' = [rps EXCEPT !.soft = @ \cup rps.handler.iir, !.imr = rps.soft \cup rps.handler.iir, !.handler.at = "queue"]
Queue == rps.handler.at = "queue" /\ rps' = [rps EXCEPT !.queued = TRUE, !.handler.at = "ack"]
AckPm == rps.handler.at = "ack" /\ rps' = [rps EXCEPT !.iir = @ \ rps.handler.iir, !.handler = Lazy]
\* gen6_pm_rps_work: takes the events and unmasks; then, under hw_lock, the frequency
\* Mutant: no events, no unmasking
WorkTakesSome ==
    /\ rps.queued /\ rps.worker = Lazy
    /\ rps' = IF rps.soft = {} THEN [rps EXCEPT !.queued = FALSE]
              ELSE [rps EXCEPT !.queued = FALSE, !.worker = [at |-> "set", iir |-> rps.soft], !.soft = {}, !.imr = {}]
WorkTakes ==
    /\ rps.queued /\ rps.worker = Lazy
    /\ rps' = [rps EXCEPT !.queued = FALSE, !.worker = IF rps.soft = {} THEN Lazy ELSE [at |-> "set", iir |-> rps.soft],
                          !.soft = {}, !.imr = {}]
WorkSets ==
    /\ rps.worker.at = "set"
    /\ LET new == IF "up" \in rps.worker.iir THEN rps.cur + 1 ELSE rps.cur - 1 IN
       rps' = [(IF new \in rps.min .. rps.max THEN SetRps(rps, new) ELSE rps) EXCEPT !.worker = Lazy]
\* The sysctls i915_max_freq and i915_min_freq
MaxFreq(v) == rps.on /\ rps' = SetRps([rps EXCEPT !.max = v], v)
MinFreq(v) == rps.on /\ rps' = SetRps([rps EXCEPT !.min = v], v)
\* intel_enable_gt_powersave; gen6_enable_rps, a second later; gen6_disable_rps
Resume == ~rps.on /\ ~rps.resume /\ rps' = [rps EXCEPT !.resume = TRUE]
EnableRps(v) ==
    /\ rps.resume
    /\ rps' = [SetRps([rps EXCEPT !.max = MaxDelay, !.min = 1, !.cur = 0], v)
               EXCEPT !.on = TRUE, !.resume = FALSE, !.ier = TRUE, !.imr = {}]
DisableRps == (rps.on \/ rps.resume) /\ rps' = [rps EXCEPT !.on = FALSE, !.resume = FALSE, !.request = 0, !.ier = FALSE, !.soft = {}, !.iir = {}]
RpsNext ==
    \/ \E e \in Events : RpsEvent(e)
    \/ Take \/ Note \/ Queue \/ AckPm \/ WorkTakes \/ WorkSets \/ Resume \/ DisableRps
    \/ \E v \in Delays : MaxFreq(v) \/ MinFreq(v) \/ EnableRps(v)
------------------------------------------------------------------------------
(* IPS: a small delay is fast, fmax <= fstart <= fmin.                     *)
IpsFirst == [on |-> FALSE, fmax |-> 0, fstart |-> 1, max |-> 0, min |-> MaxDelay, cur |-> 0, request |-> 0, told |-> FALSE,
             lent |-> FALSE, ctx |-> {}, pwrctxa |-> FALSE, mutex |-> "free"]
\* ironlake_set_drps fails while another command runs.
SetDrps(s, v, busy) == IF busy THEN s ELSE [s EXCEPT !.request = v]
\* ironlake_enable_drps
EnableDrps ==
    /\ ~ips.on /\ ips.mutex = "free"
    /\ ips' = [ips EXCEPT !.on = TRUE, !.max = ips.fstart, !.cur = ips.fstart, !.request = ips.fstart, !.told = FALSE, !.mutex = "rc6"]
\* ironlake_enable_rc6 with struct_mutex: the two contexts, whose allocation lets go of
\* the mutex when it fails to pin or move the page; then the ring
SetupRc6(fails) ==
    /\ ips.mutex = "rc6"
    /\ ips' = CASE fails = "no" -> [ips EXCEPT !.ctx = {"render", "power"}, !.pwrctxa = TRUE, !.mutex = "free"]
                [] fails = "ring" -> [ips EXCEPT !.ctx = {}, !.mutex = "free"]
                [] fails = "alloc" /\ ips.ctx = {} -> [ips EXCEPT !.mutex = "free"]
                [] fails = "pin" /\ ips.ctx = {} -> [ips EXCEPT !.mutex = "twice"]
                [] OTHER -> ips
\* Mutant: the register keeps the address of the power context
DisableKeepsAddress == ips.on /\ ips.mutex = "free" /\ ips' = [ips EXCEPT !.on = FALSE, !.request = ips.fstart]
\* ironlake_disable_drps, ironlake_disable_rc6; ironlake_teardown_rc6 follows at unload
DisableDrps == ips.on /\ ips.mutex = "free" /\ ips' = [ips EXCEPT !.on = FALSE, !.request = ips.fstart, !.pwrctxa = FALSE]
Teardown == ~ips.on /\ ips.ctx # {} /\ ips' = [ips EXCEPT !.ctx = {}, !.lent = FALSE]
\* ironlake_handle_rps_change
Change(load, busy) ==
    LET up == IF ips.cur # ips.max THEN ips.cur - 1 ELSE ips.cur
        down == IF ips.cur # ips.min THEN ips.cur + 1 ELSE ips.cur
        new == CASE load = "up" -> (IF up < ips.max THEN ips.max ELSE up)
                 [] load = "down" -> Least(down, ips.min) [] OTHER -> ips.cur
    IN  /\ ips.on
        /\ ips' = IF busy THEN ips ELSE [SetDrps(ips, new, FALSE) EXCEPT !.cur = new]
\* The services for the IPS driver, between intel_gpu_ips_init and _teardown
Lend == ips.on /\ ~ips.lent /\ ips' = [ips EXCEPT !.lent = TRUE]
Raise == ips.lent /\ ips.max > ips.fmax /\ ips' = [ips EXCEPT !.max = @ - 1]
Lower == ips.lent /\ ips.max < ips.min /\ ips' = [ips EXCEPT !.max = @ + 1]
TurboDisable(busy) == ips.lent /\ ips' = [SetDrps(ips, ips.fstart, busy) EXCEPT !.max = ips.fstart, !.told = TRUE]
IpsNext ==
    \/ EnableDrps \/ DisableDrps \/ Teardown \/ Lend \/ Raise \/ Lower
    \/ \E fails \in {"no", "alloc", "pin", "ring"} : SetupRc6(fails)
    \/ \E busy \in BOOLEAN : TurboDisable(busy) \/ \E load \in {"up", "down", "same"} : Change(load, busy)
------------------------------------------------------------------------------
(* Forcewake, under gt_lock; the count of the FIFO has no lock.            *)
WakeFirst == [owners |-> {}, count |-> 0, awake |-> FALSE, dozing |-> FALSE,
              fifo |-> [soft |-> FifoSize, free |-> FifoSize, seen |-> [t \in Writers |-> -1], lost |-> FALSE, over |-> FALSE]]
\* gen6_gt_force_wake_get and _put of the rings' interrupts and others
WakeGet(t) ==
    /\ t \notin wake.owners
    /\ wake' = [wake EXCEPT !.owners = @ \cup {t}, !.count = @ + 1, !.awake = @ \/ wake.count = 0]
\* Mutant: whoever puts lets the GPU sleep
WakePutAny(t) ==
    /\ t \in wake.owners
    /\ wake' = [wake EXCEPT !.owners = @ \ {t}, !.count = @ - 1, !.awake = FALSE]
WakePut(t) ==
    /\ t \in wake.owners
    /\ wake' = [wake EXCEPT !.owners = @ \ {t}, !.count = @ - 1, !.awake = @ /\ wake.count > 1, !.dozing = @ /\ wake.count > 1]
\* gen6_do_reset gives it back in the same hold of the lock; intel_gt_reset does not.
Reset == wake' = [wake EXCEPT !.awake = wake.count > 0, !.dozing = FALSE, !.fifo.soft = wake.fifo.free]
GtReset == wake' = [wake EXCEPT !.awake = FALSE, !.dozing = wake.count > 0]
\* __gen6_gt_wait_for_fifo: read the count, write it back with the register
FifoLooks(t) ==
    /\ wake.fifo.seen[t] = -1
    /\ IF wake.fifo.soft >= FifoReserved THEN wake' = [wake EXCEPT !.fifo.seen[t] = wake.fifo.soft]
       ELSE wake.fifo.free > FifoReserved /\ wake' = [wake EXCEPT !.fifo.seen[t] = wake.fifo.free]
\* Mutant: the count is not written back
FifoWritesOnly(t) ==
    /\ wake.fifo.seen[t] # -1
    /\ wake' = [wake EXCEPT !.fifo = [@ EXCEPT !.free = IF @ > 0 THEN @ - 1 ELSE @,
                    !.over = @ \/ (wake.fifo.free = 0), !.seen[t] = -1, !.lost = @ \/ \E u \in Writers \ {t} : wake.fifo.seen[u] # -1]]
FifoWrites(t) ==
    /\ wake.fifo.seen[t] # -1
    /\ wake' = [wake EXCEPT !.fifo = [@ EXCEPT !.soft = wake.fifo.seen[t] - 1, !.free = IF @ > 0 THEN @ - 1 ELSE @,
                    !.over = @ \/ (wake.fifo.free = 0), !.seen[t] = -1, !.lost = @ \/ \E u \in Writers \ {t} : wake.fifo.seen[u] # -1]]
Drain == wake.fifo.free < FifoSize /\ wake' = [wake EXCEPT !.fifo.free = @ + 1]
WakeNext ==
    \/ \E t \in Writers : WakeGet(t) \/ WakePut(t) \/ FifoLooks(t) \/ FifoWrites(t)
    \/ Reset \/ GtReset \/ Drain
------------------------------------------------------------------------------
PowerInit == feature \in Features /\ fbc = FbcFirst /\ rps = RpsFirst /\ ips = IpsFirst /\ wake = WakeFirst
PowerNext ==
    \/ feature = "fbc" /\ ~fbc.hw.stray /\ FbcNext /\ UNCHANGED <<feature, rps, ips, wake>>
    \/ feature = "rps" /\ RpsNext /\ UNCHANGED <<feature, fbc, ips, wake>>
    \/ feature = "ips" /\ ips.mutex # "twice" /\ IpsNext /\ UNCHANGED <<feature, fbc, rps, wake>>
    \/ feature = "wake" /\ ~wake.fifo.over /\ WakeNext /\ UNCHANGED <<feature, fbc, rps, ips>>
PowerSpec == PowerInit /\ [][PowerNext]_powerVars

PowerTypeOK ==
    /\ feature \in Features
    /\ fbc.pending \in 0..MaxDue + 1 /\ fbc.works \subseteq [id : 1..MaxDue + 1, crtc : Crtcs, fb : Fbs, due : BOOLEAN]
    /\ rps.cur \in Delays /\ rps.request \in Delays /\ rps.soft \subseteq Events /\ rps.imr \subseteq Events
    /\ ips.cur \in Delays /\ ips.request \in Delays /\ wake.count \in 0 .. Cardinality(Writers) /\ wake.fifo.free \in 0..FifoSize

\* The compressor works on what its crtc shows, and the work that is noted exists.
FbcFollows ==
    /\ fbc.hw # Off /\ ~fbc.hw.stray =>
           fbc.doing = fbc.hw.crtc \/ (fbc.crtc[fbc.hw.crtc].fb = fbc.hw.fb /\ Showing(fbc) = {fbc.hw.crtc})
    /\ fbc.pending # 0 => \E w \in fbc.works : w.id = fbc.pending
\* What is masked is opened again, by a work that is or will be queued; the
\* frequency is between the limits when these are in order.
RpsComesBack ==
    /\ rps.imr # {} \/ rps.soft # {} => rps.queued \/ rps.handler.at = "queue" 
    /\ rps.on /\ rps.min <= rps.max => rps.cur \in rps.min .. rps.max /\ rps.request = rps.cur
\* The limit moves between the hardware's; the request keeps it until someone disables
\* turbo, which leaves cur_delay behind.  The power contexts come and go together.
IpsLimited ==
    /\ ips.on => ips.fmax <= ips.max /\ ips.max <= ips.min /\ ips.cur \in ips.fmax .. ips.min
    /\ ips.on /\ ~ips.told => ips.request = ips.cur
    /\ ips.pwrctxa => ips.ctx = {"render", "power"} /\ ips.on
    /\ ips.ctx \in {{}, {"render", "power"}}
\* Awake for its owners, but after intel_gt_reset; and the FIFO takes every write
\* as long as two threads do not count at once.
WakeKept ==
    /\ wake.count = Cardinality(wake.owners) /\ (wake.awake = (wake.count > 0 /\ ~wake.dozing))
    /\ ~wake.fifo.lost => ~wake.fifo.over
PowerSafe ==
    CASE feature = "fbc" -> FbcFollows [] feature = "rps" -> RpsComesBack
      [] feature = "ips" -> IpsLimited [] OTHER -> WakeKept
=============================================================================
