------------------------------ MODULE I915Life ------------------------------
(***************************************************************************)
(* The life of the device: attaching it, the ways back from a failure in   *)
(* the middle, suspend, resume and detaching, against all that runs beside *)
(* them: interrupts, works, timers, the memory event and open files        *)
(* (drm_pci.c, drm_stub.c, i915_dma.c, i915_drv.c).  And the registers     *)
(* over a suspend (i915_suspend.c), in groups that are saved and restored  *)
(* together: what is lost comes back, and nothing is switched on before    *)
(* what it depends on.  Without mode setting the pipes belong to the X     *)
(* server and the driver restores them too.                                *)
(***************************************************************************)
EXTENDS Integers, Sequences, SequencesExt, FiniteSets

CONSTANTS MaxOpens,   \* bound on files open at once
          MaxCycles   \* bound on the suspends

VARIABLES up,         \* what has been set up and not taken down
          phase,      \* [op, todo]: the operation, and what is left of it
          pending,    \* works and timers that are queued
          polling,    \* the poll work may queue itself
          opens,
          astray      \* what ran on something that was not there
lifeVars == <<up, phase, pending, polling, opens, astray>>

\* drm_get_pci_dev, i915_driver_load and i915_load_modeset_init, in order
Loading == <<"core", "control", "primary", "priv", "gtt", "regs", "aper", "wq", "gmbus", "opregion", "lowmem",
             "locks", "vblank", "bios", "stolen", "modes", "rings", "irq", "fbdev", "poll", "timer">>
MayFail == ToSet(Loading) \ {"gmbus", "opregion", "lowmem", "locks", "bios", "modes", "poll", "timer"}
\* Their ways back: out_gem_unload and what follows, cleanup_irq and what follows
DriverBack == <<"lowmem", "locks", "gmbus", "wq", "aper", "regs", "gtt", "priv">>
ModesetBack == <<"irq", "rings", "stolen", "bios">>
Back == ModesetBack \o DriverBack \o <<"primary", "control", "core">>
\* drm_put_dev, i915_driver_unload and intel_modeset_cleanup; "lowmem" is not there
Unloading == <<"bios", "idle", "aper", "fbdev", "poll", "irq", "hotplug", "modes", "timer", "error", "opregion",
               "rings", "stolen", "gmbus", "wq", "regs", "gtt", "locks", "priv", "vblank", "control", "primary", "core">>

\* What runs beside, when it may start, and what it uses.
Works == {"hotplug", "error", "retire", "hangcheck", "poll", "vblank"}
Uses(a) == CASE a = "irq" -> {"priv", "locks", "regs", "wq", "modes", "vblank"}
             [] a = "hotplug" -> IF "poll" \in up \/ phase.op = "unload" THEN {"priv", "regs", "modes", "fbdev"} ELSE {"priv"}
             [] a = "poll" -> {"priv", "regs", "modes", "fbdev"}
             [] a = "error" -> {"priv", "locks", "regs"}
             [] a = "retire" -> {"priv", "wq"}
             [] a = "hangcheck" -> {"priv", "regs", "timer", "rings"}
             [] a = "vblank" -> {"vblank", "core"}
             [] a = "lowmem" -> {"priv", "core"}
             [] a = "client" -> {"priv", "core", "regs", "aper", "wq", "modes", "fbdev"}

Op(op, todo) == [op |-> op, todo |-> todo]
LifeInit ==
    /\ up = {} /\ pending = {} /\ polling = FALSE /\ opens = 0 /\ astray = {}
    /\ phase = Op("load", Loading)

Moved(todo, done) == phase' = IF todo = <<>> THEN Op(done, <<>>) ELSE [phase EXCEPT !.todo = todo]
------------------------------------------------------------------------------
\* One step of the attaching: it works, or what was done before is undone.
Load ==
    /\ phase.op = "load"
    /\ LET s == Head(phase.todo) IN
       \/ /\ up' = up \cup {s} /\ Moved(Tail(phase.todo), "run")
          /\ polling' = (polling \/ s = "poll") /\ pending' = pending \cup {w \in {"poll"} : s = "poll"}
       \/ /\ s \in MayFail
          /\ LET undo == SelectSeq(Back, LAMBDA r : r \in up) IN
             phase' = IF undo = <<>> THEN Op("failed", undo) ELSE Op("back", undo)
          /\ UNCHANGED <<up, polling, pending>>
    /\ UNCHANGED <<opens, astray>>
Unwind ==
    /\ phase.op = "back" /\ up' = up \ {Head(phase.todo)} /\ Moved(Tail(phase.todo), "failed")
    /\ UNCHANGED <<pending, polling, opens, astray>>

\* drm_put_dev does not ask whether files are open.
Detach ==
    /\ phase.op = "run" /\ phase' = Op("unload", Unloading)
    /\ UNCHANGED <<up, pending, polling, opens, astray>>
\* Mutant: the timer of vblanks is left to expire
CancelsNoVblank(s) == CASE s = "idle" -> {"retire"} [] s = "poll" -> {"poll"} [] s = "hotplug" -> {"hotplug"}
                        [] s = "timer" -> {"hangcheck"} [] s = "error" -> {"error"} [] OTHER -> {}
\* What a step waits for and cancels; destroying the minors closes what is open
Cancels(s) == CASE s = "idle" -> {"retire"} [] s = "poll" -> {"poll"} [] s = "hotplug" -> {"hotplug"}
                [] s = "timer" -> {"hangcheck"} [] s = "error" -> {"error"} [] s = "vblank" -> {"vblank"}
                [] OTHER -> {}
Unload ==
    /\ phase.op = "unload"
    /\ LET s == Head(phase.todo) IN
       /\ up' = up \ {s} /\ Moved(Tail(phase.todo), "gone")
       /\ pending' = pending \ Cancels(s) /\ polling' = (polling /\ s # "poll")
       /\ IF s = "primary" /\ opens > 0 THEN opens' = 0 /\ astray' = {"client"} ELSE UNCHANGED <<opens, astray>>

\* i915_drm_freeze and __i915_drm_thaw: the rings and the interrupt go and come.
\* No process runs meanwhile.
Freeze ==
    /\ phase.op = "run"
    /\ \/ /\ phase' = Op("asleep", <<>>) /\ up' = up \ {"rings", "irq", "opregion"}
          /\ pending' = pending \ {"retire", "hangcheck", "poll"}
       \/ UNCHANGED <<phase, up>> /\ pending' = pending \ {"poll"}    \* i915_gem_idle fails
    /\ polling' = FALSE /\ UNCHANGED <<opens, astray>>
Thaw ==
    /\ phase.op = "asleep" /\ phase' = Op("run", <<>>)
    /\ \/ /\ up' = up \cup {"rings", "irq", "opregion"} /\ polling' = TRUE /\ pending' = pending \cup {"poll"}
       \/ /\ up' = up \cup {"irq", "opregion"} /\ UNCHANGED <<polling, pending>>    \* i915_gem_init_hw fails
    /\ UNCHANGED <<opens, astray>>
------------------------------------------------------------------------------
\* A client that comes while the device is taken down is wrong whatever it finds.
Runs(a) == astray' = IF Uses(a) \subseteq up /\ (a = "client" => phase.op # "unload") THEN {} ELSE {a}
Awake == phase.op # "asleep"

Interrupt ==    \* and what its handler queues
    /\ "irq" \in up /\ Runs("irq")
    /\ \E w \in {"hotplug", "error"} : pending' = pending \cup {w}
    /\ UNCHANGED <<up, phase, polling, opens>>
Work(w) ==
    /\ w \in pending /\ Awake
    /\ Runs(w)
    /\ \E again \in BOOLEAN : pending' = (pending \ {w}) \cup {v \in {w} : again /\ w \in {"retire", "hangcheck"}}
                                                    \cup {v \in {w} : w = "poll" /\ polling}
    /\ UNCHANGED <<up, phase, polling, opens>>
Lowmem == "lowmem" \in up /\ Runs("lowmem") /\ UNCHANGED <<up, phase, pending, polling, opens>>

\* An open waits for the mutex that the attaching holds; the minors take it.
Open ==
    /\ "primary" \in up /\ phase.op \in {"run", "unload"} /\ opens < MaxOpens /\ Awake
    /\ opens' = opens + 1 /\ Runs("client") /\ UNCHANGED <<up, phase, pending, polling>>
Ioctl ==
    /\ opens > 0 /\ Awake /\ Runs("client")
    /\ pending' = pending \cup {"vblank"} \cup (IF "rings" \in up THEN {"retire", "hangcheck"} ELSE {}) /\ UNCHANGED <<up, phase, polling, opens>>
Release ==
    /\ opens > 0 /\ Awake /\ Runs("client")
    /\ opens' = opens - 1 /\ UNCHANGED <<up, phase, pending, polling>>

LifeNext ==
    /\ astray = {}
    /\ \/ Load \/ Unwind \/ Detach \/ Unload \/ Freeze \/ Thaw
       \/ Interrupt \/ (\E w \in Works : Work(w)) \/ Lowmem \/ Open \/ Ioctl \/ Release
LifeSpec == LifeInit /\ [][LifeNext]_lifeVars
------------------------------------------------------------------------------
LifeTypeOK ==
    /\ up \subseteq ToSet(Loading) /\ pending \subseteq Works /\ opens \in 0..MaxOpens
    /\ phase.op \in {"load", "back", "failed", "run", "asleep", "unload", "gone"} /\ astray \subseteq Works \cup {"irq", "client", "lowmem"}

\* What runs beside finds what it uses; hotplug and poll works while the frame
\* buffer device goes, the memory event after the unload and open files do not,
\* and a load that fails in its last steps cancels no work of the interrupt.
NothingAstray ==
    \/ astray \subseteq {"hotplug", "poll", "lowmem", "client"}
    \/ phase.op \in {"back", "failed"} /\ astray \subseteq {"hotplug", "error"}
\* After a failure nothing is left but the counters of vblanks and the modes,
\* after the unload nothing but the event handler, and nothing is pending.
NothingLeft ==
    /\ phase.op = "failed" => up \subseteq {"vblank", "modes", "opregion"}
    /\ phase.op = "gone" => up = {"lowmem"} /\ pending = {}
LifeSafe == NothingAstray /\ NothingLeft
------------------------------------------------------------------------------
\* The registers over a suspend.
VARIABLES chip,     \* [gen, g4x, mobile, kms]
          regs,     \* 0 after a loss of power, else the number of its last setting
          regfile,  \* what was saved, dev_priv->regfile
          lit,      \* the pipes that are set up to run
          was,      \* the registers before the suspend
          at,       \* "run", "off" or "back"
          todo      \* what is still to be restored
savedVars == <<chip, regs, regfile, lit, was, at, todo>>

Pipes == {"A", "B"}
\* A group is of a pipe or of the chip.
Of(p, s) == {<<p, g>> : g \in s}
Chip(s) == {<<"", g>> : g \in s}
InOrder(p, s) == [i \in DOMAIN s |-> <<p, s[i]>>]
\* The groups of a pipe: its PLL, its timings, the link and panel fitter of a
\* split chip, the size of its plane, its enable bit, palette, plane and status.
OfPipe(p) == Of(p, {"pll", "timing", "fdi", "size", "conf", "palette", "plane", "stat"})
Vga == Chip({"msr", "sequencer", "crt", "graphics", "attribute", "dac"})
Groups == OfPipe("A") \cup OfPipe("B")
          \cup Chip({"arb", "dpMN", "fence", "dref", "cursor", "adpa", "lvds", "pfit", "backlight",
                   "ppDelays", "ppControl",
                "standby", "dp", "fbc", "vga", "interrupts", "cacheMode", "swf"})
          \cup Vga
Pch(c) == c.gen >= 5
Dp(c) == c.g4x \/ c.gen = 5
Chips == {c \in [gen : 2..7, g4x : BOOLEAN, mobile : BOOLEAN, kms : BOOLEAN] : (c.g4x => c.gen = 4) /\ (c.gen >= 6 => c.kms)}

\* Which groups a chip has; generation 2 stands for the 830 and the 845
Has(c, g) ==
    CASE g[2] \in {"fdi", "dref", "standby"} -> Pch(c)
      [] g[2] \in {"dpMN", "dp"} -> Dp(c)
      [] g[2] = "lvds" -> Pch(c) \/ (c.mobile /\ c.gen > 2)
      [] g[2] = "pfit" -> ~Pch(c) /\ c.gen > 2
      [] g[2] = "fbc" -> c.mobile /\ c.gen > 2
      [] OTHER -> TRUE
\* and of them those that nobody but the X server sets
Server == OfPipe("A") \cup OfPipe("B") \cup Chip({"cursor", "fence", "dref", "adpa", "dp", "dpMN", "interrupts"})
Mine(c) == {g \in Groups : Has(c, g) /\ (c.kms => g \notin Server)}

SavedInit ==
    /\ chip \in Chips /\ regs = [g \in Groups |-> 0] /\ regfile = [g \in Groups |-> 0]
    /\ lit = {} /\ was = [g \in Groups |-> 0]
    /\ at = "run" /\ todo = <<>>
------------------------------------------------------------------------------
\* Everything is set anew, by the driver or the server.
Run ==
    /\ at = "run" /\ \E n \in 1..MaxCycles : regs' = [g \in Groups |-> n] /\ n = regs[<<"", "arb">>] + 1
    /\ lit' \in SUBSET Pipes /\ UNCHANGED <<chip, regfile, was, at, todo>>

\* i915_save_state; a palette is read while its PLL runs, RSTDBYCTL with the interrupts.
Palettes(s) == {<<p, "palette">> : p \in Pipes \ s}
SavedGroups(c) == (Mine(c) \ Palettes(lit)) \ (IF c.kms THEN Chip({"standby"}) ELSE {})
Save ==
    /\ at = "run" /\ regs[<<"", "arb">>] > 0
    /\ regfile' = [g \in Groups |-> IF g \in SavedGroups(chip) THEN regs[g] ELSE regfile[g]]
    /\ was' = regs /\ regs' = [g \in Groups |-> 0]
    /\ at' = "off" /\ UNCHANGED <<chip, lit, todo>>

\* i915_restore_modeset_reg, i915_restore_display, i915_restore_state: the order
\* Mutant: the plane is switched on with its size, before the pipe
PipeOrderPlane(p) == InOrder(p, <<"pll", "timing", "fdi", "size", "plane", "conf", "palette">>)
PipeOrder(p) == InOrder(p, <<"pll", "timing", "fdi", "size", "conf", "palette", "plane">>)
ModesetOrder == InOrder("", <<"fence", "dref">>) \o PipeOrder("A") \o PipeOrder("B") \o InOrder("", <<"cursor", "adpa">>)
\* i915_restore_vga: MSR says where the CRT registers and the status are.
VgaOrder == InOrder("", <<"msr", "sequencer", "crt", "graphics", "attribute", "dac">>)
DisplayOrder == InOrder("", <<"arb", "dpMN">>) \o ModesetOrder
                \o InOrder("", <<"lvds", "pfit", "backlight", "ppDelays", "ppControl", "standby", "dp", "fbc", "vga">>) \o VgaOrder
StateOrder == DisplayOrder \o InOrder("", <<"interrupts", "cacheMode", "swf">>)
Resume ==
    /\ at = "off" /\ at' = "back" /\ todo' = SelectSeq(StateOrder, LAMBDA g : g \in Mine(chip))
    /\ UNCHANGED <<chip, regs, regfile, lit, was>>
\* The palette is written when the PLL of its pipe runs again.
Restore ==
    /\ at = "back"
    /\ LET g == Head(todo) IN
       regs' = IF g \in Palettes(lit) THEN regs ELSE [regs EXCEPT ![g] = regfile[g]]
    /\ todo' = Tail(todo) /\ at' = IF Len(todo) = 1 THEN "run" ELSE "back"
    /\ UNCHANGED <<chip, regfile, lit, was>>

SavedNext == Run \/ Save \/ Resume \/ Restore
SavedSpec == SavedInit /\ [][SavedNext]_savedVars
------------------------------------------------------------------------------
SavedTypeOK == chip \in Chips /\ \A g \in Groups : regs[g] \in 0..MaxCycles /\ regfile[g] \in 0..MaxCycles

\* What was lost comes back: after a resume every group of the driver is as it was,
\* but the status of the pipes, the palettes of dark ones, and RSTDBYCTL, which
\* is restored with mode setting though it was not saved.
Kept == Mine(chip) \ (Chip({"standby"}) \cup Of("A", {"stat"}) \cup Of("B", {"stat"}) \cup Palettes(lit))
AllBack == at = "back" => \A g \in Kept : g \in ToSet(todo) \/ regs[g] = was[g]
\* Nothing is on before what it depends on.
Before(g, h) == {g, h} \subseteq Mine(chip) /\ regs[h] > 0 => regs[g] > 0
DependsMet ==
    /\ \A p \in Pipes : /\ Before(<<p, "pll">>, <<p, "timing">>) /\ Before(<<p, "timing">>, <<p, "conf">>)
                        /\ Before(<<p, "conf">>, <<p, "plane">>) /\ Before(<<p, "fdi">>, <<p, "conf">>)
                        /\ Before(<<"", "dref">>, <<p, "pll">>)
    /\ Before(<<"", "msr">>, <<"", "crt">>) /\ Before(<<"", "msr">>, <<"", "attribute">>)
    /\ Before(<<"", "lvds">>, <<"", "ppControl">>) /\ Before(<<"", "ppDelays">>, <<"", "ppControl">>)
SavedSafe == AllBack /\ DependsMet
=============================================================================
