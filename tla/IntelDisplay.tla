---------------------------- MODULE IntelDisplay ----------------------------
(***************************************************************************)
(* Mode setting in intel_display.c before Haswell: which connector is fed  *)
(* by which pipe, the order in which planes, pipes, links, PLLs and        *)
(* transcoders are switched, and what is undone when a step fails.         *)
(* Everything runs under mode_config.mutex: one job at a time, taken step  *)
(* by step.  dev is the software state together with the registers the     *)
(* code asserts on; the operators that take a d are functions of the C     *)
(* code from dev to dev, and a WARN that fires adds its text to d.warned.  *)
(***************************************************************************)
EXTENDS Integers, FiniteSetsExt, Folds

CONSTANTS Gens,        \* "i9xx" | "ibx" | "cpt"
          Crtcs,       \* pipe numbers
          Connectors, Encoders, Attached, Possible, CpuEdp, Crt,
          Fbs, Modes, Depth, None, OnlyFirst

VARIABLES gen, dev,
          job,         \* the call that runs and the step it is at
          kept,        \* the last call did what its result says
          mishap       \* a step has failed, or the firmware left a PCH pipe on
displayVars == <<gen, dev, job, kept, mishap>>

DisplayAssumption ==
    /\ Gens \subseteq {"i9xx", "ibx", "cpt"} /\ Crtcs \subseteq Nat /\ CpuEdp \subseteq Encoders
    /\ Attached \in [Connectors -> Encoders] /\ Possible \in [Encoders -> SUBSET Crtcs]
    /\ Depth \in [Fbs -> Nat] /\ None \notin Crtcs \cup Encoders \cup Fbs \cup Modes

Pch == gen # "i9xx"
Plls == Crtcs
Warn(d, bad, text) == IF bad THEN [d EXCEPT !.warned = @ \cup {text}] ELSE d

\* The encoders a crtc feeds, and whether through the south display (PCH).
On(d, c) == {e \in Encoders : d.enc[e].crtc = c}
DrivingPch(d, c) == On(d, c) \cap CpuEdp = {}
------------------------------------------------------------------------------
\* Pipes and planes.
EnablePipe(d, c, pch) ==
    LET h == d.crtc[c] IN
    [Warn(Warn(d, ~Pch /\ ~h.dpll, "pll"), Pch /\ pch /\ ~h.fdiPll, "fdi pll")
        EXCEPT !.crtc[c].pipe = TRUE]
DisablePipe(d, c) == [Warn(d, d.crtc[c].plane, "planes") EXCEPT !.crtc[c].pipe = FALSE]
EnablePlane(d, c) == [Warn(d, ~d.crtc[c].pipe, "pipe") EXCEPT !.crtc[c].plane = TRUE]
DisablePlane(d, c) == [d EXCEPT !.crtc[c].plane = FALSE]
EnableDpll(d, c) == [d EXCEPT !.crtc[c].dpll = TRUE]
DisableDpll(d, c) == [Warn(d, d.crtc[c].pipe, "pipe") EXCEPT !.crtc[c].dpll = FALSE]

\* The link between the north and the south display.
FdiPll(d, c, on) == [d EXCEPT !.crtc[c].fdiPll = on]
FdiTrain(d, c) ==
    [Warn(d, ~d.crtc[c].pipe \/ ~d.crtc[c].plane, "pipe") EXCEPT !.crtc[c].fdi = TRUE]
FdiDisable(d, c) == [d EXCEPT !.crtc[c].fdi = FALSE]

\* The PLLs of the south display are shared by crtcs with the same clock: ref
\* counts the crtcs that hold one, active those that run on it.  (Nobody looks
\* at the clock of an unused PLL, nor at the mode of a disabled crtc.)
EnablePll(d, c) ==
    LET p == d.crtc[c].pll IN
    IF p = None THEN d
    ELSE IF d.pll[p].ref = 0 THEN Warn(d, TRUE, "refcount")
    ELSE [d EXCEPT !.pll[p].active = @ + 1, !.pll[p].on = TRUE]
DisablePll(d, c) ==
    LET p == d.crtc[c].pll
        last == d.pll[p].active = 1
    IN  IF p = None THEN d
        ELSE IF d.pll[p].ref = 0 \/ d.pll[p].active = 0 THEN Warn(d, TRUE, "refcount")
        ELSE [Warn(Warn(d, ~last /\ ~d.pll[p].on, "pch pll"), last /\ d.crtc[c].trans, "transcoder")
                EXCEPT !.pll[p].active = @ - 1, !.pll[p].on = @ /\ ~last]
PutPll(d, c) ==
    LET p == d.crtc[c].pll IN
    IF p = None THEN d
    ELSE IF d.pll[p].ref = 0 THEN Warn(d, TRUE, "refcount")
    ELSE [d EXCEPT !.pll[p].ref = @ - 1, !.crtc[c].pll = None,
            !.pll[p].clock = IF d.pll[p].ref = 1 THEN None ELSE @]

\* A PLL for this clock: the crtc's own, the pipe's (ibx), one that has the
\* clock, or an unused one. It is then programmed, which switches it off.
PllChoice(d, c, clock) ==
    LET same == {p \in Plls : d.pll[p].ref > 0 /\ d.pll[p].clock = clock}
        free == {p \in Plls : d.pll[p].ref = 0}
        lowest(s) == CHOOSE p \in s : \A q \in s : p <= q
    IN  IF d.crtc[c].pll # None THEN d.crtc[c].pll
        ELSE IF gen = "ibx" THEN c
        ELSE IF same # {} THEN lowest(same)
        ELSE IF free # {} THEN lowest(free) ELSE None
GetPll(d, c, clock) ==
    LET p == PllChoice(d, c, clock)
        held == d.crtc[c].pll # None
    IN  [d EXCEPT !.crtc[c].pll = p,
                  !.pll[p] = [ref |-> @.ref + (IF held THEN 0 ELSE 1), active |-> @.active,
                              on |-> FALSE, clock |-> clock],
                  !.shared = @ \/ \E b \in Crtcs \ {c} : d.crtc[b].pll = p /\ (d.crtc[b].active \/ d.crtc[b].mode # clock)]

\* The transcoder at the other end of the link.
PllOn(d, c) == LET h == d.crtc[c] IN h.pll # None /\ d.pll[h.pll].on /\ (gen = "cpt" => h.sel = h.pll)
PortsOn(d, c) == \E e \in Encoders \ CpuEdp : d.enc[e].port = c
EnableTranscoder(d, c) ==
    [Warn(Warn(d, ~PllOn(d, c), "pch pll"), ~d.crtc[c].fdi, "fdi") EXCEPT !.crtc[c].trans = TRUE]
DisableTranscoder(d, c) ==
    [Warn(Warn(d, d.crtc[c].fdi, "fdi"), PortsOn(d, c), "ports") EXCEPT !.crtc[c].trans = FALSE]
PchEnable(d, c) ==
    LET t == EnablePll(FdiTrain(Warn(d, d.crtc[c].trans, "transcoder"), c), c)
        s == IF gen = "cpt" THEN [t EXCEPT !.crtc[c].sel = t.crtc[c].pll] ELSE t
    IN  EnableTranscoder(s, c)

\* The encoders' own hooks: a port is on or off. The eDP port of the CPU goes
\* off only after the pipe, all others before it.
Ports(d, es, port) == FoldSet(LAMBDA e, x : [x EXCEPT !.enc[e].port = port], d, es)
EncodersOn(d, c) == Ports(Warn(d, \E e \in On(d, c) \ Crt : d.enc[e].port # None, "port"), On(d, c), c)
EncodersOff(d, c) == Ports(d, IF Pch THEN On(d, c) \ CpuEdp ELSE On(d, c), None)
EncodersPost(d, c) == Ports(d, On(d, c), None)
------------------------------------------------------------------------------
\* crtc_enable, crtc_disable and off of the generations.
IronlakeEnable(d, c) ==
    LET pch == DrivingPch(d, c)
        link == IF pch THEN FdiPll(d, c, TRUE) ELSE Warn(d, d.crtc[c].fdi, "fdi")
        lit == EnablePlane(EnablePipe([link EXCEPT !.crtc[c].active = TRUE], c, pch), c)
    IN  EncodersOn(IF pch THEN PchEnable(lit, c) ELSE lit, c)
I9xxEnable(d, c) ==
    EncodersOn(EnablePlane(EnablePipe(EnableDpll([d EXCEPT !.crtc[c].active = TRUE], c), c, FALSE), c), c)
CrtcEnable(d, c) ==
    LET w == Warn(d, ~d.crtc[c].enabled, "enabled") IN
    IF d.crtc[c].active THEN w ELSE IF Pch THEN IronlakeEnable(w, c) ELSE I9xxEnable(w, c)

IronlakeDisable(d, c) ==
    LET dark == EncodersPost(DisablePipe(DisablePlane(EncodersOff(d, c), c), c), c)
        cut == DisableTranscoder(FdiDisable(dark, c), c)
        unsel == IF gen = "cpt" THEN [cut EXCEPT !.crtc[c].sel = None] ELSE cut
    IN  [FdiPll(DisablePll(unsel, c), c, FALSE) EXCEPT !.crtc[c].active = FALSE]
I9xxDisable(d, c) ==
    [DisableDpll(DisablePipe(DisablePlane(EncodersOff(d, c), c), c), c) EXCEPT !.crtc[c].active = FALSE]
CrtcDisable(d, c) ==
    IF ~d.crtc[c].active THEN d ELSE IF Pch THEN IronlakeDisable(d, c) ELSE I9xxDisable(d, c)

UpdateDpms(d, c) == IF \E e \in On(d, c) : d.enc[e].active THEN CrtcEnable(d, c) ELSE CrtcDisable(d, c)

\* Mutant: a failure unpins what is still shown.
PipeSetBaseUndone(d, c, fb, fails) ==
    LET old == d.crtc[c].fb IN
    IF fb = None THEN d
    ELSE IF fails THEN IF old = None THEN d ELSE [d EXCEPT !.pins[old] = @ - 1]
    ELSE [d EXCEPT !.pins[fb] = @ + 1, !.crtc[c].fb = fb]
\* Mutant: the framebuffer that was shown before stays pinned.
PipeSetBaseKept(d, c, fb, fails) == IF fb = None \/ fails THEN d ELSE [d EXCEPT !.pins[fb] = @ + 1, !.crtc[c].fb = fb]
\* The framebuffer a crtc scans out is pinned.
PipeSetBase(d, c, fb, fails) ==
    LET old == d.crtc[c].fb
        pinned == [d EXCEPT !.pins[fb] = @ + 1, !.crtc[c].fb = fb]
    IN  IF fb = None \/ fails THEN d
        ELSE IF old = None THEN pinned ELSE [pinned EXCEPT !.pins[old] = @ - 1]

\* intel_crtc_disable: the crtc goes off for good.
TurnOff(d, c) ==
    LET off == LET x == CrtcDisable(Warn(d, ~d.crtc[c].enabled, "enabled"), c) IN IF Pch THEN PutPll(x, c) ELSE x
        dark == Warn(off, off.crtc[c].plane \/ off.crtc[c].pipe, "pipe")
        fb == dark.crtc[c].fb
        bare == IF fb = None THEN dark ELSE [dark EXCEPT !.pins[fb] = @ - 1, !.crtc[c].fb = None]
        free == [bare EXCEPT !.crtc[c].mode = None]
        fed == {k \in Connectors : d.conn[k].enc # None /\ d.enc[d.conn[k].enc].crtc = c}
    IN  FoldSet(LAMBDA k, x : [x EXCEPT !.conn[k].on = FALSE, !.enc[d.conn[k].enc].active = FALSE], free, fed)
------------------------------------------------------------------------------
\* intel_set_mode. The new links are staged in conn.new and enc.new.
InUse(d, c) == \E e \in Encoders : d.enc[e].crtc = c
Unused(d) == {c \in Crtcs : d.crtc[c].enabled /\ \A e \in Encoders : d.enc[e].new # c}
Affected(d, c) ==
    LET moved == {e \in Encoders : d.enc[e].crtc # d.enc[e].new}
        linked == {k \in Connectors : d.conn[k].enc # d.conn[k].new}
        before == {d.enc[d.conn[k].enc].crtc : k \in {k \in linked : d.conn[k].enc # None}}
        after == {d.enc[d.conn[k].new].new : k \in {k \in linked : d.conn[k].new # None}}
        pipes == {d.enc[e].crtc : e \in moved} \cup {d.enc[e].new : e \in moved} \cup before \cup after
                     \cup (IF d.crtc[c].enabled THEN {c} ELSE {})
    IN  (pipes \cap {c}) \ Unused(d)

\* intel_modeset_update_state: the staged links become the links.
UpdateState(d, prepare) ==
    LET lit == {k \in Connectors : d.conn[k].new # None /\ d.enc[d.conn[k].new].new \in prepare}
        Commit(e, x) == [x EXCEPT !.enc[e].crtc = d.enc[e].new,
                                  !.enc[e].active = @ /\ d.enc[e].crtc \notin prepare]
        Link(k, x) == [x EXCEPT !.conn[k].enc = d.conn[k].new]
        Light(k, x) == [x EXCEPT !.conn[k].on = TRUE, !.enc[d.conn[k].new].active = TRUE]
        Mark(c, x) == [x EXCEPT !.crtc[c].enabled = \E e \in Encoders : d.enc[e].new = c]
    IN  FoldSet(Light, FoldSet(Mark, FoldSet(Link, FoldSet(Commit, d, Encoders), Connectors), Crtcs), lit)

\* intel_modeset_check_state: what must hold after every change.
ConnectorOk(d, k) ==
    LET e == d.enc[Attached[k]] IN
    e.port # None => /\ d.conn[k].on /\ d.conn[k].enc = Attached[k] /\ e.active /\ e.crtc # None
                     /\ d.crtc[e.crtc].enabled /\ d.crtc[e.crtc].active /\ e.port = e.crtc
EncoderOk(d, e) ==
    LET x == d.enc[e]
        fed == {k \in Connectors : d.conn[k].enc = e}
    IN  /\ x.new = x.crtc /\ (x.active => x.crtc # None) /\ (x.crtc # None <=> fed # {})
        /\ x.active = (\E k \in fed : d.conn[k].on) /\ x.active = (x.port # None)
        /\ (x.active => x.port = x.crtc)
CrtcOk(d, c) ==
    LET h == d.crtc[c] IN
    /\ h.active = (\E e \in On(d, c) : d.enc[e].active) /\ h.enabled = InUse(d, c) /\ h.pipe = h.active
CheckState(d) ==
    Warn(Warn(Warn(d, \E k \in Connectors : ~ConnectorOk(d, k) \/ d.conn[k].new # d.conn[k].enc, "connector"),
              \E e \in Encoders : ~EncoderOk(d, e), "encoder"), \E c \in Crtcs : ~CrtcOk(d, c), "crtc")

\* crtc_mode_set: clocks, then the framebuffer. `fail` is the step that fails.
IronlakeModeSet(d, c, mode, fb, fail) ==
    LET south == DrivingPch(d, c)
        nopll == fail = "clock" \/ (south /\ PllChoice(d, c, mode) = None)
        clocked == IF south THEN GetPll(d, c, mode) ELSE PutPll(d, c)
    IN  IF nopll THEN [d |-> d, ok |-> FALSE]
        ELSE [d |-> PipeSetBase(clocked, c, fb, fail = "pin"), ok |-> fail \notin {"pin", "lanes"}]
I9xxModeSet(d, c, mode, fb, fail) ==
    IF fail = "clock" THEN [d |-> d, ok |-> FALSE]
    ELSE [d |-> PipeSetBase(EnablePipe(EnableDpll(d, c), c, FALSE), c, fb, fail = "pin"), ok |-> fail # "pin"]
ModeSet(d, c, mode, fb, fail) ==
    IF Pch THEN IronlakeModeSet(d, c, mode, fb, fail) ELSE I9xxModeSet(d, c, mode, fb, fail)

Lowest(cs) == CHOOSE c \in cs : \A b \in cs : c <= b

NoJob == [at |-> "idle", call |-> "none", crtc |-> None, mode |-> None, fb |-> None, conns |-> {},
          left |-> {}, prep |-> FALSE, mode0 |-> None, old |-> None]
\* intel_set_mode(crtc, mode, fb) starts, on the links staged in d.
Setting(j, d, c, mode, fb) ==
    [j EXCEPT !.at = "off", !.crtc = c, !.mode = mode, !.fb = fb, !.left = Unused(d),
              !.prep = Affected(d, c) # {}, !.mode0 = d.crtc[c].mode]
\* First the crtcs go off that nothing uses any more,
SwitchOff ==
    /\ job.at \in {"off", "suspend"} /\ job.left # {}
    /\ dev' = TurnOff(dev, Lowest(job.left))
    /\ job' = [job EXCEPT !.left = @ \ {Lowest(@)}]
    /\ UNCHANGED <<gen, kept, mishap>>
\* then this crtc stops if it runs, and the staged links take effect.
Commit ==
    LET c == job.crtc
        dark == IF job.prep /\ dev.crtc[c].enabled THEN CrtcDisable(dev, c) ELSE dev
        timed == IF job.prep THEN [dark EXCEPT !.crtc[c].mode = job.mode] ELSE dark
    IN  /\ job.at = "off" /\ job.left = {}
        /\ dev' = UpdateState(timed, IF job.prep THEN {c} ELSE {})
        /\ job' = [job EXCEPT !.at = IF job.prep THEN "mode" ELSE "check"]
        /\ UNCHANGED <<gen, kept, mishap>>
\* No mode fits the panel or the encoders: only the unused crtcs have changed.
\* (What worked before is taken to work again.)
CanFail == job.call \in {"config", "detect"}
FixupFails ==
    /\ job.at = "off" /\ job.left = {} /\ job.prep /\ CanFail
    /\ job' = [job EXCEPT !.at = "failed"]
    /\ mishap' = TRUE
    /\ UNCHANGED <<gen, dev, kept>>
CrtcModeSet(fail) ==
    LET c == job.crtc
        set == ModeSet(dev, c, job.mode, job.fb, fail)
        back == ~set.ok /\ set.d.crtc[c].enabled
    IN  /\ job.at = "mode" /\ (fail # "no" => CanFail)
        /\ dev' = IF back THEN [set.d EXCEPT !.crtc[c].mode = job.mode0] ELSE set.d
        /\ job' = [job EXCEPT !.at = IF set.ok THEN "enable" ELSE IF back THEN "failed" ELSE "failcheck"]
        /\ mishap' = (mishap \/ ~set.ok)
        /\ UNCHANGED <<gen, kept>>
Enable ==
    /\ job.at = "enable"
    /\ dev' = CrtcEnable(dev, job.crtc)
    /\ job' = [job EXCEPT !.at = "check"]
    /\ UNCHANGED <<gen, kept, mishap>>
Check ==
    /\ job.at \in {"check", "failcheck"}
    /\ dev' = CheckState(dev)
    /\ job' = [job EXCEPT !.at = IF @ = "check" THEN "done" ELSE "failed"]
    /\ UNCHANGED <<gen, kept, mishap>>
------------------------------------------------------------------------------
\* intel_crtc_set_config.
Staged(d, s) ==
    LET gone == {k \in Connectors \ s.conns : d.conn[k].enc # None /\ d.enc[d.conn[k].enc].crtc = s.crtc}
        Route(k, x) == [x EXCEPT !.conn[k].new = IF k \in s.conns THEN Attached[k]
                                                 ELSE IF k \in gone THEN None ELSE @]
        conn == FoldSet(Route, d, Connectors)
        feeds(e) == {k \in Connectors : conn.conn[k].new = e}
        Feed(e, x) == [x EXCEPT !.enc[e].new = IF feeds(e) = {} THEN None
                                               ELSE IF feeds(e) \cap s.conns # {} THEN s.crtc ELSE d.enc[e].crtc]
    IN  FoldSet(Feed, conn, Encoders)
Routable(s) == \A k \in s.conns : s.crtc \in Possible[Attached[k]]
Unstaged(d, saved) ==
    LET Route(k, x) == [x EXCEPT !.conn[k].new = saved.conn[k].enc]
        Feed(e, x) == [x EXCEPT !.enc[e].new = saved.enc[e].crtc]
    IN  FoldSet(Feed, FoldSet(Route, d, Connectors), Encoders)
\* Another mode, a framebuffer of another depth, or other links need
\* intel_set_mode.
Changes(d, s) ==
    \/ d.crtc[s.crtc].fb # s.fb /\ (None \in {d.crtc[s.crtc].fb, s.fb} \/ Depth[d.crtc[s.crtc].fb] # Depth[s.fb])
    \/ s.mode # None /\ s.mode # d.crtc[s.crtc].mode
Rewired(d) == (\E k \in Connectors : d.conn[k].enc # d.conn[k].new) \/ \E e \in Encoders : d.enc[e].crtc # d.enc[e].new

\* What the crtc shows, and on which connectors.
Shows(d, c) == [fb |-> d.crtc[c].fb, mode |-> IF d.crtc[c].enabled THEN d.crtc[c].mode ELSE None,
                on |-> {k \in Connectors : d.conn[k].enc # None /\ d.enc[d.conn[k].enc].crtc = c}]

Configs == [crtc : Crtcs, fb : Fbs, mode : Modes, conns : SUBSET Connectors \ {{}}]
              \cup [crtc : Crtcs, fb : {None}, mode : {None}, conns : {{}}]
\* Only analog outputs are cloned.
Clones(es) == Cardinality(es) <= 1 \/ es \subseteq Crt

SetConfig(s) ==
    LET staged == Staged(dev, s)
        started == [NoJob EXCEPT !.call = "config", !.crtc = s.crtc, !.mode = s.mode, !.fb = s.fb,
                                 !.conns = s.conns, !.old = dev]
    IN  /\ job.at = "idle" /\ Clones({Attached[k] : k \in s.conns})
        /\ dev' = staged
        /\ job' = IF ~Routable(s) THEN [started EXCEPT !.at = "failed"]
                  ELSE IF Changes(dev, s) \/ Rewired(staged) THEN Setting(started, staged, s.crtc, s.mode, s.fb)
                  ELSE [started EXCEPT !.at = "base"]
        /\ UNCHANGED <<gen, kept, mishap>>
\* Only the framebuffer changes.  The error is not returned.
SetBase(fails) ==
    /\ job.at = "base"
    /\ dev' = PipeSetBase(dev, job.crtc, job.fb, fails)
    /\ job' = [job EXCEPT !.at = "done"]
    /\ mishap' = (mishap \/ fails)
    /\ UNCHANGED <<gen, kept>>
\* The old configuration is staged again and set.
RestoreConfig ==
    LET back == Unstaged(dev, job.old)
        was == job.old.crtc[job.crtc]
    IN  /\ job.at = "failed" /\ job.call = "config"
        /\ dev' = back
        /\ job' = Setting([job EXCEPT !.call = "restore"], back, job.crtc, was.mode, was.fb)
        /\ UNCHANGED <<gen, kept, mishap>>
Configured ==
    LET asked == [fb |-> job.fb, mode |-> job.mode, on |-> job.conns] IN
    /\ job.at = "done" /\ job.call \in {"config", "restore"}
    /\ kept' = IF job.call = "config" THEN Shows(dev, job.crtc) = asked
               ELSE \A c \in Crtcs : Shows(dev, c) = Shows(job.old, c)
    /\ job' = NoJob
    /\ UNCHANGED <<gen, dev, mishap>>

\* intel_connector_dpms, and intel_crt_dpms for the analog output.
ConnectorDpms(d, k, on) ==
    LET e == Attached[k]
        c == d.enc[e].crtc
        x == [d EXCEPT !.conn[k].on = on]
        act == [x EXCEPT !.enc[e].active = on]
        crt == IF on THEN UpdateDpms(Ports(act, {e}, c), c) ELSE Ports(UpdateDpms(act, c), {e}, None)
    IN  IF on = d.conn[k].on THEN d
        ELSE IF c = None THEN IF e \in Crt THEN [x EXCEPT !.enc[e].active = FALSE]
                              ELSE CheckState(Warn(x, x.enc[e].active, "dpms"))
        ELSE CheckState(IF e \in Crt THEN crt ELSE UpdateDpms(act, c))
Dpms(k, on) ==
    /\ job.at = "idle" \/ (job.at = "dpms" /\ job.conns = {k} /\ on = job.old.conn[k].on)
    /\ dev' = ConnectorDpms(dev, k, on)
    /\ job' = NoJob
    /\ UNCHANGED <<gen, kept, mishap>>

\* Load detection borrows a free pipe for an idle connector and gives it back.
LoadDetect(k, mode, fb) ==
    LET e == Attached[k]
        c == dev.enc[e].crtc
        idle == {b \in Possible[e] : ~dev.crtc[b].enabled}
        staged == [dev EXCEPT !.enc[e].new = Lowest(idle), !.conn[k].new = e]
        started == [NoJob EXCEPT !.call = "detect", !.conns = {k}, !.old = dev]
    IN  /\ job.at = "idle" /\ e \in Crt
        /\ IF c # None
           THEN dev' = ConnectorDpms(dev, k, TRUE) /\ job' = [started EXCEPT !.at = "dpms"]
           ELSE idle # {} /\ dev' = staged /\ job' = Setting(started, staged, Lowest(idle), mode, fb)
        /\ UNCHANGED <<gen, kept, mishap>>
Release ==
    LET k == CHOOSE k \in job.conns : TRUE
        staged == [dev EXCEPT !.enc[Attached[k]].new = None, !.conn[k].new = None]
    IN  /\ job.at = "done" /\ job.call = "detect"
        /\ dev' = staged
        /\ job' = Setting([job EXCEPT !.call = "release"], staged, job.crtc, None, None)
        /\ UNCHANGED <<gen, kept, mishap>>
\* Without a mode nothing is detected, and nothing is undone.
Detected ==
    /\ job.call \in {"detect", "release"} /\ job.at = (IF job.call = "detect" THEN "failed" ELSE "done")
    /\ kept' = ((\A c \in Crtcs : Shows(dev, c) = Shows(job.old, c)) /\ ~Rewired(dev))
    /\ job' = NoJob
    /\ UNCHANGED <<gen, dev, mishap>>
------------------------------------------------------------------------------
\* intel_modeset_setup_hw_state: the state is read back from the registers,
\* with what the firmware (or a resume) left there.
BreakLinks(d, e) ==
    FoldSet(LAMBDA k, x : [x EXCEPT !.conn[k].on = FALSE, !.conn[k].enc = None],
            [d EXCEPT !.enc[e].active = FALSE, !.enc[e].crtc = None], {k \in Connectors : Attached[k] = e})
SanitizeEncoder(d, e) ==
    LET x == d.enc[e]
        off == IF x.crtc # None THEN Ports(d, {e}, None) ELSE d
    IN  IF x.active /\ ~(x.crtc # None /\ d.crtc[x.crtc].active) THEN BreakLinks(off, e) ELSE d
SanitizeCrtc(d, c) ==
    LET x == UpdateDpms(d, c)
        h == x.crtc[c]
        odd == h.active \/ \E e \in On(x, c) : x.enc[e].active
    IN  IF h.active = h.enabled THEN x
        ELSE FoldSet(LAMBDA e, y : [y EXCEPT !.enc[e].crtc = None],
                     [Warn(x, odd, "sanitize") EXCEPT !.crtc[c].enabled = h.active], On(x, c))
ReadOut(d) ==
    LET Pipe(c, x) == [x EXCEPT !.crtc[c].active = d.crtc[c].pipe, !.crtc[c].enabled = d.crtc[c].pipe]
        Port(e, x) == [x EXCEPT !.enc[e].crtc = d.enc[e].port, !.enc[e].active = d.enc[e].port # None]
        lit(k) == d.enc[Attached[k]].port # None
        Sink(k, x) == [x EXCEPT !.conn[k].on = lit(k), !.conn[k].enc = IF lit(k) THEN Attached[k] ELSE None]
    IN  FoldSet(Sink, FoldSet(Port, FoldSet(Pipe, d, Crtcs), Encoders), Connectors)
ReadState ==
    /\ job.at \in {"read", "suspend"} /\ job.left = {}
    /\ dev' = FoldSet(LAMBDA e, x : SanitizeEncoder(x, e), ReadOut(dev), Encoders)
    /\ job' = [job EXCEPT !.at = "sanitize", !.left = Crtcs]
    /\ UNCHANGED <<gen, kept, mishap>>
Sanitize ==
    /\ job.at = "sanitize" /\ job.left # {}
    /\ dev' = SanitizeCrtc(dev, Lowest(job.left))
    /\ job' = [job EXCEPT !.left = @ \ {Lowest(@)}]
    /\ UNCHANGED <<gen, kept, mishap>>
SetUp ==
    /\ job.at = "sanitize" /\ job.left = {}
    /\ dev' = CheckState(Unstaged(dev, dev))
    /\ job' = NoJob
    /\ UNCHANGED <<gen, kept, mishap>>

\* What the firmware may leave: pipes on, each port off or on a pipe.
Firmware(d, pipes, port) ==
    LET Pipe(c, x) ==
            LET lit == c \in pipes
                south == lit /\ Pch /\ ~\E e \in CpuEdp : port[e] = c
            IN  [x EXCEPT !.crtc[c] = [@ EXCEPT !.pipe = lit, !.plane = lit, !.dpll = lit /\ ~Pch, !.fdi = south,
                                                !.fdiPll = south, !.trans = south]]
    IN  FoldSet(LAMBDA e, x : [x EXCEPT !.enc[e].port = port[e]], FoldSet(Pipe, d, Crtcs), Encoders)
Dark == [crtc |-> [c \in Crtcs |-> [enabled |-> FALSE, active |-> FALSE, fb |-> None, mode |-> None, pll |-> None,
                                    sel |-> None, pipe |-> FALSE, plane |-> FALSE, dpll |-> FALSE, fdi |-> FALSE,
                                    fdiPll |-> FALSE, trans |-> FALSE]],
         enc |-> [e \in Encoders |-> [crtc |-> None, new |-> None, active |-> FALSE, port |-> None]],
         conn |-> [k \in Connectors |-> [enc |-> None, new |-> None, on |-> FALSE]],
         pll |-> [p \in Plls |-> [ref |-> 0, active |-> 0, on |-> FALSE, clock |-> None]],
         pins |-> [f \in Fbs |-> 0], shared |-> FALSE, warned |-> {}]

DisplayInit ==
    /\ gen \in Gens
    /\ \E pipes \in SUBSET Crtcs, port \in [Encoders -> Crtcs \cup {None}] :
          /\ \A c \in Crtcs : Clones({e \in Encoders : port[e] = c})
          /\ dev = Firmware(Dark, pipes, port)
    /\ job = [NoJob EXCEPT !.at = "read", !.call = "load"]
    /\ kept = TRUE /\ mishap = (\E c \in Crtcs : dev.crtc[c].trans)

\* i915_drm_freeze switches everything off, and the thaw reads that back.
Suspend ==
    /\ job.at = "idle"
    /\ job' = [NoJob EXCEPT !.at = "suspend", !.call = "thaw", !.left = {c \in Crtcs : dev.crtc[c].enabled}]
    /\ UNCHANGED <<gen, dev, kept, mishap>>
\* OnlyFirst: the model stops at a state the code should not have reached.
Alright == dev.warned = {} /\ kept /\ ~dev.shared
DisplayNext ==
    /\ OnlyFirst => Alright
    /\ \/ \E s \in Configs : SetConfig(s)
       \/ SwitchOff \/ Commit \/ FixupFails \/ Enable \/ Check
       \/ \E fail \in {"no", "clock", "pin", "lanes"} : CrtcModeSet(fail)
       \/ \E fails \in BOOLEAN : SetBase(fails)
       \/ RestoreConfig \/ Configured
       \/ \E k \in Connectors, on \in BOOLEAN : Dpms(k, on)
       \/ \E k \in Connectors, m \in Modes, f \in Fbs : LoadDetect(k, m, f)
       \/ Release \/ Detected
       \/ ReadState \/ Sanitize \/ SetUp
       \/ Suspend

DisplaySpec == DisplayInit /\ [][DisplayNext]_displayVars

DisplayTypeOK ==
    /\ gen \in Gens /\ kept \in BOOLEAN
    /\ dev.conn \in [Connectors -> [enc : Encoders \cup {None}, new : Encoders \cup {None}, on : BOOLEAN]]
    /\ \A c \in Crtcs : dev.crtc[c].pll \in Plls \cup {None} /\ dev.crtc[c].fb \in Fbs \cup {None}
    /\ dev.pins \in [Fbs -> Nat]

\* No assertion of the driver fires.
NoWarning == dev.warned = {}
\* As long as no step fails, and the firmware left no pipe of the south display
\* on, no assertion fires and a call shows what it was asked to show.
Faithful == mishap \/ (NoWarning /\ kept)
\* A framebuffer is pinned once for every crtc that scans it out, a shared PLL
\* counts its holders and its users, whatever failed.
ResourcesExact ==
    /\ \A f \in Fbs : dev.pins[f] = Cardinality({c \in Crtcs : dev.crtc[c].fb = f})
    /\ \A p \in Plls :
          /\ dev.pll[p].ref = Cardinality({c \in Crtcs : dev.crtc[c].pll = p})
          /\ dev.pll[p].active = Cardinality({c \in Crtcs : dev.crtc[c].pll = p /\ dev.crtc[c].active})
\* A running pipe of the south display has its clock, until two crtcs share one.
ClocksRun == \/ dev.shared
             \/ \A c \in Crtcs : LET h == dev.crtc[c] IN
                    h.active /\ h.pll # None => dev.pll[h.pll].on /\ dev.pll[h.pll].clock = h.mode
=============================================================================
