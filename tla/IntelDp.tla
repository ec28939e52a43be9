------------------------------- MODULE IntelDp -------------------------------
(***************************************************************************)
(* A DisplayPort output of drm/i915 (intel_dp.c, drm_dp_iic_helper.c): the *)
(* power of an embedded panel around every transfer on its AUX channel,    *)
(* link training, the AUX transfers themselves with the I2C over them, and *)
(* the choice of a link for a mode.  aspect says which one a behaviour is  *)
(* about.                                                                  *)
(***************************************************************************)
EXTENDS Integers, Sequences, FiniteSets

CONSTANTS DpKinds,      \* subset of {"cpu", "pch", "dp"}: eDP on the CPU, on the PCH, external
          MaxSwing,     \* the highest voltage swing
          XferLen,      \* bytes of an I2C message
          PixelClocks   \* kHz

VARIABLES aspect, port, training, aux, link
dpVars == <<aspect, port, training, aux, link>>

DpAssumption == DpKinds \subseteq {"cpu", "pch", "dp"} /\ MaxSwing \in Nat \ {0} /\ XferLen \in Nat \ {0}
                /\ \A c \in PixelClocks : c \in Nat \ {0}
------------------------------------------------------------------------------
(* The port and its panel; every operation holds mode_config.mutex.        *)
(* warn collects the WARNs met, dark that AUX was used with no power, lost *)
(* that the hotplug took the link down, restored that a resume wrote the   *)
(* panel's control register back.                                          *)
Edp(s) == s.kind # "dp"
\* ironlake_edp_panel_vdd_on, _vdd_off, _vdd_off_sync, _panel_on, _panel_off and the backlight
VddOn(s) == IF ~Edp(s) THEN s
            ELSE [s EXCEPT !.want = TRUE, !.vdd = TRUE, !.warn = IF s.want THEN @ \cup {"twice"} ELSE @]
VddSync(s) == IF s.want THEN s ELSE [s EXCEPT !.vdd = FALSE]
VddOff(s, sync) ==
    IF ~Edp(s) THEN s
    ELSE LET t == [s EXCEPT !.want = FALSE, !.warn = IF s.want THEN @ ELSE @ \cup {"off"}]
         IN  IF sync THEN VddSync(t) ELSE [t EXCEPT !.due = TRUE]
PanelOn(s) == IF Edp(s) THEN [s EXCEPT !.power = TRUE] ELSE s
PanelOff(s) == IF ~Edp(s) THEN s
               ELSE [s EXCEPT !.power = FALSE, !.vdd = FALSE, !.blc = FALSE, !.want = FALSE,
                              !.warn = IF s.want THEN @ ELSE @ \cup {"vdd"}]
Backlight(s, on) == IF Edp(s) THEN [s EXCEPT !.blc = on] ELSE s
\* intel_dp_check_edp in every transfer
Aux(s) == [s EXCEPT !.dark = @ \/ (Edp(s) /\ ~s.power /\ ~s.vdd)]
\* ironlake_edp_pll_on, ironlake_edp_pll_off
PllOn(s) == IF s.kind # "cpu" THEN s
            ELSE [s EXCEPT !.pll = TRUE, !.on = FALSE,
                           !.warn = IF s.pll \/ s.on \/ s.pipe THEN @ \cup {"pll"} ELSE @]
PllOff(s) == [s EXCEPT !.pll = FALSE, !.warn = IF ~s.pll \/ s.on \/ s.pipe THEN @ \cup {"pll"} ELSE @]
\* intel_dp_link_down, which warns (not noted here) once the hotplug took the link down;
\* training writes the port again.
LinkDown(s) == CASE s.on -> [s EXCEPT !.on = FALSE] [] s.lost -> s [] OTHER -> [s EXCEPT !.warn = @ \cup {"down"}]
Train(s) == [Aux(s) EXCEPT !.on = TRUE, !.lost = FALSE]
\* intel_dp_complete_link_train: even aborted, it ends with intel_dp_set_link_train.
Complete(s, aborted) == Train(IF aborted THEN LinkDown(Aux(s)) ELSE Aux(s))

\* intel_crtc_mode_set and crtc_enable with this encoder: pre_enable, the pipe, enable
EnableDp(s, aborted) ==
    LET t == [PllOn(s) EXCEPT !.pipe = TRUE, !.active = TRUE]
        u == VddOff(PanelOn(Train(Aux(VddOn(t)))), TRUE)
    IN  IF t.on THEN [t EXCEPT !.warn = @ \cup {"on"}] ELSE Backlight(Complete(u, aborted), TRUE)
\* Mutant: the panel is turned off without VDD for the sink's D0
DisableDpNoVdd(s) ==
    LET t == PanelOff(Aux(Backlight(s, FALSE)))
        u == [(IF s.kind = "cpu" THEN t ELSE LinkDown(t)) EXCEPT !.pipe = FALSE, !.active = FALSE]
    IN  [(IF s.kind = "cpu" THEN PllOff(LinkDown(u)) ELSE u) EXCEPT !.lost = FALSE]
\* intel_disable_dp, the pipe, intel_post_disable_dp
DisableDp(s) ==
    LET t == PanelOff(Aux(Backlight(VddOn(s), FALSE)))
        u == [(IF s.kind = "cpu" THEN t ELSE LinkDown(t)) EXCEPT !.pipe = FALSE, !.active = FALSE]
    IN  [(IF s.kind = "cpu" THEN PllOff(LinkDown(u)) ELSE u) EXCEPT !.lost = FALSE]
\* intel_dp_check_link_status, from the hotplug work
CheckLink(s, answer, aborted) ==
    CASE ~s.active -> s
      [] s.active /\ answer = "silent" -> [LinkDown(Aux(s)) EXCEPT !.lost = TRUE]
      [] s.active /\ answer = "bad" -> Complete(Train(Aux(s)), aborted)
      [] OTHER -> Aux(s)
\* intel_dp_get_edid with the EDID read at load: one that failed is no EDID, and no transfer
GetEdid(s) == IF Edp(s) /\ s.edid = "good" THEN s ELSE Aux(s)
ProbeOui(s) == IF s.oui THEN VddOff(Aux(VddOn(s)), FALSE) ELSE s
\* intel_dp_detect: an embedded panel is there; another answers its DPCD or not
Detect(s, answers, forced) ==
    LET t == IF Edp(s) THEN s ELSE Aux(s)
    IN  IF ~Edp(s) /\ ~answers THEN t ELSE IF forced THEN ProbeOui(t) ELSE GetEdid(ProbeOui(t))
\* intel_dp_init_connector for an embedded panel: the channel, the DPCD and the EDID
Probe(s) ==
    LET t == VddOff(Aux(VddOn(s)), FALSE)
    IN  IF Edp(s) THEN VddOff(Aux(VddOn(VddOff(Aux(VddOn(t)), FALSE))), FALSE) ELSE t

PortFirst(kind, lit, vdd, edid, oui) ==
    [kind |-> kind, power |-> lit /\ kind # "dp", vdd |-> vdd /\ kind # "dp", want |-> FALSE, due |-> FALSE,
     blc |-> lit /\ kind # "dp", on |-> lit, pll |-> lit /\ kind = "cpu", pipe |-> lit, active |-> lit,
     edid |-> edid, oui |-> oui, saved |-> FALSE, asleep |-> FALSE, restored |-> FALSE,
     warn |-> {}, dark |-> FALSE, lost |-> FALSE]
Awake(s) == s.asleep = FALSE
PortSteps(s) ==
    (IF ~s.active /\ Awake(s) THEN {EnableDp(s, a) : a \in BOOLEAN} ELSE {})
    \cup (IF s.active THEN {DisableDp(s)} ELSE {})
    \cup (IF Awake(s) THEN {CheckLink(s, answer, a) : answer \in {"silent", "bad", "ok"}, a \in BOOLEAN}
                           \cup {Detect(s, b, c) : b \in BOOLEAN, c \in BOOLEAN} \cup {GetEdid(s)} ELSE {})
    \* ironlake_panel_vdd_work
    \cup (IF s.due THEN {[VddSync(s) EXCEPT !.due = FALSE]} ELSE {})
    \* i915_save_display when all is dark, the machine sleeps, i915_restore_display
    \cup (IF ~s.active /\ Awake(s) THEN {[s EXCEPT !.asleep = TRUE, !.saved = s.vdd]} ELSE {})
    \cup (IF ~Awake(s) THEN {[s EXCEPT !.asleep = FALSE, !.vdd = s.saved, !.restored = s.saved, !.saved = FALSE]} ELSE {})
PortNext == \E s \in PortSteps(port) : s # port /\ port' = s

\* No transfer in the dark unless the EDID could not be read at load, no WARN, no VDD
\* left without someone to turn it off, and a port that is off has no clock and no light.
PortSafe == /\ port.dark => Edp(port) /\ port.edid = "bad"
            /\ port.warn = {} /\ ~port.want
            /\ port.vdd => port.due \/ port.restored \/ port.asleep
            /\ port.blc => port.power
            /\ ~port.lost => (port.on <=> port.active)
            /\ port.pll <=> port.active /\ port.kind = "cpu"
            /\ ~port.active => ~port.power
------------------------------------------------------------------------------
(* Training: intel_get_adjust_train gives every lane the highest request,  *)
(* so swing stands for train_set; voltage -1 is the initial 0xff.  eased   *)
(* says that clock recovery just took a lower request.                     *)
CrBound == 8 * (MaxSwing + 1)
CrRank(t) == (5 - t.ltries) * CrBound + (MaxSwing - t.swing) * 8
             + (IF t.voltage # t.swing THEN 6 ELSE 5 - t.vtries)
Rank(t) == CASE t.phase = "cr" -> (7 - t.cr) * 10 * CrBound + 10 + CrRank(t)
             [] t.phase = "eq" -> (7 - t.cr) * 10 * CrBound + (7 - t.tries)
             [] OTHER -> 0
TrainFirst == [phase |-> "cr", swing |-> 0, voltage |-> -1, vtries |-> 0, ltries |-> 0, tries |-> 0, cr |-> 0,
               before |-> 100 * CrBound, eased |-> FALSE, locked |-> FALSE, equal |-> FALSE]
Start(t) == [t EXCEPT !.phase = "cr", !.swing = 0, !.voltage = -1, !.vtries = 0, !.ltries = 0, !.locked = FALSE]
\* Mutant: the same voltage is tried for ever
RecoverNoLimit(t, request) ==
    IF t.swing = MaxSwing
    THEN IF t.ltries = 4 THEN [t EXCEPT !.phase = "eq"] ELSE [t EXCEPT !.ltries = @ + 1, !.swing = 0, !.vtries = 0]
    ELSE [t EXCEPT !.vtries = 0, !.voltage = t.swing, !.swing = request]
\* A round of intel_dp_start_link_train without clock recovery
Recover(t, request) ==
    IF t.swing = MaxSwing
    THEN IF t.ltries = 4 THEN [t EXCEPT !.phase = "eq"] ELSE [t EXCEPT !.ltries = @ + 1, !.swing = 0, !.vtries = 0]
    ELSE IF t.swing = t.voltage /\ t.vtries = 4 THEN [t EXCEPT !.phase = "eq"]
    ELSE [t EXCEPT !.vtries = IF t.swing = t.voltage THEN @ + 1 ELSE 0, !.voltage = t.swing, !.swing = request]
\* A round of intel_dp_complete_link_train: cr > 5 gives up before it asks the sink.
Equalize(t, status, request) ==
    CASE t.cr > 5 \/ status = "silent" -> [t EXCEPT !.phase = "failed", !.equal = FALSE]
      [] t.cr <= 5 /\ status = "unlocked" -> [Start(t) EXCEPT !.cr = @ + 1]
      [] t.cr <= 5 /\ status = "equal" -> [t EXCEPT !.phase = "trained", !.equal = TRUE, !.locked = TRUE]
      [] OTHER -> IF t.tries > 5 THEN [Start(t) EXCEPT !.cr = @ + 1, !.tries = 0]
                  ELSE [t EXCEPT !.tries = @ + 1, !.swing = request]
Trying == /\ training.phase \in {"cr", "eq"}
          /\ \E status \in {"silent", "unlocked", "locked", "equal"}, request \in 0..MaxSwing :
                LET eased == training.phase = "cr" /\ status = "unlocked" /\ training.swing < MaxSwing /\ request < training.swing
                    t == [training EXCEPT !.before = Rank(training), !.eased = eased] IN
                training' = IF t.phase = "eq" THEN Equalize(t, status, request)
                            ELSE CASE status = "silent" -> [t EXCEPT !.phase = "eq"]
                                   [] status = "unlocked" -> Recover(t, request)
                                   [] OTHER -> [t EXCEPT !.phase = "eq", !.locked = TRUE]
\* Every round brings the training nearer to its end, whatever the sink answers,
\* but one of clock recovery in which it asks for less than before: only a sink
\* that does so again and again keeps the driver in the loop for ever.
TrainSafe == (Rank(training) < training.before \/ training.eased) /\ training.tries <= 6 /\ training.cr <= 6
------------------------------------------------------------------------------
(* AUX: a transfer is sent up to five times until the hardware says done;  *)
(* an answer may be lost after the sink acted.  took counts what the sink  *)
(* did, acked what the driver was told, guess that an ack was read from    *)
(* memory no reply had filled (a reply of no bytes).                       *)
AuxIdle == [op |-> "idle", mode |-> "none", send |-> 0, retry |-> 0, left |-> 0, running |-> FALSE, open |-> FALSE,
            took |-> 0, acked |-> 0, guess |-> FALSE, ret |-> "none"]
\* intel_dp_aux_native_write or _read, or iic_dp_aux_xfer with a message: start, its bytes, stop
AuxBegin(op) ==
    /\ aux.op = "idle"
    /\ aux' = [AuxIdle EXCEPT !.op = op, !.mode = IF op = "i2c" THEN "start" ELSE "data",
                              !.left = IF op = "i2c" THEN XferLen ELSE 1, !.running = op = "i2c"]
\* The end of one transfer; ok says the driver was told that it worked.
AuxAfter(a, ok) ==
    LET b == [a EXCEPT !.send = 0, !.retry = 0] IN
    CASE a.op # "i2c" -> [b EXCEPT !.op = "idle", !.ret = IF ok THEN "ok" ELSE "error", !.acked = IF ok THEN @ + 1 ELSE @]
      [] a.mode = "start" -> [b EXCEPT !.mode = IF ok THEN "data" ELSE "stop", !.ret = IF ok THEN @ ELSE "error"]
      [] a.mode = "data" /\ ok -> [b EXCEPT !.left = @ - 1, !.acked = @ + 1, !.mode = IF a.left = 1 THEN "stop" ELSE "data",
                                            !.ret = IF a.left = 1 THEN "ok" ELSE @]
      [] a.mode = "data" /\ ~ok -> [b EXCEPT !.mode = "stop", !.ret = "error"]
      [] OTHER -> [b EXCEPT !.op = "idle", !.running = FALSE]
Acts(a) == [a EXCEPT !.took = IF a.mode = "data" /\ @ < 3 * XferLen THEN @ + 1 ELSE @,
                     !.open = IF a.op = "i2c" THEN a.mode # "stop" ELSE @]
\* Mutant: an error of the hardware counts as done
AuxTryAnyway(status, reply) ==
    LET acted == IF status \in {"late", "done"} /\ reply = "ack" THEN Acts(aux) ELSE aux IN
    /\ aux.op # "idle"
    /\ aux' = CASE status \in {"timeout", "late"} -> AuxAfter(acted, status = "late")
                [] status = "busy" -> AuxAfter(aux, FALSE)
                [] status = "done" /\ reply = "ack" -> AuxAfter(acted, TRUE)
                [] status = "done" /\ reply = "nack" -> AuxAfter(aux, FALSE)
                [] status = "done" /\ reply = "empty" -> IF aux.op = "read" THEN AuxAfter(aux, FALSE)
                                                        ELSE [AuxAfter(aux, TRUE) EXCEPT !.guess = TRUE]
                [] aux.op # "i2c" -> [aux EXCEPT !.send = 0]
                [] aux.retry = 4 -> AuxAfter(aux, FALSE)
                [] OTHER -> [aux EXCEPT !.send = 0, !.retry = @ + 1]
\* intel_dp_aux_ch with intel_dp_aux_native_write or _read (which defer without limit) or
\* intel_dp_i2c_aux_ch (five times); a NACK, a busy channel or five errors end it.
AuxTry(status, reply) ==
    LET acted == IF status \in {"late", "done"} /\ reply = "ack" THEN Acts(aux) ELSE aux IN
    /\ aux.op # "idle"
    /\ aux' = CASE status \in {"timeout", "late"} -> IF aux.send = 4 THEN AuxAfter(acted, FALSE) ELSE [acted EXCEPT !.send = @ + 1]
                [] status = "busy" -> AuxAfter(aux, FALSE)
                [] status = "done" /\ reply = "ack" -> AuxAfter(acted, TRUE)
                [] status = "done" /\ reply = "nack" -> AuxAfter(aux, FALSE)
                [] status = "done" /\ reply = "empty" -> IF aux.op = "read" THEN AuxAfter(aux, FALSE)
                                                        ELSE [AuxAfter(aux, TRUE) EXCEPT !.guess = TRUE]
                [] aux.op # "i2c" -> [aux EXCEPT !.send = 0]
                [] aux.retry = 4 -> AuxAfter(aux, FALSE)
                [] OTHER -> [aux EXCEPT !.send = 0, !.retry = @ + 1]
AuxNext == (\E op \in {"write", "read", "i2c"} : AuxBegin(op))
           \/ \E status \in {"timeout", "late", "done", "busy"}, reply \in {"ack", "nack", "defer", "empty"} :
                 AuxTry(status, reply)
\* What the driver counts as delivered the sink has taken, a message that worked has all
\* its bytes, and no I2C message is left open by a transfer that ends with an answer.
AuxSafe == ~aux.guess => /\ aux.acked <= aux.took
                         /\ aux.ret = "ok" /\ aux.op = "idle" => aux.took >= 1
                         /\ aux.ret = "ok" /\ aux.mode = "stop" => aux.acked = XferLen
                         /\ aux.op = "idle" => ~aux.running
------------------------------------------------------------------------------
(* The link for a mode (kHz; a lane carries 8 bits of every 10).           *)
LinkClock(bw) == IF bw = "2.7" THEN 270000 ELSE 162000
Required(clock, bpp) == (clock * bpp + 9) \div 10
DataRate(clock, lanes) == (clock * lanes * 8) \div 10
MaxRate(l) == DataRate(LinkClock(l.bw), l.max)
\* intel_dp_adjust_dithering: 24 bits, else 18
Fits(l, bpp) == Required(l.clock, bpp) <= MaxRate(l)
Bpp(l) == IF Fits(l, 24) THEN 24 ELSE 18
\* intel_dp_mode_valid
ModeValid(l) == Fits(l, 18) /\ l.clock >= 10000
Lanes == {1, 2, 4}
Links(l) == {[bw |-> bw, lanes |-> n] : bw \in {"1.62", l.bw}, n \in {m \in Lanes : m <= l.max}}
Carries(l, k) == Required(l.clock, Bpp(l)) <= DataRate(LinkClock(k.bw), k.lanes)
Before(k, m) == LinkClock(k.bw) < LinkClock(m.bw) \/ (k.bw = m.bw /\ k.lanes < m.lanes)
\* Mutant: the fewest lanes, whether they carry it or not
ModeFixupFewest(l) == [l EXCEPT !.use = CHOOSE k \in Links(l) : \A m \in Links(l) : m = k \/ Before(k, m)]
\* intel_dp_mode_fixup: the slowest link, then the fewest lanes
ModeFixup(l) ==
    LET ok == {k \in Links(l) : Carries(l, k)}
    IN  IF ok = {} THEN l ELSE [l EXCEPT !.use = CHOOSE k \in ok : \A m \in ok : m = k \/ Before(k, m)]
\* intel_choose_pipe_bpp_dither: what the framebuffer and the panel can, 18 if forced
PipeBpp(l) == IF Bpp(l) = 18 THEN 18 ELSE IF l.depth < l.panel THEN l.depth ELSE l.panel
\* intel_dp_compute_m_n: the data M and N, halved until both have 24 bits
Reduced(m, n) == LET k == CHOOSE i \in 0..8 : m \div 2^i < 2^24 /\ n \div 2^i < 2^24
                                              /\ \A j \in 0..i - 1 : m \div 2^j >= 2^24 \/ n \div 2^j >= 2^24
                 IN  [m |-> m \div 2^k, n |-> n \div 2^k]
MN(l) == Reduced((l.clock * PipeBpp(l)) \div 8, LinkClock(l.use.bw) * l.use.lanes)
NoLink == [bw |-> "none", lanes |-> 0]
ModeSets == link.use = NoLink /\ link' = ModeFixup(link) /\ link' # link
\* A mode that was offered gets a link, that link is fast enough for what the pipe sends
\* (unless the pipe sends 30 bits, which the choice does not know), and the hardware is
\* told less than a full link.
LinkSafe == /\ link.use = NoLink => (ModeValid(link) => ModeFixup(link).use # NoLink)
            /\ link.use # NoLink /\ PipeBpp(link) <= 24 =>
                  Required(link.clock, PipeBpp(link)) <= DataRate(LinkClock(link.use.bw), link.use.lanes)
                  /\ MN(link).m <= MN(link).n /\ MN(link).n > 0
------------------------------------------------------------------------------
DpInit ==
    /\ aspect \in {"port", "train", "aux", "mode"}
    /\ \E kind \in DpKinds, lit, vdd, oui \in BOOLEAN, edid \in {"good", "bad"} :
          /\ aspect # "port" => kind = "dp" /\ lit = FALSE /\ vdd = FALSE /\ oui = FALSE /\ edid = "good"
          /\ port = Probe(PortFirst(kind, lit, vdd, edid, oui))
    /\ training = TrainFirst
    /\ aux = AuxIdle
    /\ \E clock \in PixelClocks, bw \in {"1.62", "2.7"}, max \in Lanes, depth \in {18, 24, 30}, panel \in {18, 24, 30} :
          /\ aspect # "mode" => clock = CHOOSE c \in PixelClocks : TRUE
          /\ aspect # "mode" => bw = "1.62" /\ max = 1 /\ depth = 24 /\ panel = 24
          /\ link = [clock |-> clock, bw |-> bw, max |-> max, depth |-> depth, panel |-> panel, use |-> NoLink]
DpNext ==
    \/ aspect = "port" /\ PortNext /\ UNCHANGED <<aspect, training, aux, link>>
    \/ aspect = "train" /\ Trying /\ UNCHANGED <<aspect, port, aux, link>>
    \/ aspect = "aux" /\ AuxNext /\ UNCHANGED <<aspect, port, training, link>>
    \/ aspect = "mode" /\ ModeSets /\ UNCHANGED <<aspect, port, training, aux>>
DpSpec == DpInit /\ [][DpNext]_dpVars

\* Every variable keeps its type.
DpTypeOK ==
    /\ port \in [kind : DpKinds \cup {"dp"}, power : BOOLEAN, vdd : BOOLEAN, want : BOOLEAN, due : BOOLEAN, blc : BOOLEAN,
                 on : BOOLEAN, pll : BOOLEAN, pipe : BOOLEAN, active : BOOLEAN, edid : {"good", "bad"}, oui : BOOLEAN,
                 saved : BOOLEAN, asleep : BOOLEAN, restored : BOOLEAN,
                 warn : SUBSET {"twice", "off", "vdd", "pll", "down", "on"}, dark : BOOLEAN, lost : BOOLEAN]
    /\ training.phase \in {"cr", "eq", "trained", "failed"} /\ training.swing \in 0..MaxSwing
    /\ training.voltage \in -1 .. MaxSwing /\ training.vtries \in 0..4 /\ training.ltries \in 0..4
    /\ aux.op \in {"idle", "write", "read", "i2c"} /\ aux.send \in 0..4 /\ aux.retry \in 0..4 /\ aux.left \in 0..XferLen
    /\ link.use.lanes \in Lanes \cup {0}
\* The four aspects
DpSafe == CASE aspect = "port" -> PortSafe [] aspect = "train" -> TrainSafe
            [] aspect = "aux" -> AuxSafe [] OTHER -> LinkSafe
=============================================================================
