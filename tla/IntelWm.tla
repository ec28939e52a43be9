------------------------------ MODULE IntelWm ------------------------------
(***************************************************************************)
(* The display FIFO watermarks of drm/i915 (intel_pm.c): each pipe's own,  *)
(* and those of self-refresh and of the low-power levels, which the        *)
(* hardware may use only while a single plane is lit.  They are written    *)
(* one register at a time, when a crtc is turned on, off or given a mode   *)
(* and when a sprite starts or stops to scale (intel_sprite.c).            *)
(***************************************************************************)
EXTENDS Integers, Sequences, FiniteSets, TLC

CONSTANTS WmFamilies,
          Configs,      \* what each crtc may show: [clock, htotal, hdisplay, cpp]
          Sprites,      \* the pipes whose sprite is used
          WmFifo,       \* DSPARB: the share of the FIFO of each plane
          WmLatency     \* the latency registers of WM0 and of levels 1 to 3

VARIABLES family, crtc, sprite,
          scaling,      \* dev_priv->sprite_scaling_enabled
          reg, todo,    \* the registers, and the writes still to come
          doing,        \* the operation that the writes belong to
          overruled     \* another plane's update cleared scaling
wmVars == <<family, crtc, sprite, scaling, reg, todo, doing, overruled>>

WmAssumption ==
    /\ WmFamilies \subseteq {"i830", "i9xx", "i965", "pnv", "g4x", "vlv", "ilk", "snb", "ivb", "hsw"}
    /\ WmFifo \in [1..2 -> Nat] /\ WmLatency \in [0..3 -> Nat]
    /\ \A p \in 1..3 : \A c \in Configs[p] : c.clock \in Nat \ {0} /\ c.htotal * 1000 >= c.clock

Pipes == IF family \in {"ivb", "hsw"} THEN 1..3 ELSE 1..2
Dark == [active |-> FALSE, lit |-> FALSE, show |-> <<>>]
IntelCrtcActive(c) == crtc[c].active /\ crtc[c].show # <<>>
Cfg(c) == crtc[c].show[1]
\* Idle FIFOs, a bound on what the display drains, and the watermark tables
Fifo(f, m, d, g, l) == [fifo |-> f, max |-> m, default |-> d, guard |-> g, line |-> l]
I830Info == Fifo(95, 63, 1, 2, 32)
I945Info == Fifo(127, 63, 1, 2, 64)
I965Cursor == Fifo(64, 32, 8, 2, 64)
PnvDisplay == Fifo(512, 511, 63, 10, 64)
PnvCursor == Fifo(64, 63, 0, 5, 64)
G4xInfo == Fifo(127, 63, 63, 2, 64)
VlvInfo == Fifo(255, 255, 255, 2, 64)
VlvCursor == Fifo(64, 64, 8, 2, 64)
IlkInfo == Fifo(128, 64, 8, 2, 64)
IlkCursor == Fifo(32, 16, 8, 2, 64)
SnbInfo == Fifo(128, 127, 8, 2, 64)
SnbCursor == Fifo(32, 31, 8, 2, 64)
SrInfo == Fifo(512, 511, 63, 2, 64)
SrCursor == Fifo(64, 63, 8, 2, 64)
------------------------------------------------------------------------------
(* The computations.                                                       *)
RoundUp(a, b) == (a + b - 1) \div b
AtMost(a, b) == IF a > b THEN b ELSE a
LineTime(c) == (c.htotal * 1000) \div c.clock
Lines(c, latency) == (latency \div LineTime(c) + 1000) \div 1000
Drained(c, latency) == (((c.clock * c.cpp) \div 1000) * latency) \div 1000

\* intel_calculate_wm: the fill at which to fetch, counted from the top
CalculateWm(w, fifo, c, cpp, latency) ==
    LET entries == RoundUp(((c.clock \div 1000) * cpp * latency) \div 1000, w.line)
        wm == AtMost(fifo - (entries + w.guard), w.max)
    IN  IF wm <= 0 THEN w.default ELSE wm
\* g4x_compute_wm0: what must be in the FIFO, counted from the bottom
Missed(w, c) == IF w.fifo * w.line > c.hdisplay * 8 THEN w.fifo * w.line - c.hdisplay * 8 ELSE 0
ComputeWm0(w, cur, c, latency, curLatency) ==
    <<AtMost(RoundUp(Drained(c, latency) + Missed(w, c), w.line) + w.guard, w.max),
      AtMost(RoundUp(Lines(c, curLatency) * 64 * c.cpp + Missed(cur, c), cur.line) + cur.guard, cur.max)>>
\* g4x_compute_srwm and ironlake_compute_srwm: display, cursor and FBC lines
ComputeSrwm(w, cur, c, latency) ==
    LET lines == Lines(c, latency)
        large == lines * c.hdisplay * c.cpp
        display == RoundUp(AtMost(Drained(c, latency), large), w.line) + w.guard
    IN  <<display, RoundUp(lines * c.cpp * 64, cur.line) + cur.guard,
          RoundUp(display * 64, c.hdisplay * c.cpp) + 2>>
Fits(w, cur, wm) == wm[1] <= w.max /\ wm[2] <= cur.max
\* i965_update_wm and i9xx_update_wm
SelfRefresh(c, latency, line, fifo) ==
    LET left == fifo - RoundUp(Lines(c, latency) * c.cpp * c.hdisplay, line)
    IN  IF left < 0 THEN 1 ELSE left
\* vlv_compute_drain_latency, for the plane
DrainLatency(c) ==
    LET rate == (c.clock \div 1000) * c.cpp
        prec == IF rate > 256 THEN 32 ELSE 16
    IN  <<prec, (64 * prec * 4) \div rate>>
------------------------------------------------------------------------------
(* The updates: the sequence of writes that dev_priv->display.update_wm    *)
(* makes; a write sets the fields of one register, or of a group of them.  *)
Wm0Name(c) == <<"wm1", "wm2", "wm3">>[c]
LpName(l) == <<"lp1", "lp2", "lp3">>[l]
Names == {"wm1", "wm2", "wm3", "lp1", "lp2", "lp3", "sr", "self", "ddl1", "ddl2", "fbcdis"}
Active(s) == {c \in Pipes : s[c].active /\ s[c].show # <<>>}
SingleEnabled(s) == Cardinality(Active(s)) = 1
Single(s) == (CHOOSE c \in Active(s) : TRUE)
Shown(s, c) == s[c].show[1]

I830Wm(s) == IF ~SingleEnabled(s) THEN <<>>
             ELSE <<"wm1" :> <<CalculateWm(I830Info, WmFifo[1], Shown(s, Single(s)), 4, 5000)>>>>
PlaneWm(s, c) == <<IF c \in Active(s) THEN CalculateWm(I945Info, WmFifo[c], Shown(s, c), Shown(s, c).cpp, 5000)
                   ELSE WmFifo[c] - I945Info.guard>>
\* An i945GM: self-refresh is off while its watermark changes.
I9xxWm(s) ==
    <<"self" :> <<>>>>
    \o (IF SingleEnabled(s) THEN <<"sr" :> <<SelfRefresh(Shown(s, Single(s)), 6000, 64, 127) % 256>>>> ELSE <<>>)
    \o <<"wm1" :> PlaneWm(s, 1) @@ "wm2" :> PlaneWm(s, 2)>>
    \o (IF SingleEnabled(s) THEN <<"self" :> <<1>>>> ELSE <<>>)
\* A Crestline
I965Wm(s) ==
    LET c == Shown(s, Single(s))
        cursor == AtMost(64 - (RoundUp(Lines(c, 12000) * c.cpp * 64, 64) + 2), 32)
    IN  IF SingleEnabled(s) THEN <<"self" :> <<1>>, "sr" :> <<SelfRefresh(c, 12000, 64, 512) % 512, cursor>>>>
        ELSE <<"self" :> <<>>, "sr" :> <<1, 16>>>>
\* A Pineview with a known latency; what the display can do with its PLL off
\* is computed the same way and left out.
PineviewWm(s) ==
    LET c == Shown(s, Single(s)) IN
    IF SingleEnabled(s)
    THEN <<"sr" :> <<CalculateWm(PnvDisplay, 512, c, c.cpp, 3382), CalculateWm(PnvCursor, 512, c, c.cpp, 3983) % 64>>,
           "self" :> <<1>>>>
    ELSE <<"self" :> <<>>>>
\* g4x_update_wm and valleyview_update_wm; the latter writes drain latencies
\* first and takes twice the latency for the cursor.
Wm0(w, cur, s, c, l, cl) == IF c \in Active(s) THEN ComputeWm0(w, cur, Shown(s, c), l, cl) ELSE <<w.guard, cur.guard>>
G4xOrVlv(s, w, cur, curLatency) ==
    LET c == Shown(s, Single(s))
        a == ComputeSrwm(w, cur, c, 12000)
        b == ComputeSrwm(w, cur, c, curLatency)
        on == SingleEnabled(s) /\ Fits(w, cur, a) /\ Fits(w, cur, b)
    IN  <<"self" :> (IF on THEN <<1>> ELSE <<>>),
          "sr" :> (IF on THEN <<a[1], b[2]>> ELSE <<0, 0>>)
          @@ "wm1" :> Wm0(w, cur, s, 1, 5000, 5000) @@ "wm2" :> Wm0(w, cur, s, 2, 5000, 5000)>>
VlvDrain(s) == (IF 1 \in Active(s) THEN <<"ddl1" :> DrainLatency(Shown(s, 1))>> ELSE <<>>)
               \o (IF 2 \in Active(s) THEN <<"ddl2" :> DrainLatency(Shown(s, 2))>> ELSE <<>>)
\* Ironlake and after.  A level is written only after the ones below it, and
\* the first that does not fit ends the update.
PipeWm(s, c, w, cur, l, cl) ==
    IF c \in Active(s) THEN <<Wm0Name(c) :> ComputeWm0(w, cur, Shown(s, c), l, cl)>> ELSE <<>>
LevelWm(c, level) ==
    LET half == WmLatency[level] * 500
        wm == ComputeSrwm(SrInfo, SrCursor, c, half)
    IN  IF family = "ivb" /\ level = 3 THEN [wm EXCEPT ![2] = ComputeSrwm(SrInfo, SrCursor, c, 2 * half)[2]] ELSE wm
LevelFits(c, level) == WmLatency[level] # 0 /\ Fits(SrInfo, SrCursor, LevelWm(c, level)) /\ LevelWm(c, level)[3] <= 15
Levels(c, top) ==
    LET bad == {l \in 1..top : ~LevelFits(c, l)}
        first == CHOOSE l \in bad : \A m \in bad : l <= m
        good == IF bad = {} THEN top ELSE first - 1
    IN  [l \in 1..good |-> LpName(l) :> LevelWm(c, l)]
        \o (IF bad # {} /\ WmLatency[first] # 0 /\ LevelWm(c, first)[3] > 15 THEN <<"fbcdis" :> <<1>>>> ELSE <<>>)
LevelsOff == <<"lp3" :> <<>>, "lp2" :> <<>>, "lp1" :> <<>>>>
IlkWm(s) ==
    PipeWm(s, 1, IlkInfo, IlkCursor, 700, 1300) \o PipeWm(s, 2, IlkInfo, IlkCursor, 700, 1300) \o LevelsOff
    \o (IF SingleEnabled(s) THEN Levels(Shown(s, Single(s)), 2) ELSE <<>>)
SnbPipe(s, c) == PipeWm(s, c, SnbInfo, SnbCursor, WmLatency[0] * 100, WmLatency[0] * 100)
\* sandybridge_update_wm, for Haswell too, looks at two pipes.
SnbWm(s, scaled) ==
    LET two == Active(s) \cap {1, 2} IN
    SnbPipe(s, 1) \o SnbPipe(s, 2) \o LevelsOff
    \o (IF Cardinality(two) = 1 /\ ~scaled THEN Levels(Shown(s, CHOOSE c \in two : TRUE), 3) ELSE <<>>)
\* Mutant of IvbWm: the levels are not turned off first.
IvbWmKeeps(s, scaled) ==
    SnbPipe(s, 1) \o SnbPipe(s, 2) \o SnbPipe(s, 3)
    \o (IF SingleEnabled(s) /\ 3 \notin Active(s) /\ ~scaled THEN Levels(Shown(s, Single(s)), 3) ELSE <<>>)
\* ivybridge_update_wm counts the third pipe as the first two.
IvbWm(s, scaled) ==
    SnbPipe(s, 1) \o SnbPipe(s, 2) \o SnbPipe(s, 3) \o LevelsOff
    \o (IF SingleEnabled(s) /\ 3 \notin Active(s) /\ ~scaled THEN Levels(Shown(s, Single(s)), 3) ELSE <<>>)
UpdateWm(s, scaled) ==
    CASE family = "i830" -> I830Wm(s) [] family = "i9xx" -> I9xxWm(s) [] family = "i965" -> I965Wm(s)
      [] family = "pnv" -> PineviewWm(s) [] family = "g4x" -> G4xOrVlv(s, G4xInfo, I965Cursor, 12000)
      [] family = "vlv" -> VlvDrain(s) \o G4xOrVlv(s, VlvInfo, VlvCursor, 24000)
      [] family = "ilk" -> IlkWm(s) [] family = "ivb" -> IvbWm(s, scaled) [] OTHER -> SnbWm(s, scaled)
------------------------------------------------------------------------------
(* The operations, one at a time under the mode_config mutex.              *)
Idle == [kind |-> "none", crtc |-> 0]
Begin(kind, c, s, scaled) == doing' = [kind |-> kind, crtc |-> c] /\ todo' = UpdateWm(s, scaled)

\* The mode_set of a crtc, which is off, programs the watermarks too.
SetMode(c, cfg) ==
    /\ doing = Idle /\ ~crtc[c].active
    /\ crtc' = [crtc EXCEPT ![c].show = <<cfg>>]
    /\ Begin("mode", c, crtc', scaling) /\ UNCHANGED <<sprite, scaling, overruled>>
\* Mutant of CrtcEnable: the plane is on before the watermarks are.
CrtcEnableEarly(c) ==
    /\ doing = Idle /\ ~crtc[c].active /\ crtc[c].show # <<>>
    /\ crtc' = [crtc EXCEPT ![c].active = TRUE, ![c].lit = TRUE]
    /\ Begin("on", c, crtc', scaling) /\ UNCHANGED <<sprite, scaling, overruled>>
\* The enable of a crtc updates the watermarks before it turns the plane on,
\* its disable after it has turned it off.
CrtcEnable(c) ==
    /\ doing = Idle /\ ~crtc[c].active /\ crtc[c].show # <<>>
    /\ crtc' = [crtc EXCEPT ![c].active = TRUE]
    /\ Begin("on", c, crtc', scaling) /\ UNCHANGED <<sprite, scaling, overruled>>
CrtcDisable(c) ==
    /\ doing = Idle /\ crtc[c].active
    /\ crtc' = [crtc EXCEPT ![c].active = FALSE, ![c].lit = FALSE]
    /\ Begin("off", c, crtc', scaling) /\ UNCHANGED <<sprite, scaling, overruled>>
\* intel_crtc_disable takes the framebuffer away.
TakeFb(c) ==
    /\ doing = Idle /\ ~crtc[c].active /\ crtc[c].show # <<>>
    /\ crtc' = [crtc EXCEPT ![c].show = <<>>]
    /\ UNCHANGED <<sprite, scaling, overruled, doing, todo>>
\* ivb_update_plane: the flag and the watermarks first, the scaler last.
UpdatePlane(c, how) ==
    /\ doing = Idle /\ c \in Sprites /\ crtc[c].lit /\ family \in {"ivb", "hsw"} /\ how \in {"plain", "scaled"}
    /\ scaling' = (how = "scaled")
    /\ doing' = [kind |-> how, crtc |-> c]
    /\ todo' = IF scaling = scaling' THEN <<>> ELSE UpdateWm(crtc, scaling')
    /\ overruled' = IF how = "scaled" THEN FALSE ELSE overruled \/ \E d \in Pipes \ {c} : sprite[d] = "scaled"
    /\ UNCHANGED <<crtc, sprite>>
\* ivb_disable_plane: the sprite first
DisablePlane(c) ==
    /\ doing = Idle /\ family \in {"ivb", "hsw"} /\ sprite[c] # "off"
    /\ sprite' = [sprite EXCEPT ![c] = "off"] /\ scaling' = FALSE
    /\ overruled' = (overruled \/ \E d \in Pipes \ {c} : sprite[d] = "scaled")
    /\ Begin("plane", c, crtc, FALSE) /\ UNCHANGED crtc

Write ==
    /\ todo # <<>>
    /\ reg' = Head(todo) @@ reg /\ todo' = Tail(todo)
    /\ UNCHANGED <<crtc, sprite, scaling, doing, overruled>>
Finish ==
    /\ todo = <<>> /\ doing # Idle /\ doing' = Idle
    /\ crtc' = IF doing.kind = "on" THEN [crtc EXCEPT ![doing.crtc].lit = TRUE] ELSE crtc
    /\ sprite' = IF doing.kind \in {"plain", "scaled"} THEN [sprite EXCEPT ![doing.crtc] = doing.kind] ELSE sprite
    /\ UNCHANGED <<scaling, reg, todo, overruled>>

WmInit ==
    /\ family \in WmFamilies
    /\ crtc = [c \in 1..3 |-> Dark] /\ sprite = [c \in 1..3 |-> "off"] /\ scaling = FALSE
    /\ reg = [n \in Names |-> <<>>] /\ todo = <<>> /\ doing = Idle /\ overruled = FALSE
WmNext ==
    /\ UNCHANGED family
    /\ \/ \E c \in Pipes : /\ \/ \E cfg \in Configs[c] : SetMode(c, cfg)
                              \/ CrtcEnable(c) \/ CrtcDisable(c) \/ TakeFb(c)
                              \/ \E how \in {"plain", "scaled"} : UpdatePlane(c, how)
                              \/ DisablePlane(c)
                           /\ UNCHANGED reg
       \/ Write \/ Finish
WmSpec == WmInit /\ [][WmNext]_wmVars
------------------------------------------------------------------------------
WmTypeOK ==
    /\ family \in WmFamilies /\ scaling \in BOOLEAN /\ overruled \in BOOLEAN
    /\ crtc \in [1..3 -> [active : BOOLEAN, lit : BOOLEAN, show : {<<>>} \cup {<<cfg>> : cfg \in UNION {Configs[p] : p \in 1..3}}]]
    /\ sprite \in [1..3 -> {"off", "plain", "scaled"}]
    /\ DOMAIN reg = Names /\ doing.kind \in {"none", "mode", "on", "off", "plain", "scaled", "plane"}

LitPlanes == {c \in Pipes : crtc[c].lit}
LevelsOn == {l \in 1..3 : reg[LpName(l)] # <<>>}
\* What is used is what its user needs: the latency is covered unless the
\* field can not say more, and the default of a full FIFO is at least 1.
FromBottom(wm, w, c, latency) == wm[1] = w.max \/ wm[1] * w.line * 1000 >= ((c.clock * c.cpp) \div 1000) * latency
FromTop(wm, w, fifo, c, cpp, latency) ==
    wm[1] \in 1..w.max
    /\ (wm[1] = w.default \/ (fifo - wm[1]) * w.line * 1000 >= (c.clock \div 1000) * cpp * latency)
PlaneCovered(c) ==
    LET cfg == Cfg(c) IN
    CASE family = "i9xx" -> FromTop(reg[Wm0Name(c)], I945Info, WmFifo[c], cfg, cfg.cpp, 5000)
      [] family = "g4x" -> FromBottom(reg[Wm0Name(c)], G4xInfo, cfg, 5000)
      [] family = "vlv" -> FromBottom(reg[Wm0Name(c)], VlvInfo, cfg, 5000)
      [] family = "ilk" -> FromBottom(reg[Wm0Name(c)], IlkInfo, cfg, 700)
      [] family \in {"snb", "ivb"} \/ (family = "hsw" /\ c # 3) ->
            FromBottom(reg[Wm0Name(c)], SnbInfo, cfg, WmLatency[0] * 100)
      [] family = "i830" /\ LitPlanes = {1} /\ todo = <<>> -> FromTop(reg["wm1"], I830Info, WmFifo[1], cfg, 4, 5000)
      [] OTHER -> TRUE
\* A lit plane has the watermark of what it shows, at every moment; an 830
\* with two crtcs on keeps what one of them left.
PlanesCovered == \A c \in LitPlanes : PlaneCovered(c)
\* Self-refresh and the levels are for a single lit plane, the levels for one
\* without a scaled sprite, and they have the watermarks of what it shows.
\* Where the driver turns self-refresh on first (g4x_update_wm,
\* valleyview_update_wm and i965_update_wm), those are right after the
\* update.  Haswell's third pipe is not looked at.
Alone == Cardinality(LitPlanes \ (IF family = "hsw" THEN {3} ELSE {})) <= 1
LateValues == family \in {"g4x", "vlv", "i965"} /\ todo # <<>>
SelfRefreshRight ==
    reg["self"] # <<>> =>
        /\ Alone
        /\ LateValues \/ \A c \in LitPlanes :
            CASE family = "i9xx" -> reg["sr"] = <<SelfRefresh(Cfg(c), 6000, 64, 127) % 256>>
              [] family = "i965" -> reg["sr"][1] = SelfRefresh(Cfg(c), 12000, 64, 512) % 512
              [] family \in {"g4x", "vlv"} -> reg["sr"][1] = ComputeSrwm(G4xInfo, I965Cursor, Cfg(c), 12000)[1]
              [] family = "pnv" -> reg["sr"][1] = CalculateWm(PnvDisplay, 512, Cfg(c), Cfg(c).cpp, 3382)
LevelsRight ==
    LevelsOn # {} =>
        /\ Alone
        /\ \A c \in LitPlanes \ (IF family = "hsw" THEN {3} ELSE {}) :
              \A l \in LevelsOn : reg[LpName(l)] = LevelWm(Cfg(c), l) /\ (l > 1 => l - 1 \in LevelsOn)
        /\ doing = Idle /\ ~overruled => \A c \in LitPlanes : sprite[c] # "scaled"
WmSafe == PlanesCovered /\ SelfRefreshRight /\ LevelsRight
=============================================================================
