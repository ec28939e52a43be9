------------------------------ MODULE IntelDdi ------------------------------
(***************************************************************************)
(* The Haswell display of drm/i915 (intel_ddi.c and the haswell_ and lpt_  *)
(* functions of intel_display.c).  Port A drives the built-in panel, the   *)
(* digital ports whatever was last detected there, and port E the analog   *)
(* output through the link to the LPT.  A pipe feeds its own transcoder,   *)
(* or the panel's; a transcoder feeds a port; and the port's clock is      *)
(* LCPLL, or one of three PLLs that are counted.  Calls hold               *)
(* mode_config.mutex from beginning to end and are one action each; the    *)
(* operators on a d are the C functions, from ddi to ddi.  Bounds: only    *)
(* the ports in Dual change their type, the others were probed as HDMI     *)
(* when the driver loaded, and a behaviour ends with its first slip.       *)
(***************************************************************************)
EXTENDS Integers, SequencesExt

CONSTANTS DdiPipes, Digital, Dual, DdiClocks, None

\* ddi: crtc (enabled, active, sel = ddi_pll_sel, edp = cpu_transcoder is the panel's), enc
\* (crtc, links = the connectors in use, lit = those with DPMS on, on = connectors_active,
\* type), ref and run (counts of the PLLs and whether they run), port (clk = PORT_CLK_SEL,
\* buf = DDI_BUF_CTL, tp = DP_TP_CTL), trans (func = the port, mode and input of
\* TRANS_DDI_FUNC_CTL, clk = TRANS_CLK_SEL, pipe = PIPECONF), rx (the receiver of the link), pch
\* (the transcoder behind it), up (the driver runs), warned (the WARNs that fired), slips (what
\* went wrong on the way: a link that was not trained, an output on the clock of another type,
\* a port given to another pipe than was asked for, the DPMS of a connector not in use, a
\* roll-back that lost a pipe, a clock or the panel's transcoder kept by a pipe that the
\* read-out disabled).
VARIABLE ddi

DdiPorts == Digital \cup {"A", "E"}
Counted == {"spll", "wrpll1", "wrpll2"}
DdiTypes == {"edp", "analog", "hdmi", "dp", "unknown"}
DdiSlips == {"untrained", "misclocked", "crossed", "unlinked", "unrestored", "leaked", "claimed"}
DdiAssumption ==
    /\ Dual \subseteq Digital /\ DdiPipes # {} /\ Digital \cap {"A", "E"} = {}
    /\ None \notin DdiPipes \cup DdiPorts /\ "edp" \notin DdiPipes
    /\ \A clock \in DdiClocks : clock \in 20000 .. 400000

Complain(d, bad, text) == [d EXCEPT !.warned = IF bad THEN @ \cup {text} ELSE @]
EncodersOf(d, c) == {p \in DdiPorts : d.enc[p].crtc = c}
TheEncoder(d, c) == CHOOSE p \in EncodersOf(d, c) : TRUE      \* intel_ddi_get_crtc_encoder
Transcoder(d, c) == IF d.crtc[c].edp THEN "edp" ELSE c        \* intel_pipe_to_cpu_transcoder
DrivingLpt(d, c) == EncodersOf(d, c) = {"E"}                  \* haswell_crtc_driving_pch
------------------------------------------------------------------------------
\* intel_ddi_put_crtc_pll
PutCrtcPll(d, c) ==
    LET k == d.crtc[c].sel
        last == k \in Counted /\ d.ref[k] = 1
        less == IF k \in Counted THEN [d EXCEPT !.ref[k] = @ - 1, !.run[k] = @ /\ ~last] ELSE d
    IN  [Complain(Complain(less, last /\ ~d.run[k], "pll is off"), k \in Counted /\ d.ref[k] = 0, "refcount")
            EXCEPT !.crtc[c].sel = "none"]
Take(d, c, k) == [Complain(d, d.run[k], "pll is on") EXCEPT !.ref[k] = @ + 1, !.run[k] = TRUE, !.crtc[c].sel = k]
\* intel_ddi_pll_mode_set.  Mutant: the PLL of the old mode is kept.
PllModeSetKeeping(d, c) ==
    LET type == d.enc[TheEncoder(d, c)].type
        free == {k \in {"wrpll1", "wrpll2"} : d.ref[k] = 0}
    IN  CASE type \in {"dp", "edp"} -> [d |-> [d EXCEPT !.crtc[c].sel = "lcpll"], ok |-> TRUE]
          [] type = "hdmi" /\ free # {} -> [d |-> Take(d, c, IF "wrpll1" \in free THEN "wrpll1" ELSE "wrpll2"), ok |-> TRUE]
          [] type = "analog" /\ d.ref["spll"] = 0 -> [d |-> Take(d, c, "spll"), ok |-> TRUE]
          [] type = "analog" -> [d |-> [Complain(d, d.run["spll"], "pll is on") EXCEPT !.run["spll"] = TRUE], ok |-> TRUE]
          [] OTHER -> [d |-> d, ok |-> FALSE]
PllModeSet(d, c) == PllModeSetKeeping(PutCrtcPll(d, c), c)

\* The settings of intel_ddi_calculate_wrpll for clocks in kHz: clock, p, n2, r2
WrpllTable == <<
    <<19750,38,25,18>>, <<20000,48,32,18>>, <<21000,36,21,15>>, <<21912,42,29,17>>, <<22000,36,22,15>>,
    <<23000,36,23,15>>, <<23500,40,40,23>>, <<23750,26,16,14>>, <<24000,36,24,15>>, <<25000,36,25,15>>,
    <<25175,26,40,33>>, <<25200,30,21,15>>, <<26000,36,26,15>>, <<27000,30,21,14>>, <<27027,18,100,111>>,
    <<27500,30,29,19>>, <<28000,34,30,17>>, <<28320,26,30,22>>, <<28322,32,42,25>>, <<28750,24,23,18>>,
    <<29000,30,29,18>>, <<29750,32,30,17>>, <<30000,30,25,15>>, <<30750,30,41,24>>, <<31000,30,31,18>>,
    <<31500,30,28,16>>, <<32000,30,32,18>>, <<32500,28,32,19>>, <<33000,24,22,15>>, <<34000,28,30,17>>,
    <<35000,26,32,19>>, <<35500,24,30,19>>, <<36000,26,26,15>>, <<36750,26,46,26>>, <<37000,24,23,14>>,
    <<37762,22,40,26>>, <<37800,20,21,15>>, <<38000,24,27,16>>, <<38250,24,34,20>>, <<39000,24,26,15>>,
    <<40000,24,32,18>>, <<40500,20,21,14>>, <<40541,22,147,89>>, <<40750,18,19,14>>, <<41000,16,17,14>>,
    <<41500,22,44,26>>, <<41540,22,44,26>>, <<42000,18,21,15>>, <<42500,22,45,26>>, <<43000,20,43,27>>,
    <<43163,20,24,15>>, <<44000,18,22,15>>, <<44900,20,108,65>>, <<45000,20,25,15>>, <<45250,20,52,31>>,
    <<46000,18,23,15>>, <<46750,20,45,26>>, <<47000,20,40,23>>, <<48000,18,24,15>>, <<49000,18,49,30>>,
    <<49500,16,22,15>>, <<50000,18,25,15>>, <<50500,18,32,19>>, <<51000,18,34,20>>, <<52000,18,26,15>>,
    <<52406,14,34,25>>, <<53000,16,22,14>>, <<54000,16,24,15>>, <<54054,16,173,108>>, <<54500,14,24,17>>,
    <<55000,12,22,18>>, <<56000,14,45,31>>, <<56250,16,25,15>>, <<56750,14,25,17>>, <<57000,16,27,16>>,
    <<58000,16,43,25>>, <<58250,16,38,22>>, <<58750,16,40,23>>, <<59000,14,26,17>>, <<59341,14,40,26>>,
    <<59400,16,44,25>>, <<60000,16,32,18>>, <<60500,12,39,29>>, <<61000,14,49,31>>, <<62000,14,37,23>>,
    <<62250,14,42,26>>, <<63000,12,21,15>>, <<63500,14,28,17>>, <<64000,12,27,19>>, <<65000,14,32,19>>,
    <<65250,12,29,20>>, <<65500,12,32,22>>, <<66000,12,22,15>>, <<66667,14,38,22>>, <<66750,10,21,17>>,
    <<67000,14,33,19>>, <<67750,14,58,33>>, <<68000,14,30,17>>, <<68179,14,46,26>>, <<68250,14,46,26>>,
    <<69000,12,23,15>>, <<70000,12,28,18>>, <<71000,12,30,19>>, <<72000,12,24,15>>, <<73000,10,23,17>>,
    <<74000,12,23,14>>, <<74176,8,100,91>>, <<74250,10,22,16>>, <<74481,12,43,26>>, <<74500,10,29,21>>,
    <<75000,12,25,15>>, <<75250,10,39,28>>, <<76000,12,27,16>>, <<77000,12,53,31>>, <<78000,12,26,15>>,
    <<78750,12,28,16>>, <<79000,10,38,26>>, <<79500,10,28,19>>, <<80000,12,32,18>>, <<81000,10,21,14>>,
    <<81081,6,100,111>>, <<81624,8,29,24>>, <<82000,8,17,14>>, <<83000,10,40,26>>, <<83950,10,28,18>>,
    <<84000,10,28,18>>, <<84750,6,16,17>>, <<85000,6,17,18>>, <<85250,10,30,19>>, <<85750,10,27,17>>,
    <<86000,10,43,27>>, <<87000,10,29,18>>, <<88000,10,44,27>>, <<88500,10,41,25>>, <<89000,10,28,17>>,
    <<89012,6,90,91>>, <<89100,10,33,20>>, <<90000,10,25,15>>, <<91000,10,32,19>>, <<92000,10,46,27>>,
    <<93000,10,31,18>>, <<94000,10,40,23>>, <<94500,10,28,16>>, <<95000,10,44,25>>, <<95654,10,39,22>>,
    <<95750,10,39,22>>, <<96000,10,32,18>>, <<97000,8,23,16>>, <<97750,8,42,29>>, <<98000,8,45,31>>,
    <<99000,8,22,15>>, <<99750,8,34,23>>, <<100000,6,20,18>>, <<100500,6,19,17>>, <<101000,6,37,33>>,
    <<101250,8,21,14>>, <<102000,6,17,15>>, <<102250,6,25,22>>, <<103000,8,29,19>>, <<104000,8,37,24>>,
    <<105000,8,28,18>>, <<106000,8,22,14>>, <<107000,8,46,29>>, <<107214,8,27,17>>, <<108000,8,24,15>>,
    <<108108,8,173,108>>, <<109000,6,23,19>>, <<110000,6,22,18>>, <<110013,6,22,18>>, <<110250,8,49,30>>,
    <<110500,8,36,22>>, <<111000,8,23,14>>, <<111264,8,150,91>>, <<111375,8,33,20>>, <<112000,8,63,38>>,
    <<112500,8,25,15>>, <<113100,8,57,34>>, <<113309,8,42,25>>, <<114000,8,27,16>>, <<115000,6,23,18>>,
    <<116000,8,43,25>>, <<117000,8,26,15>>, <<117500,8,40,23>>, <<118000,6,38,29>>, <<119000,8,30,17>>,
    <<119500,8,46,26>>, <<119651,8,39,22>>, <<120000,8,32,18>>, <<121000,6,39,29>>, <<121250,6,31,23>>,
    <<121750,6,23,17>>, <<122000,6,42,31>>, <<122614,6,30,22>>, <<123000,6,41,30>>, <<123379,6,37,27>>,
    <<124000,6,51,37>>, <<125000,6,25,18>>, <<125250,4,13,14>>, <<125750,4,27,29>>, <<126000,6,21,15>>,
    <<127000,6,24,17>>, <<127250,6,41,29>>, <<128000,6,27,19>>, <<129000,6,43,30>>, <<129859,4,25,26>>,
    <<130000,6,26,18>>, <<130250,6,42,29>>, <<131000,6,32,22>>, <<131500,6,38,26>>, <<131850,6,41,28>>,
    <<132000,6,22,15>>, <<132750,6,28,19>>, <<133000,6,34,23>>, <<133330,6,37,25>>, <<134000,6,61,41>>,
    <<135000,6,21,14>>, <<135250,6,167,111>>, <<136000,6,62,41>>, <<137000,6,35,23>>, <<138000,6,23,15>>,
    <<138500,6,40,26>>, <<138750,6,37,24>>, <<139000,6,34,22>>, <<139050,6,34,22>>, <<139054,6,34,22>>,
    <<140000,6,28,18>>, <<141000,6,36,23>>, <<141500,6,22,14>>, <<142000,6,30,19>>, <<143000,6,27,17>>,
    <<143472,4,17,16>>, <<144000,6,24,15>>, <<145000,6,29,18>>, <<146000,6,47,29>>, <<146250,6,26,16>>,
    <<147000,6,49,30>>, <<147891,6,23,14>>, <<148000,6,23,14>>, <<148250,6,28,17>>, <<148352,4,100,91>>,
    <<148500,6,33,20>>, <<149000,6,48,29>>, <<150000,6,25,15>>, <<151000,4,19,17>>, <<152000,6,27,16>>,
    <<152280,6,44,26>>, <<153000,6,34,20>>, <<154000,6,53,31>>, <<155000,6,31,18>>, <<155250,6,50,29>>,
    <<155750,6,45,26>>, <<156000,6,26,15>>, <<157000,6,61,35>>, <<157500,6,28,16>>, <<158000,6,65,37>>,
    <<158250,6,44,25>>, <<159000,6,53,30>>, <<159500,6,39,22>>, <<160000,6,32,18>>, <<161000,4,31,26>>,
    <<162000,4,18,15>>, <<162162,4,131,109>>, <<162500,4,53,44>>, <<163000,4,29,24>>, <<164000,4,17,14>>,
    <<165000,4,22,18>>, <<166000,4,32,26>>, <<167000,4,26,21>>, <<168000,4,46,37>>, <<169000,4,104,83>>,
    <<169128,4,64,51>>, <<169500,4,39,31>>, <<170000,4,34,27>>, <<171000,4,19,15>>, <<172000,4,51,40>>,
    <<172750,4,32,25>>, <<172800,4,32,25>>, <<173000,4,41,32>>, <<174000,4,49,38>>, <<174787,4,22,17>>,
    <<175000,4,35,27>>, <<176000,4,30,23>>, <<177000,4,38,29>>, <<178000,4,29,22>>, <<178500,4,37,28>>,
    <<179000,4,53,40>>, <<179500,4,73,55>>, <<180000,4,20,15>>, <<181000,4,55,41>>, <<182000,4,31,23>>,
    <<183000,4,42,31>>, <<184000,4,30,22>>, <<184750,4,26,19>>, <<185000,4,37,27>>, <<186000,4,51,37>>,
    <<187000,4,36,26>>, <<188000,4,32,23>>, <<189000,4,21,15>>, <<190000,4,38,27>>, <<190960,4,41,29>>,
    <<191000,4,41,29>>, <<192000,4,27,19>>, <<192250,4,37,26>>, <<193000,4,20,14>>, <<193250,4,53,37>>,
    <<194000,4,23,16>>, <<194208,4,23,16>>, <<195000,4,26,18>>, <<196000,4,45,31>>, <<197000,4,35,24>>,
    <<197750,4,41,28>>, <<198000,4,22,15>>, <<198500,4,25,17>>, <<199000,4,28,19>>, <<200000,4,37,25>>,
    <<201000,4,61,41>>, <<202000,4,112,75>>, <<202500,4,21,14>>, <<203000,4,146,97>>, <<204000,4,62,41>>,
    <<204750,4,44,29>>, <<205000,4,38,25>>, <<206000,4,29,19>>, <<207000,4,23,15>>, <<207500,4,40,26>>,
    <<208000,4,37,24>>, <<208900,4,48,31>>, <<209000,4,48,31>>, <<209250,4,31,20>>, <<210000,4,28,18>>,
    <<211000,4,25,16>>, <<212000,4,22,14>>, <<213000,4,30,19>>, <<213750,4,38,24>>, <<214000,4,46,29>>,
    <<214750,4,35,22>>, <<215000,4,43,27>>, <<216000,4,24,15>>, <<217000,4,37,23>>, <<218000,4,42,26>>,
    <<218250,4,42,26>>, <<218750,4,34,21>>, <<219000,4,47,29>>, <<220000,4,44,27>>, <<220640,4,49,30>>,
    <<220750,4,36,22>>, <<221000,4,36,22>>, <<222000,4,23,14>>, <<222525,4,28,17>>, <<222750,4,33,20>>,
    <<227000,4,37,22>>, <<230250,4,29,17>>, <<233500,4,38,22>>, <<235000,4,40,23>>, <<238000,4,30,17>>,
    <<241500,2,17,19>>, <<245250,2,20,22>>, <<247750,2,22,24>>, <<253250,2,15,16>>, <<256250,2,18,19>>,
    <<262500,2,31,32>>, <<267250,2,66,67>>, <<268500,2,94,95>>, <<270000,2,14,14>>, <<272500,2,77,76>>,
    <<273750,2,57,56>>, <<280750,2,24,23>>, <<281250,2,23,22>>, <<286000,2,17,16>>, <<291750,2,26,24>>,
    <<296703,2,56,51>>, <<297000,2,22,20>>, <<298000,2,21,19>>>>
Wrpll(clock) ==
    LET table == WrpllTable
        least == {i \in DOMAIN table : clock <= table[i][1]}
    IN  table[IF least = {} THEN Len(table) ELSE Min(least)]
\* lpt_program_iclkip
Iclkip(clock) ==
    LET desired == 172800000 \div clock
    IN  IF clock = 20000 THEN [aux |-> 1, div |-> 65, phase |-> 32]
        ELSE [aux |-> 0, div |-> desired \div 64 - 2, phase |-> desired % 64]

\* hsw_fdi_link_train: nine levels, twice each; with none of them the link stays half up.
FdiLinkTrain(d, c, trains) ==
    LET x == [d EXCEPT !.port["E"] = [clk |-> d.crtc[c].sel, buf |-> trains, tp |-> trains],
                       !.rx = {"pll", "pcdclk"} \cup (IF trains THEN {"enabled"} ELSE {})]
    IN  IF trains THEN x ELSE [x EXCEPT !.slips = @ \cup {"untrained"}]
\* intel_ddi_pre_enable; the training of a DisplayPort leaves the port on (intel_ddi_prepare_link_retrain).
Retrained(d, p) == [d EXCEPT !.port[p].buf = TRUE, !.port[p].tp = TRUE]
PreEnable(d, c, p) ==
    LET x == [Complain(d, d.crtc[c].sel = "none", "no clock") EXCEPT !.port[p].clk = d.crtc[c].sel]
    IN  IF d.enc[p].type \in {"dp", "edp"} THEN Retrained(x, p) ELSE x
\* intel_ddi_enable_pipe_clock and intel_ddi_enable_pipe_func
ModeOf(type) == CASE type = "hdmi" -> "hdmi" [] type = "analog" -> "fdi" [] type \in {"dp", "edp"} -> "dp" [] OTHER -> "hdmi"
PipeFunc(d, c, p) ==
    LET t == Transcoder(d, c) IN
    [Complain(d, d.enc[p].type = "unknown", "type") EXCEPT
        !.trans[t].func = p, !.trans[t].mode = ModeOf(d.enc[p].type),
        !.trans[t].input = IF t = "edp" THEN c ELSE @, !.trans[t].clk = IF t = "edp" THEN @ ELSE p]
\* intel_enable_pipe
EnablePipe(d, c) ==
    [Complain(d, DrivingLpt(d, c) /\ "pll" \notin d.rx, "fdi pll") EXCEPT !.trans[Transcoder(d, c)].pipe = TRUE]
\* lpt_pch_enable and lpt_enable_pch_transcoder
LptPchEnable(d, c) ==
    LET x == Complain(Complain(Complain(d, d.pch, "transcoder"), d.trans[Transcoder(d, c)].func = None, "fdi tx"),
                      "enabled" \notin d.rx, "fdi rx")
    IN  [x EXCEPT !.pch = TRUE]
\* intel_enable_ddi; the DAC of the analog output is intel_crt.c's.
EnableDdi(d, p) == IF d.enc[p].type = "hdmi" THEN [d EXCEPT !.port[p].buf = TRUE] ELSE d
\* The clock an output of this type runs on.
ClockKinds(type) == CASE type = "hdmi" -> {"wrpll1", "wrpll2"} [] type = "analog" -> {"spll"}
                      [] type \in {"dp", "edp"} -> {"lcpll"} [] OTHER -> {}
HaswellCrtcEnable(d, c, trains) ==
    LET p == TheEncoder(d, c)
        w == [Complain(d, ~d.crtc[c].enabled, "enabled") EXCEPT !.crtc[c].active = TRUE,
                 !.slips = IF d.crtc[c].sel \in ClockKinds(d.enc[p].type) THEN @ ELSE @ \cup {"misclocked"}]
        fed == IF p = "E" THEN FdiLinkTrain(w, c, trains) ELSE PreEnable(w, c, p)
        lit == EnablePipe(PipeFunc(fed, c, p), c)
    IN  IF d.crtc[c].active THEN Complain(d, ~d.crtc[c].enabled, "enabled")
        ELSE EnableDdi(IF p = "E" THEN LptPchEnable(lit, c) ELSE lit, p)

DarkPorts == [p \in DdiPorts |-> [clk |-> "none", buf |-> FALSE, tp |-> FALSE]]
DarkTrans == [t \in DdiPipes \cup {"edp"} |-> [func |-> None, mode |-> "hdmi", input |-> None, clk |-> None, pipe |-> FALSE]]
\* intel_ddi_post_disable
PostDisable(d, p) == [d EXCEPT !.port[p] = [clk |-> "none", buf |-> FALSE, tp |-> FALSE]]
\* lpt_disable_pch_transcoder and intel_ddi_fdi_disable
FdiDisable(d) == [PostDisable([d EXCEPT !.pch = FALSE], "E") EXCEPT !.rx = {}]
HaswellCrtcDisable(d, c) ==
    LET t == Transcoder(d, c)
        dark == [d EXCEPT !.trans[t] = DarkTrans[t]]
        off == FoldSet(LAMBDA p, x : IF p = "E" THEN x ELSE PostDisable(x, p), dark, EncodersOf(d, c))
    IN  IF ~d.crtc[c].active THEN d
        ELSE [IF DrivingLpt(d, c) THEN FdiDisable(off) ELSE off EXCEPT !.crtc[c].active = FALSE]
\* haswell_crtc_off.  Mutant: the panel's transcoder is not given up.
CrtcOffKeeping(d, c) == PutCrtcPll(d, c)
HaswellCrtcOff(d, c) == PutCrtcPll([d EXCEPT !.crtc[c].edp = FALSE], c)
\* intel_crtc_update_dpms
UpdateDpms(d, c, trains) ==
    IF \E p \in EncodersOf(d, c) : d.enc[p].on THEN HaswellCrtcEnable(d, c, trains) ELSE HaswellCrtcDisable(d, c)
\* intel_crtc_disable
CrtcDisable(d, c) ==
    LET x == HaswellCrtcOff(HaswellCrtcDisable(Complain(d, ~d.crtc[c].enabled, "enabled"), c), c)
    IN  FoldSet(LAMBDA p, y : [y EXCEPT !.enc[p].on = FALSE, !.enc[p].lit = {}],
                Complain(x, x.trans[Transcoder(x, c)].pipe, "pipe"), EncodersOf(d, c))
------------------------------------------------------------------------------
(* Mode sets.  A digital port has a connector of each kind; a configuration *)
(* is staged for all ports (links: the connectors in use, crtc) and then    *)
(* committed.  Clients use both connectors of the ports in Dual only.       *)
Conns(p) == CASE p = "A" -> {"panel"} [] p = "E" -> {"vga"} [] p \in Dual -> {"hdmi", "dp"} [] OTHER -> {"hdmi"}
Links(d) == [p \in DdiPorts |-> [crtc |-> d.enc[p].crtc, links |-> d.enc[p].links]]
\* intel_modeset_stage_output_state for connector k of port p, or for none: of two connectors
\* of a port the DisplayPort, which is later in the list, has the last word.
Staged(d, c, port, k) == [p \in (DdiPorts \cap {port}) \cup {q \in DdiPorts : d.enc[q].crtc = c} |->
    LET old == d.enc[p]
        links == (IF old.crtc = c THEN {} ELSE old.links) \cup (IF p = port THEN {k} ELSE {})
        first == p = port /\ (k = "dp" \/ "dp" \notin links)
    IN  [links |-> links, crtc |-> IF links = {} THEN None ELSE IF first THEN c ELSE old.crtc]] @@ Links(d)
\* intel_modeset_affected_pipes
Unused(d, new) == {c \in DdiPipes : d.crtc[c].enabled /\ \A p \in DdiPorts : new[p].crtc # c}
Prepared(d, new, c) ==
    /\ c \notin Unused(d, new)
    /\ d.crtc[c].enabled \/ \E p \in DdiPorts : c \in {d.enc[p].crtc, new[p].crtc} /\ new[p] # Links(d)[p]
\* intel_modeset_update_state
UpdateState(d, new, prep, c) ==
    [d EXCEPT !.enc = [p \in {q \in DdiPorts : c \in {@[q].crtc, new[q].crtc} \/ new[q] # Links(d)[q]} |->
            LET lights == prep /\ new[p].crtc = c
                was == d.enc[p]
            IN  [was EXCEPT !.crtc = new[p].crtc, !.links = new[p].links,
                            !.on = lights \/ (@ /\ ~(prep /\ was.crtc = c)),
                            !.lit = IF lights THEN new[p].links ELSE @ \cap new[p].links]] @@ @,
        !.crtc = [b \in DdiPipes |-> [@[b] EXCEPT !.enabled = \E p \in DdiPorts : new[p].crtc = b]] @@ @]
\* haswell_crtc_mode_set
HaswellModeSet(d, c, fail) ==
    LET panel == \E p \in EncodersOf(d, c) : d.enc[p].type = "edp"
        x == [Complain(d, Cardinality(EncodersOf(d, c)) # 1, "encoders") EXCEPT !.crtc[c].edp = panel]
        r == PllModeSet(Complain(x, x.trans[Transcoder(x, c)].pipe, "pipe"), c)
    IN  [r EXCEPT !.ok = @ /\ fail # "pin"]
\* intel_set_mode
SetMode(d, c, new, fail, trains) ==
    LET off == FoldSet(LAMBDA b, x : CrtcDisable(x, b), d, Unused(d, new))
        prep == Prepared(off, new, c) /\ c \notin Unused(d, new)
        dark == IF off.crtc[c].enabled THEN HaswellCrtcDisable(off, c) ELSE off
        m == HaswellModeSet(UpdateState(dark, new, TRUE, c), c, fail)
    IN  IF ~prep THEN [d |-> UpdateState(off, new, FALSE, c), ok |-> TRUE]
        ELSE IF fail = "fixup" THEN [d |-> off, ok |-> FALSE]
        ELSE [m EXCEPT !.d = IF m.ok THEN HaswellCrtcEnable(@, c, trains) ELSE @]
\* intel_crtc_set_config: with another mode, so that nothing is skipped; a failure is rolled
\* back for this crtc only.
SetConfig(c, p, k, fail, trains) == ddi.up /\ \E new \in {Staged(ddi, c, p, k)} :
    \E r \in {SetMode(ddi, c, new, fail, trains)} :
    \E back \in {IF r.ok THEN r ELSE SetMode(r.d, c, Links(ddi), "no", trains)} :
        LET odd == IF new[p].crtc # c \/ Cardinality(new[p].links) = 2 THEN {"crossed"} ELSE {}
            lost == IF Unused(ddi, new) # {} \/ ~back.ok THEN {"unrestored"} ELSE {}
        IN  ddi' = IF r.ok THEN [r.d EXCEPT !.slips = @ \cup odd]
                   ELSE [Complain(back.d, ~back.ok, "restore") EXCEPT !.slips = @ \cup lost \cup odd]
SetOff(c) ==
    /\ ddi.up /\ ddi.crtc[c].enabled
    /\ ddi' = SetMode(ddi, c, Staged(ddi, c, "none", "none"), "no", TRUE).d
\* intel_connector_dpms and intel_crt_dpms: the encoder is the connector's, in use or not.
Dpms(p, k, on, trains) ==
    LET e == ddi.enc[p]
        x == [ddi EXCEPT !.enc[p].lit = IF on THEN @ \cup ({k} \cap e.links) ELSE @ \ {k},
                         !.slips = @ \cup (IF e.crtc # None /\ k \notin e.links THEN {"unlinked"} ELSE {})]
    IN  /\ ddi.up /\ (k \in e.links => on = (k \notin e.lit))
        /\ ddi' = IF e.crtc = None THEN Complain(x, e.on, "dpms")
                  ELSE UpdateDpms([x EXCEPT !.enc[p].on = on], e.crtc, trains)
\* intel_hdmi_detect, intel_dp_detect: the port is what was found last, running or not.
Detect(p, type) ==
    /\ ddi.up /\ p \in Digital /\ type \in Conns(p) /\ type # ddi.enc[p].type
    /\ ddi' = [ddi EXCEPT !.enc[p].type = type]
\* intel_ddi_hot_plug: the link may have to be trained again.
HotPlug(p) ==
    /\ ddi.up /\ ddi.enc[p].type \in {"dp", "edp"} /\ ddi.enc[p].on
    /\ ddi' = IF ddi.enc[p].crtc = None THEN Complain(ddi, TRUE, "hotplug") ELSE Retrained(ddi, p)
------------------------------------------------------------------------------
\* Suspend: intel_modeset_disable.  The hardware forgets.
Suspend ==
    /\ ddi.up
    /\ LET x == FoldSet(LAMBDA c, d : CrtcDisable(d, c), ddi, {c \in DdiPipes : ddi.crtc[c].enabled})
       IN  ddi' = [x EXCEPT !.up = FALSE, !.run = [k \in Counted |-> FALSE], !.port = DarkPorts, !.trans = DarkTrans,
                            !.rx = {}, !.pch = FALSE]
\* The firmware may have lit a pipe, and then left its port on or off (external).
Lit(d, c, p, mode, buf) ==
    LET clock == CASE p = "E" -> "spll" [] mode = "dp" -> "lcpll" [] OTHER -> "wrpll1"
        t == IF p = "A" THEN "edp" ELSE c
        x == [d EXCEPT !.trans[t] = [func |-> p, mode |-> mode, input |-> IF p = "A" THEN c ELSE None,
                                     clk |-> IF p = "A" THEN None ELSE p, pipe |-> TRUE],
                       !.port[p] = [clk |-> clock, buf |-> buf, tp |-> buf /\ mode # "hdmi"],
                       !.run = [k \in Counted |-> k = clock]]
    IN  IF p = "E" THEN [x EXCEPT !.pch = TRUE, !.rx = {"pll", "pcdclk", "enabled"}] ELSE x
\* intel_ddi_connector_get_hw_state and intel_ddi_get_hw_state
HwPipe(d, p) == IF p = "A" THEN d.trans["edp"].input ELSE CHOOSE t \in DdiPipes : d.trans[t].func = p
HwState(d, p) == d.port[p].buf
HwConns(d, p) ==
    LET mode == d.trans[IF p = "A" THEN "edp" ELSE HwPipe(d, p)].mode
    IN  IF ~HwState(d, p) THEN {} ELSE CASE mode = "hdmi" -> {"hdmi"} [] mode = "dp" -> {"panel", "dp"} [] OTHER -> {"vga"}
\* intel_modeset_setup_hw_state with intel_ddi_setup_hw_pll_state and intel_ddi_get_crtc_pll
ReadOut(d) ==
    LET fed(c) == IF d.trans["edp"].func # None /\ d.trans["edp"].input = c THEN "edp" ELSE c
        panel(c) == d.crtc[c].edp \/ fed(c) = "edp"
        lit(c) == d.trans[IF panel(c) THEN "edp" ELSE c].pipe
        sel(c) == IF lit(c) THEN d.port[d.trans[IF panel(c) THEN "edp" ELSE c].func].clk ELSE d.crtc[c].sel
        conns(p) == HwConns(d, p) \cap Conns(p)
    IN  [d EXCEPT
            !.crtc = [c \in DdiPipes |-> [edp |-> panel(c), active |-> lit(c), enabled |-> lit(c), sel |-> sel(c)]] @@ @,
            !.ref = [k \in Counted |-> @[k] + Cardinality({c \in DdiPipes : lit(c) /\ sel(c) = k})] @@ @,
            !.enc = [p \in DdiPorts |-> [@[p] EXCEPT !.crtc = IF HwState(d, p) THEN HwPipe(d, p) ELSE None,
                                            !.on = conns(p) # {}, !.links = conns(p), !.lit = conns(p)]] @@ @]
\* intel_sanitize_crtc: what lights nothing is disabled, and keeps its clock.
SanitizeCrtc(d, c) ==
    LET x == UpdateDpms(d, c, TRUE)
        held == IF x.crtc[c].sel \in Counted THEN {"leaked"} ELSE IF x.crtc[c].edp THEN {"claimed"} ELSE {}
    IN  IF x.crtc[c].active = x.crtc[c].enabled THEN x
        ELSE [x EXCEPT !.crtc[c].enabled = x.crtc[c].active, !.slips = @ \cup held,
                       !.enc = [p \in EncodersOf(x, c) |-> [@[p] EXCEPT !.crtc = None]] @@ @]
SetupHwState(d) == FoldSet(LAMBDA c, x : SanitizeCrtc(x, c), [ReadOut(d) EXCEPT !.up = TRUE], DdiPipes)
Resume == ~ddi.up /\ ddi' = SetupHwState(ddi)
ResumeLit(c, p, mode, buf) ==
    /\ ~ddi.up /\ (mode = "fdi" <=> p = "E") /\ (mode = "dp" <=> p = "A" \/ (p \in Dual /\ mode = "dp"))
    /\ ddi' = SetupHwState(Lit(ddi, c, p, mode, buf))

DdiReset ==
    [crtc |-> [c \in DdiPipes |-> [enabled |-> FALSE, active |-> FALSE, sel |-> "lcpll", edp |-> FALSE]],
     enc |-> [p \in DdiPorts |-> [crtc |-> None, links |-> {}, lit |-> {}, on |-> FALSE,
                 type |-> CASE p = "A" -> "edp" [] p = "E" -> "analog" [] p \in Dual -> "unknown" [] OTHER -> "hdmi"]],
     ref |-> [k \in Counted |-> 0], run |-> [k \in Counted |-> FALSE], port |-> DarkPorts, trans |-> DarkTrans,
     rx |-> {}, pch |-> FALSE, up |-> FALSE, warned |-> {}, slips |-> {}]
DdiInit == ddi = DdiReset
\* A behaviour ends with its first slip.
DdiNext == ddi.slips = {} /\
  ( \/ \E c \in DdiPipes, p \in DdiPorts : \E k \in Conns(p), fail \in {"no", "fixup", "pin"}, trains \in BOOLEAN :
          (trains \/ p = "E") /\ SetConfig(c, p, k, fail, trains)
    \/ \E c \in DdiPipes : SetOff(c)
    \/ \E p \in DdiPorts : \E k \in Conns(p), on, trains \in BOOLEAN : (trains \/ (p = "E" /\ on)) /\ Dpms(p, k, on, trains)
    \/ \E p \in DdiPorts : HotPlug(p) \/ \E type \in DdiTypes : Detect(p, type)
    \/ Suspend \/ Resume
    \/ \E c \in DdiPipes, p \in DdiPorts, mode \in {"hdmi", "dp", "fdi"}, buf \in BOOLEAN : ResumeLit(c, p, mode, buf) )
------------------------------------------------------------------------------
\* A counted PLL has one user at most, is counted for it and runs for it; only a pipe that the
\* read-out disabled keeps one without need.
Users(k) == {c \in DdiPipes : ddi.crtc[c].sel = k}
PllsExact == \A k \in Counted :
    /\ ddi.ref[k] = Cardinality(Users(k)) /\ ddi.ref[k] <= 1
    /\ ddi.up => (ddi.run[k] <=> ddi.ref[k] > 0) /\ \A c \in Users(k) : ddi.crtc[c].enabled
\* a pipe that runs feeds one port, through its transcoder, with a clock that runs
PipesFeed == \A c \in DdiPipes : ddi.crtc[c].active =>
    \E p \in DdiPorts :
        LET t == Transcoder(ddi, c)
            clock == ddi.crtc[c].sel
        IN  /\ EncodersOf(ddi, c) = {p} /\ ddi.enc[p].on /\ ddi.port[p].buf
            /\ ddi.trans[t].pipe /\ ddi.trans[t].func = p
            /\ IF t = "edp" THEN ddi.trans[t].input = c ELSE ddi.trans[t].clk = p
            /\ ddi.port[p].clk = clock /\ clock # "none" /\ (clock \in Counted => ddi.run[clock])
\* what does not run is dark, and two pipes never run through one transcoder
RestDark ==
    /\ \A t \in DdiPipes \cup {"edp"} : ddi.trans[t].pipe \/ ddi.trans[t].func # None =>
          \E c \in DdiPipes : ddi.crtc[c].active /\ Transcoder(ddi, c) = t
    /\ \A p \in DdiPorts : ddi.port[p].buf \/ ddi.port[p].tp =>
          ddi.enc[p].crtc # None /\ ddi.crtc[ddi.enc[p].crtc].active
    /\ ddi.pch \/ ddi.rx # {} => \E c \in DdiPipes : ddi.crtc[c].active /\ DrivingLpt(ddi, c)
    /\ \A b, c \in DdiPipes : b # c /\ ddi.crtc[b].active /\ ddi.crtc[c].active => Transcoder(ddi, b) # Transcoder(ddi, c)
    /\ Cardinality({c \in DdiPipes : ddi.crtc[c].edp}) <= 1
\* what intel_modeset_check_state compares: the connectors, the encoders, the crtcs and the hardware
StateAgrees == \A p \in DdiPorts :
    LET e == ddi.enc[p] IN
    /\ ddi.port[p].buf = e.on /\ (e.on => HwPipe(ddi, p) = e.crtc)
    /\ e.on = (e.crtc # None /\ ddi.crtc[e.crtc].active) /\ (e.crtc # None => ddi.crtc[e.crtc].enabled)
    /\ e.on = (e.links \cap e.lit # {}) /\ (e.crtc # None) = (e.links # {})
\* each row of the table gives its clock within half a percent, the rows are sorted, and the
\* search finds the row above a clock
TableHolds == LET table == WrpllTable IN \A i \in DOMAIN table :
    LET row == table[i]
        made == 2700000 * row[3]
        asked == row[1] * row[4] * row[2] * 5
    IN  made \in asked - asked \div 200 .. asked + asked \div 200 /\ (i > 1 => table[i - 1][1] < row[1])
SearchHolds == \A clock \in DdiClocks : Wrpll(clock)[1] >= clock \/ Wrpll(clock) = Last(WrpllTable)
\* the divisors of the modes of intel_crt_mode_valid fit their fields
IclkipFits == \A clock \in DdiClocks : clock = 20000 \/ clock >= 25000 => Iclkip(clock).div \in 0 .. 127
\* Until something goes wrong on the way the counts, the pipes, the ports and the bookkeeping
\* agree and no WARN fires; the roll-back loses other pipes, but no PLL.
DdiSafe ==
    /\ PllsExact \/ "leaked" \in ddi.slips
    /\ ddi.up /\ ddi.slips = {} => PipesFeed /\ RestDark /\ StateAgrees /\ ddi.warned = {}
    /\ ddi = DdiReset => TableHolds /\ SearchHolds /\ IclkipFits
DdiTypeOK ==
    /\ ddi.crtc \in [DdiPipes -> [enabled : BOOLEAN, active : BOOLEAN, edp : BOOLEAN,
                                  sel : Counted \cup {"none", "lcpll"}]]
    /\ ddi.ref \in [Counted -> 0 .. 3] /\ ddi.slips \subseteq DdiSlips
    /\ \A p \in DdiPorts : ddi.enc[p].crtc \in DdiPipes \cup {None} /\ ddi.enc[p].type \in DdiTypes
=============================================================================
