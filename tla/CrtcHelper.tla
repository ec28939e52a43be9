----------------------------- MODULE CrtcHelper -----------------------------
(***************************************************************************)
(* The mode setting helpers (drm_crtc_helper.c) over a driver's hardware:  *)
(* connectors are linked to encoders and those to crtcs, `hw` is what the  *)
(* driver's callbacks have been told.  An operation is one step, under     *)
(* mode_config.mutex; a mode_fixup or mode_set may fail.                   *)
(***************************************************************************)
EXTENDS Integers, Sequences, FiniteSetsExt

CONSTANTS HelperConns, HelperEncs, HelperCrtcs, HelperModes,
          BestEnc, PossibleOf, None

VARIABLES link,       \* connector -> encoder
          dpms,       \* connector -> 0 (on) .. 3 (off)
          feed,       \* encoder -> crtc
          crtcs,      \* crtc -> [on, mode]
          hw,         \* encoder or crtc -> the mode it runs
          blamed      \* what went wrong, which stops the model
helperVars == <<link, dpms, feed, crtcs, hw, blamed>>

HelperAssumption == BestEnc \in [HelperConns -> HelperEncs] /\ PossibleOf \in [HelperEncs -> SUBSET HelperCrtcs]

Nodes == HelperEncs \cup HelperCrtcs
HelperInit ==
    /\ link = [k \in HelperConns |-> None] /\ dpms = [k \in HelperConns |-> 3]
    /\ feed = [e \in HelperEncs |-> None] /\ crtcs = [c \in HelperCrtcs |-> [on |-> FALSE, mode |-> None]]
    /\ hw = [n \in Nodes |-> None] /\ blamed = {}

EncInUse(l, e) == \E k \in HelperConns : l[k] = e
CrtcInUse(l, f, c) == \E e \in HelperEncs : f[e] = c /\ EncInUse(l, e)
Fed(f, c) == {e \in HelperEncs : f[e] = c}
\* A state of the links and the hardware, which the helpers transform.
Links == [link |-> link, dpms |-> dpms, feed |-> feed, crtcs |-> crtcs, hw |-> hw]
Becomes(s) ==
    /\ link' = s.link /\ dpms' = s.dpms /\ feed' = s.feed /\ crtcs' = s.crtcs /\ hw' = s.hw

\* drm_helper_disable_unused_functions, with `lost` the connectors that the
\* last probe found disconnected
Linked(s, lost) == [k \in HelperConns |-> IF k \in lost THEN None ELSE s.link[k]]
DisableUnusedEncs(s, lost) ==    \* (mutant: a crtc without encoders stays on)
    LET link1 == Linked(s, lost)
        feed1 == [e \in HelperEncs |-> IF EncInUse(link1, e) THEN s.feed[e] ELSE None] IN
    [s EXCEPT !.link = link1, !.feed = feed1,
              !.hw = [n \in Nodes |-> IF n \in HelperEncs /\ ~EncInUse(link1, n) THEN None ELSE s.hw[n]]]
DisableUnused(s, lost) ==
    LET link1 == Linked(s, lost)
        feed1 == [e \in HelperEncs |-> IF EncInUse(link1, e) THEN s.feed[e] ELSE None]
        used(c) == CrtcInUse(link1, feed1, c)
    IN
    [s EXCEPT !.link = link1, !.feed = feed1,
              !.crtcs = [c \in HelperCrtcs |-> [@[c] EXCEPT !.on = used(c)]],
              !.hw = [n \in Nodes |-> IF (n \in HelperEncs /\ EncInUse(link1, n)) \/ (n \in HelperCrtcs /\ used(n))
                                      THEN s.hw[n] ELSE None]]
\* drm_crtc_helper_set_mode, failing in a mode_fixup (before anything has been
\* prepared) or in the crtc's mode_set.
SetMode(s, c, mode, fail) ==
    LET off == Fed(s.feed, c) \cup {e \in HelperEncs : s.feed[e] = None} \cup {c}
        prepared == [n \in Nodes |-> IF n \in off THEN None ELSE s.hw[n]]
        on == CrtcInUse(s.link, s.feed, c)
    IN
    IF ~on THEN [s EXCEPT !.crtcs[c].on = FALSE]
    ELSE IF fail = "fixup" THEN [s EXCEPT !.crtcs[c].on = TRUE]
    ELSE IF fail = "mode_set" THEN [s EXCEPT !.crtcs[c].on = TRUE, !.hw = prepared]
    ELSE [s EXCEPT !.crtcs[c] = [on |-> TRUE, mode |-> mode],
                   !.hw = [n \in Nodes |-> IF n \in Fed(s.feed, c) \cup {c} THEN mode ELSE prepared[n]]]
\* The least dpms of the connectors (drm_helper_choose_encoder_dpms and
\* drm_helper_choose_crtc_dpms)
Least(s, K) == Min({s.dpms[k] : k \in K} \cup {3})
EncDpms(s, e) == Least(s, {k \in HelperConns : s.link[k] = e})
CrtcDpms(s, c) == Least(s, {k \in HelperConns : s.link[k] # None /\ s.feed[s.link[k]] = c})
\* The hardware of a crtc and of an encoder after their dpms callbacks
Power(s, n, level) == [s EXCEPT !.hw[n] = IF level = 0 THEN (IF n \in HelperCrtcs THEN s.crtcs[n].mode
                                                             ELSE s.crtcs[s.feed[n]].mode) ELSE None]
\* drm_helper_connector_dpms
SetDpms(s, k, level) ==
    LET e == s.link[k]
        c == IF e = None THEN None ELSE s.feed[e]
        t == [s EXCEPT !.dpms[k] = level]
        u == IF c = None THEN t ELSE Power(t, c, CrtcDpms(t, c))
    IN  IF level = s.dpms[k] THEN s ELSE IF e = None \/ c = None THEN t ELSE Power(u, e, EncDpms(u, e))
------------------------------------------------------------------------------
\* drm_crtc_helper_disable: set_config without a framebuffer
HelperDisable(c, lost) ==
    /\ Becomes(DisableUnused([Links EXCEPT !.link =
                  [k \in HelperConns |-> IF link[k] # None /\ feed[link[k]] = c THEN None ELSE link[k]]], lost))
    /\ UNCHANGED blamed
\* The links drm_crtc_helper_set_config asks for: the connectors K on c.
Relinked(c, K) ==
    LET link1 == [k \in HelperConns |-> IF k \in K THEN BestEnc[k] ELSE link[k]]
        feed0 == [e \in HelperEncs |-> IF \E k \in K : link[k] = e /\ link1[k] # e THEN None ELSE feed[e]]
        kept == [e \in HelperEncs |-> IF feed0[e] = c THEN None ELSE feed0[e]]
    IN  [Links EXCEPT !.link = link1,
                      !.feed = [e \in HelperEncs |-> IF \E k \in K : link1[k] = e THEN c
                                                     ELSE IF EncInUse(link1, e) THEN kept[e] ELSE feed0[e]]]
Routable(s, K) == \A k \in K : s.feed[s.link[k]] \in PossibleOf[s.link[k]]
SwitchedOn(s, K) == FoldSet(LAMBDA k, t : SetDpms(t, k, 0), s, K)
HelperSetConfig(c, K, mode, lost) ==
    LET s == Relinked(c, K)
        changed == s # Links \/ mode # crtcs[c].mode \/ ~crtcs[c].on
    IN
    /\ K # {} /\ Routable(s, K)
    /\ IF changed THEN Becomes(DisableUnused(SwitchedOn(SetMode(s, c, mode, "none"), K), lost))
       ELSE UNCHANGED <<link, dpms, feed, crtcs, hw>>
    /\ UNCHANGED blamed
\* A failure restores the links and sets the old mode again, of this crtc only,
\* which may fail as well.
HelperConfigFails(c, K, mode, fail, again) ==
    LET s == Relinked(c, K)
        failed == IF fail = "route" THEN s ELSE SetMode(s, c, mode, fail)
        back == [Links EXCEPT !.hw = failed.hw]
        end == IF fail = "route" /\ s = Links THEN back ELSE SetMode(back, c, crtcs[c].mode, again)
        others == \E e \in HelperEncs : hw[e] # end.hw[e] /\ feed[e] # c
        dark == \E n \in Fed(feed, c) \cup {c} : crtcs[c].on /\ hw[n] # None /\ end.hw[n] = None
        lit == \E n \in Fed(feed, c) \cup {c} : hw[n] = None /\ end.hw[n] # None
    IN
    /\ K # {} /\ (fail = "route") = ~Routable(s, K) /\ (CrtcInUse(s.link, s.feed, c) \/ fail = "route")
    /\ Becomes(end)
    /\ blamed' = (IF others THEN {"stolen"} ELSE {}) \cup (IF dark THEN {"dark"} ELSE {}) \cup (IF lit THEN {"lit"} ELSE {})
HelperDpms(k, level) == Becomes(SetDpms(Links, k, level)) /\ UNCHANGED blamed
\* drm_helper_resume_force_mode, after the hardware has lost everything: the
\* modes are set again, then the dpms levels applied.
Resumed(s, c) ==
    LET t == SetMode(s, c, s.crtcs[c].mode, "none") IN
    IF ~s.crtcs[c].on THEN s
    ELSE IF CrtcDpms(t, c) = 0 THEN t
    ELSE Power(FoldSet(LAMBDA e, u : Power(u, e, EncDpms(u, e)), t, Fed(t.feed, c)), c, CrtcDpms(t, c))
ResumeForce(lost) ==
    /\ Becomes(DisableUnused(FoldSet(LAMBDA c, s : Resumed(s, c), [Links EXCEPT !.hw = [n \in Nodes |-> None]], HelperCrtcs), lost))
    /\ blamed' = IF \E e \in HelperEncs : feed[e] # None /\ hw'[e] # None /\ EncDpms(Links, e) # 0
                 THEN {"awake"} ELSE {}

HelperNext ==
    /\ blamed = {}
    /\ \/ \E c \in HelperCrtcs, lost \in SUBSET HelperConns : HelperDisable(c, lost)
       \/ \E c \in HelperCrtcs, K \in SUBSET HelperConns, mode \in HelperModes :
             \/ \E lost \in SUBSET HelperConns : HelperSetConfig(c, K, mode, lost)
             \/ \E fail \in {"fixup", "mode_set", "route"}, again \in {"none", "mode_set"} : HelperConfigFails(c, K, mode, fail, again)
       \/ \E k \in HelperConns, level \in {0, 1, 3} : HelperDpms(k, level)
       \/ \E lost \in SUBSET HelperConns : ResumeForce(lost)
HelperSpec == HelperInit /\ [][HelperNext]_helperVars
------------------------------------------------------------------------------
HelperTypeOK ==
    /\ link \in [HelperConns -> HelperEncs \cup {None}] /\ dpms \in [HelperConns -> 0..3]
    /\ feed \in [HelperEncs -> HelperCrtcs \cup {None}]
    /\ crtcs \in [HelperCrtcs -> [on : BOOLEAN, mode : HelperModes \cup {None}]]
    /\ hw \in [Nodes -> HelperModes \cup {None}]

\* A crtc and an encoder run the mode of their crtc when a connector they
\* serve is on, and nothing when they serve none, whatever the order of
\* configurations, levels, resumes and failures that are undone.  (One whose
\* connector that was on has moved away runs on for one in standby.)
HwFollows ==
    /\ \A c \in HelperCrtcs :
          /\ crtcs[c].on = CrtcInUse(link, feed, c)
          /\ hw[c] \in {crtcs[c].mode, None} /\ (~crtcs[c].on => hw[c] = None)
          /\ (crtcs[c].on /\ CrtcDpms(Links, c) = 0) => hw[c] = crtcs[c].mode
    /\ \A e \in HelperEncs :
          IF feed[e] = None \/ ~EncInUse(link, e) THEN hw[e] = None
          ELSE hw[e] \in {crtcs[feed[e]].mode, None} /\ (EncDpms(Links, e) = 0 => hw[e] = crtcs[feed[e]].mode)
HelperSafe == blamed = {} => HwFollows
=============================================================================
