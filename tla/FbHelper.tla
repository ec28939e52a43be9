------------------------------ MODULE FbHelper ------------------------------
(***************************************************************************)
(* The console on the mode setting core (drm_fb_helper.c, intel_fb.c) and  *)
(* the detection that feeds it (output_poll_execute, the hotplug work).    *)
(* `plug` is what is plugged in, `status` what the driver believes.        *)
(***************************************************************************)
EXTENDS Integers, Sequences, FiniteSetsExt, TLC

CONSTANTS FbConns,      \* a sequence: the order of fb_helper->connector_info
          FbOrder,      \* the crtcs, in the order of fb_helper->crtc_info
          FbReach,      \* connector -> crtcs its encoder can use
          PollOf,       \* connector -> "hpd" | "poll" | "connect" | "never"
          Prefers,      \* the connectors with a preferred mode
          None

VARIABLES plug, status, modeset,  \* crtc -> connectors of its mode_set
          shown,        \* crtc -> [fb, conns]
          stage,        \* "boot", then "up", "asleep" or "down"
          client,       \* is a file open
          delayed, due, hpd, task, worker, missed
fbVars == <<plug, status, modeset, shown, stage, client, delayed, due, hpd, task, worker, missed>>

FbConnSet == {FbConns[i] : i \in DOMAIN FbConns}
FbCrtcs == {FbOrder[i] : i \in DOMAIN FbOrder}
FbAssumption == FbReach \in [FbConnSet -> SUBSET FbCrtcs] /\ PollOf \in [FbConnSet -> {"hpd", "poll", "connect", "never"}]

BlankCrtc == [fb |-> None, conns |-> {}]
FbInit ==
    /\ plug \in [FbConnSet -> BOOLEAN] /\ status = [k \in FbConnSet |-> FALSE]
    /\ modeset = [c \in FbCrtcs |-> {}] /\ shown = [c \in FbCrtcs |-> BlankCrtc]
    /\ stage = "boot" /\ client = FALSE /\ delayed = FALSE
    /\ due = FALSE /\ hpd = FALSE /\ task = FALSE /\ worker = [w \in {"poll", "hpd"} |-> "idle"] /\ missed = {}
------------------------------------------------------------------------------
\* drm_pick_crtcs: connector n on none, or on the crtc that gives the best sum,
\* a later choice only when it is better.
Score(st, k) == 1 + (IF st[k] THEN 1 ELSE 0) + (IF k \in Prefers THEN 1 ELSE 0)
BetterOrLast(best, s) == IF s.score # best.score THEN s ELSE best   \* (mutant)
Better(best, s) == IF s.score > best.score THEN s ELSE best
RECURSIVE Pick(_, _, _)
Pick(st, n, taken) ==    \* taken: connector -> crtc, of the connectors before n
    IF n > Len(FbConns) THEN [score |-> 0, on |-> taken]
    ELSE LET k == FbConns[n]
             skip == Pick(st, n + 1, taken @@ (k :> None))
             usable == {c \in FbReach[k] : \A i \in 1..(n - 1) : taken[FbConns[i]] # c}
             with(c) == LET s == Pick(st, n + 1, taken @@ (k :> c)) IN [s EXCEPT !.score = @ + Score(st, k)]
         IN  IF ~st[k] THEN skip ELSE FoldSet(LAMBDA c, best : Better(best, with(c)), skip, usable)
\* drm_setup_crtcs, the connectors that are connected being enabled
Setup(st) ==
    LET on == Pick(st, 1, <<>>).on IN
    [c \in FbCrtcs |-> {k \in FbConnSet : on[k] = c}]
\* drm_fb_helper_restore_fbdev_mode: a crtc whose mode_set has no connectors is
\* left alone; one that takes connectors may leave another without.  A
\* set_config may fail (`unset`), which changes nothing.
Restored(sh, unset) ==
    [c \in FbCrtcs |->
        LET rest == sh[c].conns \ UNION {modeset[d] : d \in FbCrtcs \ (unset \cup {c})} IN
        IF c \notin unset /\ modeset[c] # {} THEN [fb |-> "console", conns |-> modeset[c]]
        ELSE IF rest = {} THEN BlankCrtc ELSE [sh[c] EXCEPT !.conns = rest]]
\* "unset": the last restoration did not reach every crtc.
Tried(unset) == (missed \ {"unset"}) \cup {"unset" : c \in unset}
------------------------------------------------------------------------------
\* intel_fbdev_init probes, chooses, makes the framebuffer and the device for
\* it; the console that attaches to it enters its mode in a task of its own.
InitialConfig ==
    /\ stage = "boot"
    /\ status' = plug /\ modeset' = Setup(plug) /\ task' = TRUE /\ stage' = "early"
    /\ UNCHANGED <<plug, shown, client, delayed, due, hpd, worker, missed>>
\* drm_kms_helper_poll_init: from here on the helpers notice changes.
Polled == \E k \in FbConnSet : PollOf[k] \in {"poll", "connect"}
PollInit ==
    /\ stage = "early" /\ stage' = "up" /\ due' = Polled
    /\ UNCHANGED <<plug, status, modeset, shown, client, delayed, hpd, task, worker, missed>>
\* vt_restore_fbdev_mode
ModeTask(unset) ==
    /\ task /\ task' = FALSE /\ stage \in {"early", "up"}
    /\ shown' = Restored(shown, unset)
    /\ missed' = Tried(unset)
    /\ UNCHANGED <<plug, status, modeset, stage, client, delayed, due, hpd, worker>>
Switch ==
    /\ stage = "up" /\ ~client /\ ~task /\ task' = TRUE
    /\ UNCHANGED <<plug, status, modeset, shown, stage, client, delayed, due, hpd, worker, missed>>

Change(k) ==
    /\ stage # "boot"
    /\ plug' = [plug EXCEPT ![k] = ~@]
    /\ hpd' = (hpd \/ (PollOf[k] = "hpd" /\ stage \in {"early", "up"}))
    /\ missed' = IF PollOf[k] = "hpd" /\ stage = "asleep" THEN missed \cup {"asleep"} ELSE missed
    /\ UNCHANGED <<status, modeset, shown, stage, client, delayed, due, task, worker>>
\* i915_hotplug_work_func and drm_helper_hpd_irq_event, which does nothing
\* before drm_kms_helper_poll_init.
Detected(K) == [k \in FbConnSet |-> IF k \in K THEN plug[k] ELSE status[k]]
HotplugWork ==
    /\ hpd /\ worker["hpd"] = "idle" /\ hpd' = FALSE
    /\ IF stage = "up" THEN /\ status' = Detected({k \in FbConnSet : PollOf[k] = "hpd"})
                            /\ worker' = [worker EXCEPT !["hpd"] = IF status' # status THEN "notify" ELSE "idle"]
                            /\ UNCHANGED missed
       ELSE missed' = missed \cup {"early"} /\ UNCHANGED <<status, worker>>
    /\ UNCHANGED <<plug, modeset, shown, stage, client, delayed, due, task>>
\* output_poll_execute, which leaves a connected connector alone unless it has
\* to watch for its going away.
PollWork ==
    /\ due /\ worker["poll"] = "idle" /\ due' = FALSE
    /\ status' = Detected({k \in FbConnSet : PollOf[k] = "poll" \/ (PollOf[k] = "connect" /\ ~status[k])})
    /\ worker' = [worker EXCEPT !["poll"] = IF status' # status THEN "notify" ELSE "again"]
    /\ UNCHANGED <<plug, modeset, shown, stage, client, delayed, hpd, task, missed>>
PollAgain ==
    /\ worker["poll"] = "again" /\ worker' = [worker EXCEPT !["poll"] = "idle"]
    /\ due' = TRUE
    /\ UNCHANGED <<plug, status, modeset, shown, stage, client, delayed, hpd, task, missed>>
\* drm_fb_helper_hotplug_event: while something else than the console is shown
\* it is put off; else every connector is probed and the crtcs chosen anew,
After(w) == IF w = "poll" THEN "again" ELSE "idle"
HotplugEvent(w) ==
    LET foreign == \E c \in FbCrtcs : shown[c].fb \notin {None, "console"} IN
    /\ worker[w] = "notify"
    /\ delayed' = (delayed \/ foreign)
    /\ status' = IF foreign THEN status ELSE plug
    /\ modeset' = IF foreign THEN modeset ELSE Setup(plug)
    /\ worker' = [worker EXCEPT ![w] = IF foreign THEN After(w) ELSE "probe"]
    /\ UNCHANGED <<plug, shown, stage, client, due, hpd, task, missed>>
\* then, with the mutex dropped and taken again, set (single_fb_probe), up to the
\* first failure, and an event that was put off is dealt with.
SingleFbProbe(w, done) ==
    LET unset == {FbOrder[i] : i \in done + 1..Len(FbOrder)} IN
    /\ worker[w] = "probe"
    /\ shown' = Restored(shown, unset)
    /\ missed' = Tried(unset) \cup {"overridden" : c \in {d \in FbCrtcs : shown[d].fb = "user" /\ shown'[d] # shown[d]}}
    /\ delayed' = (delayed /\ unset # {})
    /\ worker' = [worker EXCEPT ![w] = IF delayed /\ unset = {} THEN "notify" ELSE After(w)]
    /\ UNCHANGED <<plug, status, modeset, stage, client, due, hpd, task>>
------------------------------------------------------------------------------
\* A client opens, probes connectors, shows its framebuffer on a crtc; when it
\* closes its framebuffers go and the console comes back (intel_fb_restore_mode).
Open ==
    /\ stage = "up" /\ ~client /\ client' = TRUE
    /\ UNCHANGED <<plug, status, modeset, shown, stage, delayed, due, hpd, task, worker, missed>>
Probe(k) ==
    /\ client /\ stage = "up"
    /\ status' = [status EXCEPT ![k] = plug[k]]
    /\ missed' = IF plug[k] # status[k] THEN missed \cup {"swallowed"} ELSE missed
    /\ UNCHANGED <<plug, modeset, shown, stage, client, delayed, due, hpd, task, worker>>
Show(c, k) ==
    /\ client /\ stage = "up" /\ status[k] /\ c \in FbReach[k]
    /\ shown' = [d \in FbCrtcs |-> IF d = c THEN [fb |-> "user", conns |-> {k}]
                                   ELSE IF shown[d].conns \subseteq {k} THEN BlankCrtc
                                   ELSE [shown[d] EXCEPT !.conns = @ \ {k}]]
    /\ UNCHANGED <<plug, status, modeset, stage, client, delayed, due, hpd, task, worker, missed>>
LastClose(unset) ==
    /\ client /\ stage = "up" /\ client' = FALSE
    /\ shown' = Restored([c \in FbCrtcs |-> IF shown[c].fb = "user" THEN BlankCrtc ELSE shown[c]], unset)
    /\ missed' = IF delayed THEN missed \cup {"deferred"} ELSE Tried(unset)
    /\ UNCHANGED <<plug, status, modeset, stage, delayed, due, hpd, task, worker>>
\* i915_drm_freeze stops the polling, and waits for it, i915_drm_thaw starts it;
\* a freeze that fails on the GPU does not.
Freeze(fails) ==
    /\ stage = "up" /\ worker["poll"] = "idle" /\ due' = FALSE
    /\ stage' = IF fails THEN "up" ELSE "asleep"
    /\ missed' = IF fails /\ Polled THEN missed \cup {"unpolled"} ELSE missed
    /\ UNCHANGED <<plug, status, modeset, shown, client, delayed, hpd, task, worker>>
Thaw ==
    /\ stage = "asleep" /\ stage' = "up" /\ due' = Polled
    /\ UNCHANGED <<plug, status, modeset, shown, client, delayed, hpd, task, worker, missed>>

FbNext ==
    /\ missed \subseteq {"unset"}
    /\ \/ InitialConfig \/ PollInit \/ (\E unset \in SUBSET FbCrtcs : ModeTask(unset) \/ LastClose(unset)) \/ Switch \/ HotplugWork \/ PollWork \/ PollAgain
       \/ \E w \in {"poll", "hpd"} : HotplugEvent(w) \/ (\E done \in 0..Len(FbOrder) : SingleFbProbe(w, done))
       \/ \E k \in FbConnSet : Change(k) \/ Probe(k) \/ (\E c \in FbCrtcs : Show(c, k))
       \/ Open \/ (\E fails \in BOOLEAN : Freeze(fails)) \/ Thaw
FbSpec == FbInit /\ [][FbNext]_fbVars
------------------------------------------------------------------------------
FbTypeOK ==
    /\ {plug, status} \subseteq [FbConnSet -> BOOLEAN] /\ modeset \in [FbCrtcs -> SUBSET FbConnSet]
    /\ \A c \in FbCrtcs : shown[c] \in [fb : {None, "console", "user"}, conns : SUBSET FbConnSet]
    /\ stage \in {"boot", "early", "up", "asleep"} /\ worker["hpd"] # "again"

\* The crtcs chosen serve as many, and as good, connectors as any choice could.
Assignments(st) ==
    {a \in [FbConnSet -> FbCrtcs \cup {None}] :
        /\ \A k \in FbConnSet : a[k] # None => st[k] /\ a[k] \in FbReach[k]
        /\ \A j, k \in FbConnSet : j # k /\ a[j] # None => a[j] # a[k]}
Total(st, K) == FoldSet(LAMBDA k, n : n + Score(st, k), 0, K)
BestChoice ==
    \A st \in [FbConnSet -> BOOLEAN] :
        LET chosen == Total(st, UNION {Setup(st)[c] : c \in FbCrtcs}) IN
        \A a \in Assignments(st) : chosen >= Total(st, {k \in FbConnSet : a[k] # None})
\* A change that the driver has not seen will be: its interrupt or the next
\* poll is on the way.
Noticed ==
    stage = "up" => \A k \in FbConnSet : status[k] # plug[k] =>
        \/ PollOf[k] = "never" \/ (PollOf[k] = "connect" /\ status[k])
        \/ (PollOf[k] = "hpd" /\ hpd)
        \/ (PollOf[k] \in {"poll", "connect"} /\ (due \/ worker["poll"] # "idle"))
\* Left alone, and unless a set_config failed when it was last tried, the console
\* is on every crtc it was set up for.
Quiet == stage = "up" /\ ~client /\ ~task /\ \A w \in DOMAIN worker : worker[w] \in {"idle", "again"}
ConsoleShown == Quiet /\ "unset" \notin missed => \A c \in FbCrtcs : modeset[c] # {} => shown[c] = [fb |-> "console", conns |-> modeset[c]]
FbSafe == missed \subseteq {"unset"} => BestChoice /\ Noticed /\ ConsoleShown
=============================================================================
