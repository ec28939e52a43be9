----------------------------- MODULE MCDisplay -----------------------------
(***************************************************************************)
(* The display side of drm and drm/i915, part by part: a behaviour belongs *)
(* to the part chosen at its start; the variables of the others stay None.*)
(***************************************************************************)
EXTENDS IntelDisplay, Sequences, TLC

CONSTANTS vga, edp, hdmi, ev, ee, eh, f1, f2, own1, own2, pa, pb

VARIABLES part,
          flipGen, crtc, user, work, queue, count, bit, pins, vref, mutex, chip, irq, open, astray,
          idr, crtcs, planes, conns, fbs, loaded, wrong, focus,
          link, dpms, feed, heads, runs, blamed,
          plug, status, modeset, shown, stage, client, delayed, due, hpd, task, worker, missed,
          aspect, port, training, aux, wire,
          facet, overlay, lit, scan, call, sprite,
          ddi

flipVars == <<flipGen, crtc, user, work, queue, count, bit, pins, vref, mutex, chip, irq, open, astray>>
kmsVars == <<idr, crtcs, planes, conns, fbs, loaded, wrong, focus>>
helperVars == <<link, dpms, feed, heads, runs, blamed>>
fbVars == <<plug, status, modeset, shown, stage, client, delayed, due, hpd, task, worker, missed>>
dpVars == <<aspect, port, training, aux, wire>>
planeVars == <<facet, overlay, lit, scan, call, sprite>>

MCAttached == vga :> ev @@ edp :> ee @@ hdmi :> eh
MCPossible == ev :> {0, 1} @@ ee :> {0} @@ eh :> {1}
MCDepth == f1 :> 24 @@ f2 :> 24

Flip == INSTANCE IntelFlip WITH FlipGens <- {"gen3", "gen4", "ilk"}, FlipFbs <- {f1, f2},
            FlipFiles <- {"file"}, MaxMishaps <- 3, gen <- flipGen, hw <- chip
Kms == INSTANCE DrmKms WITH KmsFiles <- {own1, own2}, KmsCrtcs <- {0, 1}, Planes <- {9},
            KmsConnectors <- {"vga", "edp"}, LastId <- 3, MaxFbs <- 2
Helper == INSTANCE CrtcHelper WITH HelperConns <- {"dvid", "dvia", "vga"}, HelperEncs <- {"e1", "e2"},
            HelperCrtcs <- {"A", "B"}, HelperModes <- {"m1"},
            BestEnc <- "dvid" :> "e1" @@ "dvia" :> "e1" @@ "vga" :> "e2",
            PossibleOf <- "e1" :> {"A", "B"} @@ "e2" :> {"A"}, None <- "none", crtcs <- heads, hw <- runs
Console == INSTANCE FbHelper WITH FbConns <- <<"vga", "dp">>, FbOrder <- <<"A", "B">>,
            FbReach <- "vga" :> {"A", "B"} @@ "dp" :> {"A"}, PollOf <- "vga" :> "poll" @@ "dp" :> "hpd",
            Prefers <- {"dp"}, None <- "none"
Dp == INSTANCE IntelDp WITH DpKinds <- {"cpu", "pch", "dp"}, MaxSwing <- 2, XferLen <- 2,
           PixelClocks <- {9999, 25175, 108000, 148500, 161999, 162000, 268500, 360000}, link <- wire
Planes == INSTANCE IntelPlanes WITH PlaneBos <- {f1, f2}, PlanePipes <- {pa, pb}
Ddi == INSTANCE IntelDdi WITH DdiPipes <- {f1, f2, "C"}, Digital <- {"B", pa, pb}, Dual <- {"B"},
           DdiClocks <- {20000, 25000, 25175, 40000, 148500, 297000, 350000}
ASSUME Flip!FlipAssumption /\ Kms!KmsAssumption /\ Helper!HelperAssumption /\ Console!FbAssumption
        /\ Dp!DpAssumption /\ Planes!PlaneAssumption /\ Ddi!DdiAssumption

Init ==
    /\ part \in {"display", "flip", "kms", "helper", "console", "dp", "planes", "ddi"}
    /\ IF part = "display" THEN DisplayInit
       ELSE /\ gen = None /\ dev = None /\ job = None /\ kept = None /\ mishap = None
    /\ IF part = "flip" THEN Flip!FlipInit
       ELSE /\ flipGen = None /\ crtc = None /\ user = None /\ work = None /\ queue = None /\ count = None
            /\ bit = None /\ pins = None /\ vref = None /\ mutex = None /\ chip = None /\ irq = None
            /\ open = None /\ astray = None
    /\ IF part = "kms" THEN Kms!KmsInit
       ELSE /\ idr = None /\ crtcs = None /\ planes = None /\ conns = None /\ fbs = None /\ loaded = None
            /\ wrong = None /\ focus = None
    /\ IF part = "helper" THEN Helper!HelperInit
       ELSE /\ link = None /\ dpms = None /\ feed = None /\ heads = None /\ runs = None /\ blamed = None
    /\ IF part = "console" THEN Console!FbInit
       ELSE /\ plug = None /\ status = None /\ modeset = None /\ shown = None /\ stage = None
            /\ client = None /\ delayed = None /\ due = None /\ hpd = None /\ task = None /\ worker = None
            /\ missed = None
    /\ IF part = "dp" THEN Dp!DpInit
       ELSE /\ aspect = None /\ port = None /\ training = None /\ aux = None /\ wire = None
    /\ IF part = "planes" THEN Planes!PlanesInit
       ELSE /\ facet = None /\ overlay = None /\ lit = None /\ scan = None /\ call = None /\ sprite = None
    /\ IF part = "ddi" THEN Ddi!DdiInit ELSE ddi = None

Next ==
    \/ part = "display" /\ DisplayNext /\ UNCHANGED <<part, flipVars, kmsVars, helperVars, fbVars, dpVars, planeVars, ddi>>
    \/ part = "flip" /\ Flip!FlipNext /\ UNCHANGED <<part, displayVars, kmsVars, helperVars, fbVars, dpVars, planeVars, ddi>>
    \/ part = "kms" /\ Kms!KmsNext /\ UNCHANGED <<part, displayVars, flipVars, helperVars, fbVars, dpVars, planeVars, ddi>>
    \/ part = "helper" /\ Helper!HelperNext /\ UNCHANGED <<part, displayVars, flipVars, kmsVars, fbVars, dpVars, planeVars, ddi>>
    \/ part = "console" /\ Console!FbNext /\ UNCHANGED <<part, displayVars, flipVars, kmsVars, helperVars, dpVars, planeVars, ddi>>
    \/ part = "dp" /\ Dp!DpNext
       /\ UNCHANGED <<part, displayVars, flipVars, kmsVars, helperVars, fbVars, planeVars, ddi>>
    \/ part = "planes" /\ Planes!PlanesNext
       /\ UNCHANGED <<part, displayVars, flipVars, kmsVars, helperVars, fbVars, dpVars, ddi>>
    \/ part = "ddi" /\ Ddi!DdiNext
       /\ UNCHANGED <<part, displayVars, flipVars, kmsVars, helperVars, fbVars, dpVars, planeVars>>

vars == <<part, displayVars, flipVars, kmsVars, helperVars, fbVars, dpVars, planeVars, ddi>>
Spec == Init /\ [][Next]_vars

\* Every variable keeps its type.
TypeOK == CASE part = "display" -> DisplayTypeOK [] part = "flip" -> Flip!FlipTypeOK
            [] part = "kms" -> Kms!KmsTypeOK [] part = "helper" -> Helper!HelperTypeOK
            [] part = "console" -> Console!FbTypeOK
            [] part = "dp" -> Dp!DpTypeOK [] part = "planes" -> Planes!PlanesTypeOK
            [] part = "ddi" -> Ddi!DdiTypeOK

\* A call does what its result says, until a step has failed in the middle of a mode set;
\* the PLLs and the pins are held exactly by who uses them, after a failure and its
\* roll-back too; and what runs has its clocks, until two crtcs have shared a PLL
\* (intel_display.c).
ModesetSafe == part = "display" => Faithful /\ ResourcesExact /\ ClocksRun
\* The pins and the pending bits are those of the flips under way; what is scanned out is
\* pinned, a flip is on its way to its event, and completes early, only as far as a mishap
\* named in IntelFlip allows (intel_display.c, i915_irq.c).
FlipSafe == part = "flip" => Flip!FlipSafe
\* Ids, framebuffers and blobs belong to who made them and go with him, and the crtc helper,
\* the console and the polling keep hardware, software and the plugs in step
\* (drm_crtc.c, drm_crtc_helper.c, drm_fb_helper.c).
KmsSafe == CASE part = "kms" -> Kms!KmsSafe [] part = "helper" -> Helper!HelperSafe
             [] part = "console" -> Console!FbSafe [] OTHER -> TRUE
\* The outputs: no transfer to a panel without power, a training that ends unless the sink
\* lowers its request again and again, what the sink took, and a link that carries its mode; the clocks, transcoders and ports of Haswell go
\* together; the planes above the primary: an image is pinned while it is shown, whatever
\* interrupts the call (intel_dp.c, intel_ddi.c, intel_overlay.c, intel_sprite.c).
OutputsSafe == CASE part = "dp" -> Dp!DpSafe [] part = "planes" -> Planes!PlanesSafe
                 [] part = "ddi" -> Ddi!DdiSafe [] OTHER -> TRUE

Symmetric == Permutations({f1, f2}) \cup Permutations({own1, own2}) \cup Permutations({pa, pb})
=============================================================================
