----------------------------- MODULE IntelPlanes -----------------------------
(***************************************************************************)
(* The planes of drm/i915 above the primary one: the video overlay, driven *)
(* by commands in the render ring (intel_overlay.c), and the sprite of a   *)
(* pipe, driven by registers (intel_sprite.c).  facet says which of them a *)
(* behaviour is about.  Both show objects of the client, which have to be  *)
(* pinned until the hardware has moved on.                                 *)
(***************************************************************************)
EXTENDS Integers, Sequences, FiniteSets

CONSTANTS PlaneBos, PlanePipes, None

VARIABLES facet, overlay, lit, scan, call, sprite
planeVars == <<facet, overlay, lit, scan, call, sprite>>

PlaneAssumption == None \notin PlaneBos \cup PlanePipes /\ PlaneBos # {} /\ PlanePipes # {}

Unpin(p, b) == IF b = None THEN p ELSE [p EXCEPT ![b] = @ - 1]
Uses(x, b) == IF x = b THEN 1 ELSE 0
------------------------------------------------------------------------------
(* The overlay.  A call holds struct_mutex and mode_config.mutex from      *)
(* beginning to end, so the steps of call.todo only meet the hardware.     *)
(* overlay: there (set up), regs (what its register page holds: "bo" and   *)
(* "pin"), pipe, active, vid, old, req (last_flip_req), tail (flip_tail),  *)
(* own (the tail was set for the request), linked (crtc->overlay), page    *)
(* (the registers in memory: object and pipe), pins, slips (what went      *)
(* wrong on the way).                                                      *)
NoCall == [op |-> "none", todo |-> <<>>, pipe |-> None, bo |-> None, held |-> FALSE]
Busy == call.op # "none"
Does(step) == call.op # "panic" /\ Busy /\ Head(call.todo) = step
Rest == Tail(call.todo)
Goto(todo) == call' = IF todo = <<>> THEN NoCall ELSE [call EXCEPT !.todo = todo]
Slip(o, x) == [o EXCEPT !.slips = @ \cup x]
\* The error paths: what the call pinned is unpinned; a pipe goes dark all the same.
Fail(o) ==
    /\ overlay' = [o EXCEPT !.pins = IF call.held THEN Unpin(@, call.bo) ELSE @]
    /\ call' = IF call.op = "dpms" THEN [call EXCEPT !.todo = <<"dark">>] ELSE NoCall
\* BUG_ON
Panic == call' = [call EXCEPT !.op = "panic"]
Emit(commands) == scan' = [scan EXCEPT !.queue = @ \o commands]

\* intel_overlay_put_image, with I915_OVERLAY_ENABLE and without
PutImage(pipe, b) ==
    /\ ~Busy /\ overlay.there
    /\ call' = [NoCall EXCEPT !.op = "put", !.pipe = pipe, !.bo = b, !.todo = <<"recover", "place">>]
    /\ UNCHANGED <<facet, overlay, lit, scan, sprite>>
PutOff ==
    /\ ~Busy /\ overlay.there
    /\ call' = [NoCall EXCEPT !.op = "off", !.todo = <<"recover", "turnoff">>]
    /\ UNCHANGED <<facet, overlay, lit, scan, sprite>>
\* intel_crtc_dpms_overlay, before the pipe is disabled; it comes back without its overlay.
PipeOff(pipe) ==
    /\ ~Busy /\ lit[pipe]
    /\ call' = [NoCall EXCEPT !.op = "dpms", !.pipe = pipe,
                    !.todo = (IF overlay.linked[pipe] THEN <<"recover", "turnoff">> ELSE <<>>) \o <<"dark">>]
    /\ UNCHANGED <<facet, overlay, lit, scan, sprite>>
Dark ==
    /\ Does("dark") /\ Goto(Rest) /\ lit' = [lit EXCEPT ![call.pipe] = FALSE]
    /\ overlay' = IF scan.on /\ overlay.page.pipe = call.pipe THEN Slip(overlay, {"shut"}) ELSE overlay
    /\ UNCHANGED <<facet, scan, sprite>>
PipeOn(pipe) ==
    /\ ~Busy /\ ~lit[pipe] /\ lit' = [lit EXCEPT ![pipe] = TRUE]
    /\ UNCHANGED <<facet, overlay, scan, call, sprite>>

\* intel_overlay_release_old_vid_tail and intel_overlay_off_tail, what follows a request
OldTail(o) == [Slip(o, IF o.old = None THEN {"null"} ELSE {}) EXCEPT !.pins = Unpin(@, o.old), !.old = None]
OffTail(o) == [o EXCEPT !.pins = Unpin(@, o.vid), !.vid = None, !.linked[o.pipe] = FALSE,
                        !.pipe = None, !.active = FALSE]
RunTail(o) == CASE o.tail = "old" -> OldTail(o) [] o.tail = "off" -> OffTail(o) [] OTHER -> o
\* intel_overlay_recover_from_interrupt: flip_tail may be that of an earlier request.
Recover ==
    /\ Does("recover") /\ (overlay.req => scan.queue = <<>>)
    /\ \/ overlay.req /\ overlay.tail = "off" /\ overlay.vid = None /\ Panic /\ UNCHANGED overlay
       \/ /\ overlay.req => overlay.tail # "off" \/ overlay.vid # None
          /\ overlay' = IF ~overlay.req THEN overlay
                        ELSE [RunTail(Slip(overlay, IF overlay.own \/ overlay.tail = "none" THEN {} ELSE {"stale"}))
                                EXCEPT !.req = FALSE]
          /\ Goto(Rest)
    /\ UNCHANGED <<facet, lit, scan, sprite>>
\* intel_overlay_do_wait_request: the request, and the wait for it, which a signal ends
\* unless the caller is intel_crtc_dpms_overlay
Requested(o, tail) == [o EXCEPT !.req = TRUE, !.tail = tail, !.own = TRUE]
Wait ==
    /\ Does("wait") /\ scan.queue = <<>>
    /\ overlay' = [overlay EXCEPT !.req = FALSE] /\ Goto(Rest)
    /\ UNCHANGED <<facet, lit, scan, sprite>>
Interrupted ==
    /\ Does("recover") \/ Does("wait")
    /\ overlay.req /\ scan.queue # <<>> /\ call.op # "dpms" /\ Fail(overlay)
    /\ UNCHANGED <<facet, lit, scan, sprite>>
\* intel_ring_begin fails, or i915_add_request after the commands are out: once in a behaviour.
RingFails(o, commands) ==
    /\ overlay.slips = {}
    /\ \/ Fail(Slip(o, {"failed"})) /\ UNCHANGED scan
       \/ Fail(Slip(o, {"failed"})) /\ Emit(commands)
\* Mutant: the old image is let go with the flip away from it still pending
ReleaseOldAtOnce ==
    /\ Does("old") /\ Goto(Rest)
    /\ overlay' = IF overlay.old = None THEN overlay ELSE OldTail(overlay)
    /\ UNCHANGED <<facet, lit, scan, sprite>>
\* intel_overlay_release_old_vid: with the flip away from it pending, it waits for that.
ReleaseOld ==
    /\ Does("old")
    /\ \/ overlay.old = None /\ Goto(Rest) /\ UNCHANGED <<overlay, scan>>
       \/ overlay.old # None /\ ~scan.pending /\ overlay' = OldTail(overlay) /\ Goto(Rest) /\ UNCHANGED scan
       \/ overlay.old # None /\ scan.pending
          /\ \/ overlay' = Requested(overlay, "old") /\ Emit(<<"wait">>) /\ Goto(<<"wait", "oldtail">> \o Rest)
             \/ RingFails(overlay, <<"wait">>)
    /\ UNCHANGED <<facet, lit, sprite>>
WaitedOld == /\ Does("oldtail") /\ overlay' = OldTail(overlay) /\ Goto(Rest)
             /\ UNCHANGED <<facet, lit, scan, sprite>>
\* intel_overlay_switch_off after its recovery, and intel_overlay_off
TurnOff ==
    /\ Does("turnoff") /\ Goto((IF overlay.active THEN <<"old", "off">> ELSE <<>>) \o Rest)
    /\ UNCHANGED <<facet, overlay, lit, scan, sprite>>
OffCommands == <<"flip", "wait", "off", "wait">>
Off ==
    /\ Does("off")
    /\ LET blank == [overlay EXCEPT !.page.bo = None]
       IN  \/ /\ overlay' = Requested(blank, "off") /\ Emit(OffCommands)
              /\ Goto(<<"wait", "offtail">> \o Rest)
           \/ RingFails(blank, OffCommands)
    /\ UNCHANGED <<facet, lit, sprite>>
WaitedOff ==
    /\ Does("offtail")
    /\ \/ overlay.vid = None /\ Panic /\ UNCHANGED overlay
       \/ overlay.vid # None /\ overlay' = OffTail(overlay) /\ Goto(Rest)
    /\ UNCHANGED <<facet, lit, scan, sprite>>
\* The rest of intel_overlay_put_image: on another pipe the overlay is switched off first.
\* check_overlay_dst, check_overlay_src, check_overlay_scaling may refuse, the pipe bound or not.
Image == <<"old", "image">>
Place ==
    /\ Does("place")
    /\ \/ overlay.pipe # call.pipe /\ Goto(<<"turnoff", "attach">>) /\ UNCHANGED overlay
       \/ overlay.pipe = call.pipe /\ Goto(Image) /\ UNCHANGED overlay
       \/ overlay.pipe = call.pipe /\ Fail(overlay)
    /\ UNCHANGED <<facet, lit, scan, sprite>>
\* check_overlay_possible_on_crtc, then the binding
Attach ==
    /\ Does("attach")
    /\ LET o == [Slip(overlay, IF overlay.pipe # None THEN {"relinked"} ELSE {})
                   EXCEPT !.pipe = call.pipe, !.linked[call.pipe] = TRUE]
       IN  \/ ~lit[call.pipe] /\ Fail(overlay)
           \/ lit[call.pipe] /\ overlay' = o /\ Goto(Image)
           \/ lit[call.pipe] /\ Fail(o)
    /\ UNCHANGED <<facet, lit, scan, sprite>>
\* intel_overlay_do_put_image: the pin, i915_gem_object_put_fence and intel_overlay_on, which
\* sets active before anything can fail
On ==
    /\ Does("image")
    /\ LET o == [overlay EXCEPT !.pins[call.bo] = @ + 1]
           shown == [o EXCEPT !.active = TRUE, !.page.pipe = overlay.pipe]
       IN  \/ Fail(overlay) /\ UNCHANGED scan
           \/ overlay.active /\ overlay' = o /\ call' = [call EXCEPT !.todo = <<"show">>, !.held = TRUE]
              /\ UNCHANGED scan
           \/ ~overlay.active
              /\ overlay' = Slip(Requested(shown, "none"), IF lit[overlay.pipe] THEN {} ELSE {"unlit"})
              /\ call' = [call EXCEPT !.todo = <<"wait", "show">>, !.held = TRUE] /\ Emit(<<"on", "wait">>)
           \/ ~overlay.active
              /\ RingFails([overlay EXCEPT !.active = TRUE, !.page.pipe = overlay.pipe], <<"on", "wait">>)
    /\ UNCHANGED <<facet, lit, sprite>>
\* The registers, then intel_overlay_continue, which sets last_flip_req but not flip_tail
Show ==
    /\ Does("show")
    /\ LET o == [overlay EXCEPT !.page.bo = call.bo]
       IN  \/ /\ Emit(<<"flip">>) /\ call' = NoCall
              /\ overlay' = [o EXCEPT !.req = TRUE, !.own = FALSE, !.old = o.vid, !.vid = call.bo]
           \/ RingFails(o, <<"flip">>)
    /\ UNCHANGED <<facet, lit, sprite>>

\* intel_overlay_attrs with new gamma values, which an active overlay refuses
SetGamma ==
    /\ ~Busy /\ overlay.there /\ ~overlay.active /\ scan.on
    /\ overlay' = Slip(overlay, {"gamma"})
    /\ UNCHANGED <<facet, lit, scan, call, sprite>>
\* intel_setup_overlay, which may stop after any of its steps, and intel_cleanup_overlay
Unwound(stop) == CASE stop = "alloc" -> {} [] stop = "attach" -> {"bo"} \ {"bo"}
                   [] stop \in {"domain", "map"} -> ({"bo", "pin"} \ {"pin"}) \ {"bo"}
SetupOverlay(stop) ==
    /\ ~Busy /\ ~overlay.there
    /\ overlay' = IF stop = "ok" THEN [overlay EXCEPT !.there = TRUE, !.regs = {"bo", "pin"}]
                  ELSE [overlay EXCEPT !.regs = Unwound(stop)]
    /\ UNCHANGED <<facet, lit, scan, call, sprite>>
CleanupOverlay ==
    /\ ~Busy /\ overlay.there
    /\ \/ overlay.active /\ Panic /\ UNCHANGED overlay
       \/ ~overlay.active /\ overlay' = [overlay EXCEPT !.there = FALSE, !.regs = {}] /\ UNCHANGED call
    /\ UNCHANGED <<facet, lit, scan, sprite>>
------------------------------------------------------------------------------
(* The overlay engine: it takes the commands in their order, and a flip    *)
(* loads the register page at the next vertical blank of the pipe.         *)
Execute ==
    /\ scan.queue # <<>> /\ (Head(scan.queue) = "wait" => ~scan.pending)
    /\ LET command == Head(scan.queue)
       IN  scan' = [scan EXCEPT !.queue = Tail(@), !.on = @ \/ command = "on",
                        !.pending = command # "wait", !.ending = command = "off"]
    /\ UNCHANGED <<facet, overlay, lit, call, sprite>>
Vblank ==
    /\ scan.pending /\ overlay.page.pipe # None /\ lit[overlay.page.pipe]
    /\ scan' = [scan EXCEPT !.pending = FALSE, !.ending = FALSE,
                    !.on = @ /\ ~scan.ending, !.bo = IF scan.ending THEN None ELSE overlay.page.bo]
    /\ UNCHANGED <<facet, overlay, lit, call, sprite>>

OverlayInit ==
    /\ overlay = [there |-> FALSE, regs |-> {}, pipe |-> None, active |-> FALSE, vid |-> None, old |-> None,
                  req |-> FALSE, tail |-> "none", own |-> TRUE, linked |-> [p \in PlanePipes |-> FALSE],
                  page |-> [bo |-> None, pipe |-> None], pins |-> [b \in PlaneBos |-> 0], slips |-> {}]
    /\ lit = [p \in PlanePipes |-> TRUE]
    /\ scan = [on |-> FALSE, bo |-> None, pending |-> FALSE, ending |-> FALSE, queue |-> <<>>]
    /\ call = NoCall
OverlayNext ==
    \/ \E p \in PlanePipes, b \in PlaneBos : PutImage(p, b)
    \/ \E p \in PlanePipes : PipeOff(p) \/ PipeOn(p)
    \/ PutOff \/ Dark \/ Recover \/ Wait \/ Interrupted \/ ReleaseOld \/ WaitedOld
    \/ TurnOff \/ Off \/ WaitedOff \/ Place \/ Attach \/ On \/ Show
    \/ SetGamma \/ CleanupOverlay \/ Execute \/ Vblank
    \/ \E stop \in {"alloc", "attach", "domain", "map", "ok"} : SetupOverlay(stop)
------------------------------------------------------------------------------
(* What the overlay owes its images.                                       *)
Slipped(x) == overlay.slips \cap x # {}
\* A pin is held for the image shown, the one before it and the one on its way
PinsExact == \A b \in PlaneBos :
    overlay.pins[b] = Uses(overlay.vid, b) + Uses(overlay.old, b) + (IF call.held THEN Uses(call.bo, b) ELSE 0)
\* What the engine reads is pinned, unless a stale tail or a failed request let it go
ScanPinned == scan.on /\ scan.bo # None /\ lit[overlay.page.pipe] =>
    overlay.pins[scan.bo] > 0 \/ Slipped({"stale", "failed"})
\* A request is waited for before the next one is made, and a tail has its object
RequestsInTurn == /\ "null" \notin overlay.slips
                  /\ overlay.req => \A step \in {"old", "off", "place", "turnoff", "image", "show"} : ~Does(step)
\* The crtc knows its overlay, unless it was bound and then given away unused
LinkAgrees == (\A p \in PlanePipes : overlay.linked[p] <=> overlay.pipe = p) \/ Slipped({"relinked"})
\* The ring never waits for a flip on a dark pipe, but when the pipe was not looked at again
RingMoves == scan.queue # <<>> /\ Head(scan.queue) = "wait" /\ scan.pending =>
    lit[overlay.page.pipe] \/ Slipped({"unlit", "failed"})
\* A pipe goes dark with the overlay on it only after a failed request, gamma changes under a
\* running overlay only after a stale tail, and a failed setup keeps nothing.
OverlaySafe ==
    /\ PinsExact /\ ScanPinned /\ RequestsInTurn /\ LinkAgrees /\ RingMoves
    /\ "shut" \in overlay.slips => Slipped({"failed"})
    /\ "gamma" \in overlay.slips => Slipped({"stale"})
    /\ ~overlay.there => overlay.regs = {}
------------------------------------------------------------------------------
(* The sprite of a pipe, of the Ironlake or the Ivy Bridge kind.  sprite:  *)
(* live (framebuffers, each with its object), fb and bound (plane->fb,     *)
(* plane->crtc), obj, old (an update waits for a vertical blank to unpin   *)
(* it), reg and ctl (the registers), shown (what the hardware took from    *)
(* them), hidden (primary_disabled), primary (the primary plane runs),     *)
(* key, pins, scaling (sprite_scaling_enabled, one for all sprites), other *)
(* (the sprite of the other pipe), both (the two were on together), loose  *)
(* (why shown may be unpinned until the next vertical blank), off (the     *)
(* last update was off the screen), freed (an object went while the plane  *)
(* held it).  All calls hold mode_config.mutex.                            *)
Idle == sprite.old = None
Primary(s, on) == IF s.hidden = ~on THEN s ELSE [s EXCEPT !.hidden = ~on, !.primary = on]
\* ivb_update_plane and ilk_update_plane: the keys in the control register stay.
Control(s, looks) == (s.ctl \ {"scale"}) \cup {"enable"} \cup looks
IvbRegisters(s, b, looks) ==
    [s EXCEPT !.reg = b, !.ctl = Control(s, looks), !.scaling = "scale" \in looks, !.both = @ \/ s.other]
IlkRegisters(s, b, looks) == [s EXCEPT !.reg = b, !.ctl = Control(s, looks)]
Registers(s, b, looks) == IF s.kind = "ivb" THEN IvbRegisters(s, b, looks) ELSE IlkRegisters(s, b, looks)
\* intel_update_plane for drm_mode_setplane, which notes the framebuffer whenever it returns 0:
\* also for a place off the screen.
UpdateOff(b) ==
    /\ Idle /\ b \in sprite.live
    /\ sprite' = [sprite EXCEPT !.fb = b, !.bound = TRUE, !.off = TRUE]
    /\ UNCHANGED <<facet, overlay, lit, scan, call>>
UpdatePlane(b, full, looks) ==
    /\ Idle /\ b \in sprite.live
    /\ LET first == IF full THEN sprite ELSE Primary(sprite, TRUE)
           shows == [Registers(first, b, looks) EXCEPT !.pins[b] = @ + 1, !.obj = b, !.fb = b, !.bound = TRUE,
                                                       !.off = FALSE]
           last == IF full THEN Primary(shows, FALSE) ELSE shows
       IN  sprite' = IF sprite.obj = b THEN [last EXCEPT !.pins[b] = @ - 1]
                     ELSE [last EXCEPT !.old = sprite.obj]
    /\ UNCHANGED <<facet, overlay, lit, scan, call>>
\* The end of the update: intel_wait_for_vblank gives up after 50 ms.
UnpinOld(patient) ==
    /\ ~Idle /\ (patient <=> sprite.shown = sprite.reg)
    /\ sprite' = [sprite EXCEPT !.pins = Unpin(@, sprite.old), !.old = None,
                      !.loose = IF patient THEN @ ELSE TRUE]
    /\ UNCHANGED <<facet, overlay, lit, scan, call>>
\* ivb_disable_plane, ilk_disable_plane
IvbCleared(s) == [s EXCEPT !.reg = None, !.ctl = @ \ {"enable", "scale"}, !.scaling = FALSE]
IlkCleared(s) == [s EXCEPT !.reg = None, !.ctl = @ \ {"enable", "scale"}]
Cleared(s) == IF s.kind = "ivb" THEN IvbCleared(s) ELSE IlkCleared(s)
Released(s) == [Cleared(s) EXCEPT !.pins = Unpin(@, s.obj), !.obj = None, !.loose = s.shown # None]
Unbound(s) == [s EXCEPT !.fb = None, !.bound = FALSE, !.off = FALSE]
\* Mutant: the plane goes, and the primary plane below it stays disabled
DisabledOver(s) == Released(s)
\* intel_disable_plane: no vertical blank is awaited.
Disabled(s) == Released(IF s.bound THEN Primary(s, TRUE) ELSE s)
DisablePlane ==
    /\ Idle /\ sprite.bound /\ sprite' = Unbound(Disabled(sprite))
    /\ UNCHANGED <<facet, overlay, lit, scan, call>>
\* drm_framebuffer_remove: the plane is disabled if plane->fb is this one.
RmFb(b) ==
    /\ Idle /\ b \in sprite.live
    /\ LET s == IF sprite.fb = b THEN Unbound(Disabled(sprite)) ELSE sprite
       IN  sprite' = [s EXCEPT !.live = @ \ {b}, !.freed = @ \/ s.obj = b]
    /\ UNCHANGED <<facet, overlay, lit, scan, call>>
AddFb(b) ==
    /\ Idle /\ b \notin sprite.live \cup {sprite.obj, sprite.shown}
    /\ sprite' = [sprite EXCEPT !.live = @ \cup {b}]
    /\ UNCHANGED <<facet, overlay, lit, scan, call>>
\* A crtc disabled and enabled again has its primary plane running; primary_disabled stays.
CrtcCycle ==
    /\ Idle /\ sprite' = [sprite EXCEPT !.primary = TRUE]
    /\ UNCHANGED <<facet, overlay, lit, scan, call>>
\* The sprite of the other pipe is updated, scaled or not, or disabled.
OtherSprite(on, scaled) ==
    /\ Idle /\ sprite.kind = "ivb" /\ (scaled => on)
    /\ sprite' = [sprite EXCEPT !.other = on, !.scaling = scaled, !.both = @ \/ sprite.reg # None]
    /\ UNCHANGED <<facet, overlay, lit, scan, call>>
\* intel_sprite_set_colorkey with ivb_update_colorkey or ilk_update_colorkey, and
\* ivb_get_colorkey, ilk_get_colorkey; both keys at once are refused.
SetColorkey(flag) ==
    /\ Idle
    /\ sprite' = [sprite EXCEPT !.key = flag, !.ctl = (@ \ {"source", "dest"}) \cup ({flag} \ {"none"})]
    /\ UNCHANGED <<facet, overlay, lit, scan, call>>
GetColorkey == IF "dest" \in sprite.ctl THEN "dest" ELSE IF "source" \in sprite.ctl THEN "source" ELSE "none"
\* The pipe's next vertical blank
SpriteVblank ==
    /\ sprite' = [sprite EXCEPT !.shown = sprite.reg, !.loose = FALSE]
    /\ UNCHANGED <<facet, overlay, lit, scan, call>>

SpriteInit == \E kind \in {"ilk", "ivb"} :
    sprite = [kind |-> kind, scaling |-> FALSE, other |-> FALSE, both |-> FALSE, live |-> PlaneBos, fb |-> None, bound |-> FALSE, obj |-> None, old |-> None, reg |-> None, ctl |-> {},
              shown |-> None, hidden |-> FALSE, primary |-> TRUE, key |-> "none", pins |-> [b \in PlaneBos |-> 0],
              loose |-> FALSE, freed |-> FALSE, off |-> FALSE]
SpriteNext ==
    \/ \E b \in PlaneBos : UpdateOff(b) \/ RmFb(b) \/ AddFb(b) \/ \E full \in BOOLEAN, looks \in {{}, {"scale"}} : UpdatePlane(b, full, looks)
    \/ \E on, scaled \in BOOLEAN : OtherSprite(on, scaled)
    \/ \E patient \in BOOLEAN : UnpinOld(patient)
    \/ \E flag \in {"none", "source", "dest"} : SetColorkey(flag)
    \/ DisablePlane \/ CrtcCycle \/ SpriteVblank

\* What the sprite shows exists and is pinned, but between a disabling or a timeout and the
\* vertical blank, or once a framebuffer went that an update off the screen had replaced;
\* one plane of the two is always on; the key is the one last set; and the watermarks know of
\* the scaling, as long as one sprite alone is used.
SpriteSafe ==
    /\ \A b \in PlaneBos : sprite.pins[b] = Uses(sprite.obj, b) + Uses(sprite.old, b)
    /\ sprite.shown # None => \/ sprite.shown \in sprite.live /\ sprite.pins[sprite.shown] > 0
                              \/ sprite.loose \/ sprite.freed
    /\ ~sprite.primary => sprite.hidden /\ sprite.reg # None
    /\ sprite.reg = sprite.obj /\ GetColorkey = sprite.key
    /\ sprite.obj = sprite.fb \/ sprite.off
    /\ sprite.kind = "ivb" => (sprite.scaling <=> "scale" \in sprite.ctl) \/ sprite.both \/ sprite.other
------------------------------------------------------------------------------
PlanesInit == facet \in {"overlay", "sprite"} /\ OverlayInit /\ SpriteInit
PlanesNext == (facet = "overlay" /\ OverlayNext) \/ (facet = "sprite" /\ SpriteNext)
PlanesTypeOK ==
    /\ overlay.pins \in [PlaneBos -> 0 .. 4] /\ {overlay.vid, overlay.old, scan.bo} \subseteq PlaneBos \cup {None}
    /\ lit \in [PlanePipes -> BOOLEAN] /\ {sprite.obj, sprite.shown} \subseteq PlaneBos \cup {None}
PlanesSafe == IF facet = "overlay" THEN OverlaySafe ELSE SpriteSafe
=============================================================================
