------------------------------- MODULE DrmKms -------------------------------
(***************************************************************************)
(* Mode objects and the ioctls on them (drm_crtc.c).  Every object the     *)
(* user can name has an id from one allocator, which gives the lowest free *)
(* one: an id is used again.  The ids here are those above the crtcs,      *)
(* encoders, connectors, planes and properties, which live as long as the  *)
(* driver.  An operation is one step: all hold mode_config.mutex.          *)
(***************************************************************************)
EXTENDS Integers, Sequences, FiniteSetsExt

CONSTANTS KmsFiles, KmsCrtcs, Planes, KmsConnectors, LastId, MaxFbs, None

VARIABLES idr,      \* id -> object
          crtcs, planes, conns,
          fbs,      \* file -> ids of its framebuffers (file_priv->fbs)
          loaded, wrong, focus
kmsVars == <<idr, crtcs, planes, conns, fbs, loaded, wrong, focus>>

KmsAssumption == {LastId, MaxFbs} \subseteq Nat /\ None \notin KmsFiles \cup KmsCrtcs

Ids == 1..LastId
Sizes == {1, 2}     \* of a framebuffer, and of a mode
Free == [type |-> "none", of |-> None, size |-> 0]
DarkCrtc == [fb |-> 0, mode |-> 0, store |-> <<0, 0>>, lut |-> <<0, 0>>]
NoPlane == [crtc |-> None, fb |-> 0]
NewConn == [crtc |-> None, blob |-> 0, edid |-> 0, modes |-> <<>>, dpms |-> 0, status |-> "unknown"]

\* The framebuffer of the console, which no file owns, exists from the start.
\* A run uses the framebuffers, or the rest: no state joins them but the ids.
KmsInit ==
    /\ idr = [i \in Ids |-> IF i = 1 THEN [type |-> "fb", of |-> None, size |-> 2] ELSE Free]
    /\ crtcs = [c \in KmsCrtcs |-> DarkCrtc] /\ planes = [p \in Planes |-> NoPlane]
    /\ conns = [k \in KmsConnectors |-> NewConn]
    /\ fbs = [f \in KmsFiles |-> {}] /\ loaded = TRUE /\ wrong = {} /\ focus \in {"fbs", "rest"}

FreeIds == {i \in Ids : idr[i] = Free}
\* drm_mode_object_get, drm_mode_object_put and drm_mode_object_find
Get(i, o) == FreeIds # {} /\ i = Min(FreeIds) /\ idr' = [idr EXCEPT ![i] = o]
Put(table, S) == [i \in Ids |-> IF i \in S THEN Free ELSE table[i]]
Find(i, type) == i \in Ids /\ idr[i].type = type
------------------------------------------------------------------------------
(* Framebuffers *)
AddFb(f, size) ==
    /\ Cardinality({i \in Ids : idr[i].type = "fb"}) < MaxFbs
    /\ \E i \in Ids : /\ Get(i, [type |-> "fb", of |-> f, size |-> size])
                      /\ fbs' = [fbs EXCEPT ![f] = @ \cup {i}]
    /\ UNCHANGED <<crtcs, planes, conns, loaded, wrong>>

\* What the driver's set_config leaves: the crtcs without connectors are off.
Off(cs, route) == [c \in KmsCrtcs |-> IF \E k \in KmsConnectors : route[k].crtc = c THEN cs[c]
                                      ELSE [cs[c] EXCEPT !.fb = 0, !.mode = 0]]
Unrouted(S) == [k \in KmsConnectors |-> IF conns[k].crtc \in S THEN [conns[k] EXCEPT !.crtc = None] ELSE conns[k]]
\* drm_framebuffer_remove: the crtcs and the planes that show one go off, then
\* it is freed, though the driver may have failed to switch off a crtc.
FbRemoveKept(gone, keep) ==    \* (mutant: the planes keep showing it)
    LET dark == {c \in KmsCrtcs \ keep : crtcs[c].fb \in gone} IN
    /\ conns' = Unrouted(dark) /\ crtcs' = Off(crtcs, conns')
    /\ planes' = planes
    /\ idr' = Put(idr, gone)
    /\ fbs' = [f \in KmsFiles |-> fbs[f] \ gone]
    /\ wrong' = IF \E c \in keep : crtcs[c].fb \in gone THEN wrong \cup {"dangling"} ELSE wrong
FbRemove(gone, keep) ==
    LET dark == {c \in KmsCrtcs \ keep : crtcs[c].fb \in gone} IN
    /\ conns' = Unrouted(dark) /\ crtcs' = Off(crtcs, conns')
    /\ planes' = [p \in Planes |-> IF planes[p].fb \in gone THEN NoPlane ELSE planes[p]]
    /\ idr' = Put(idr, gone)
    /\ fbs' = [f \in KmsFiles |-> fbs[f] \ gone]
    /\ wrong' = IF \E c \in keep : crtcs[c].fb \in gone THEN wrong \cup {"dangling"} ELSE wrong
RmFb(f, i, keep) == Find(i, "fb") /\ i \in fbs[f] /\ FbRemove({i}, keep) /\ UNCHANGED loaded
FbRelease(f, keep) == fbs[f] # {} /\ FbRemove(fbs[f], keep) /\ UNCHANGED loaded

\* drm_mode_setcrtc: with a mode it needs connectors and a framebuffer that is
\* large enough, -1 being the one shown; without, it switches off.  The mode
\* is an object for the time of the call.
ShownBy(c, i) == IF i = -1 THEN crtcs[c].fb ELSE i
SetCrtc(c, i, mode, K) ==
    LET fb == ShownBy(c, i)
        route == [k \in KmsConnectors |-> [conns[k] EXCEPT !.crtc = IF k \in K THEN c ELSE IF @ = c THEN None ELSE @]]
    IN
    /\ IF mode = 0 THEN K = {} ELSE Find(fb, "fb") /\ FreeIds # {} /\ mode <= idr[fb].size /\ K # {}
    /\ conns' = route
    /\ crtcs' = Off([crtcs EXCEPT ![c].fb = IF mode = 0 THEN 0 ELSE fb, ![c].mode = mode], route)
    /\ UNCHANGED <<idr, planes, fbs, loaded, wrong>>
\* drm_mode_setplane; the driver may clip the picture away or refuse it.
SetPlane(p, c, i) ==
    /\ i = 0 \/ Find(i, "fb")
    /\ planes' = [planes EXCEPT ![p] = IF i = 0 THEN NoPlane ELSE [crtc |-> c, fb |-> i]]
    /\ UNCHANGED <<idr, crtcs, conns, fbs, loaded, wrong>>
\* drm_mode_page_flip_ioctl, when the driver takes the flip
PageFlip(c, i) ==
    /\ crtcs[c].fb # 0 /\ Find(i, "fb") /\ crtcs[c].mode <= idr[i].size
    /\ crtcs' = [crtcs EXCEPT ![c].fb = i]
    /\ UNCHANGED <<idr, planes, conns, fbs, loaded, wrong>>
\* drm_mode_gamma_set_ioctl copies one colour after the other into the crtc's
\* table, and gives it to the driver if no copy has failed.
GammaSet(c, v, copied) ==
    LET table == IF copied = 0 THEN crtcs[c].store ELSE IF copied = 1 THEN <<v, crtcs[c].store[2]>> ELSE <<v, v>> IN
    /\ crtcs' = [crtcs EXCEPT ![c].store = table, ![c].lut = IF copied = 2 THEN table ELSE @]
    /\ wrong' = IF copied = 1 /\ crtcs'[c].store # crtcs'[c].lut THEN wrong \cup {"gamma"} ELSE wrong
    /\ UNCHANGED <<idr, planes, conns, fbs, loaded>>
------------------------------------------------------------------------------
(* Connectors: what a probe finds, the modes users attach, properties *)
\* drm_mode_connector_update_edid_property: the old blob goes first; the
\* property is written only with the new one.
UpdateEdid(k, found, oom) ==
    LET rest == Put(idr, {conns[k].blob})
        free == {i \in Ids : rest[i] = Free}
        i == IF found /\ ~oom /\ free # {} THEN Min(free) ELSE 0
        lost == found /\ i = 0 /\ conns[k].edid # 0
    IN
    /\ idr' = IF i = 0 THEN rest ELSE [rest EXCEPT ![i] = [type |-> "blob", of |-> k, size |-> 0]]
    /\ conns' = [conns EXCEPT ![k].blob = i, ![k].edid = IF lost THEN @ ELSE i,
                              ![k].status = IF found THEN "connected" ELSE "disconnected"]
    /\ wrong' = IF lost THEN wrong \cup {"edid"} ELSE wrong
    /\ UNCHANGED <<crtcs, planes, fbs, loaded>>
\* drm_mode_attachmode_ioctl, drm_mode_detachmode_ioctl (the first that equals)
AttachMode(k, size) ==
    /\ conns[k].modes = <<>>
    /\ \E i \in Ids : /\ Get(i, [type |-> "mode", of |-> k, size |-> size])
                      /\ conns' = [conns EXCEPT ![k].modes = Append(@, i)]
    /\ UNCHANGED <<crtcs, planes, fbs, loaded, wrong>>
DetachMode(k, size) ==
    /\ \E n \in DOMAIN conns[k].modes :
          LET i == conns[k].modes[n] IN
          /\ idr[i].size = size
          /\ idr' = Put(idr, {i})
          /\ conns' = [conns EXCEPT ![k].modes = SelectSeq(@, LAMBDA m : m # i)]
    /\ UNCHANGED <<crtcs, planes, fbs, loaded, wrong>>
\* drm_mode_obj_set_property_ioctl: of a connector's own properties EDID cannot
\* be changed; DPMS is one of four values and reaches the driver first.
ChangeIsValid(value) == value \in 0..3
SetProperty(k, value) ==
    /\ ChangeIsValid(value)
    /\ conns' = [conns EXCEPT ![k].dpms = value]
    /\ UNCHANGED <<idr, crtcs, planes, fbs, loaded, wrong>>
\* drm_mode_config_reset, at resume
ConfigReset ==
    /\ conns' = [k \in KmsConnectors |-> [conns[k] EXCEPT !.status = "unknown"]]
    /\ UNCHANGED <<idr, crtcs, planes, fbs, loaded, wrong>>
\* drm_mode_config_cleanup, after the files have closed: connectors with their
\* modes, blobs, framebuffers, planes, crtcs.
ConfigCleanup ==
    LET modes == UNION {{conns[k].modes[n] : n \in DOMAIN conns[k].modes} : k \in KmsConnectors}
        lists == {i \in Ids : idr[i].type \in {"blob", "fb"}}
    IN
    /\ \A f \in KmsFiles : fbs[f] = {}
    /\ loaded' = FALSE
    /\ idr' = Put(idr, modes \cup lists)
    /\ crtcs' = [c \in KmsCrtcs |-> DarkCrtc] /\ planes' = [p \in Planes |-> NoPlane]
    /\ conns' = [k \in KmsConnectors |-> NewConn]
    /\ UNCHANGED <<fbs, wrong>>

\* A call that meets a failed check or a driver that refuses changes nothing.
KmsNext ==
    /\ loaded /\ wrong = {} /\ UNCHANGED focus
    /\ \/ \E f \in KmsFiles, size \in Sizes : AddFb(f, size)
       \/ \E f \in KmsFiles, keep \in SUBSET KmsCrtcs : FbRelease(f, keep) \/ (\E i \in Ids : RmFb(f, i, keep))
       \/ \E k \in KmsConnectors, found, oom \in BOOLEAN : UpdateEdid(k, found, oom)
       \/ /\ focus = "fbs"
          /\ \/ \E c \in KmsCrtcs, i \in Ids \cup {-1}, mode \in Sizes \cup {0}, K \in SUBSET KmsConnectors : SetCrtc(c, i, mode, K)
             \/ \E p \in Planes, c \in KmsCrtcs, i \in Ids \cup {0} : SetPlane(p, c, i)
             \/ \E c \in KmsCrtcs, i \in Ids : PageFlip(c, i)
       \/ /\ focus = "rest"
          /\ \/ \E c \in KmsCrtcs, v \in {0, 1}, copied \in 0..2 : GammaSet(c, v, copied)
             \/ \E k \in KmsConnectors, size \in Sizes : AttachMode(k, size) \/ DetachMode(k, size)
             \/ \E k \in KmsConnectors, value \in {0, 3, 4} : SetProperty(k, value)
             \/ ConfigReset
       \/ ConfigCleanup
KmsSpec == KmsInit /\ [][KmsNext]_kmsVars
------------------------------------------------------------------------------
KmsTypeOK ==
    /\ idr \in [Ids -> [type : {"none", "fb", "blob", "mode"}, of : KmsFiles \cup KmsConnectors \cup {None}, size : 0..2]]
    /\ \A c \in KmsCrtcs : crtcs[c].fb \in Ids \cup {0} /\ crtcs[c].mode \in 0..2
    /\ \A p \in Planes : planes[p] \in [crtc : KmsCrtcs \cup {None}, fb : Ids \cup {0}]
    /\ fbs \in [KmsFiles -> SUBSET Ids] /\ loaded \in BOOLEAN

\* A framebuffer that a crtc or a plane shows exists, and a crtc's is as large
\* as its mode, whichever ioctl chose it and whatever became of its id.
Shows ==
    /\ \A c \in KmsCrtcs : crtcs[c].fb # 0 => Find(crtcs[c].fb, "fb") /\ crtcs[c].mode \in 1..idr[crtcs[c].fb].size
    /\ \A p \in Planes : planes[p].fb # 0 => Find(planes[p].fb, "fb")
\* A file lists the framebuffers it made, and only it.
FbsOwned == \A i \in Ids, f \in KmsFiles : i \in fbs[f] <=> Find(i, "fb") /\ idr[i].of = f
\* Every other object has its one owner: a connector's blob, or a mode it lists.
NoOrphans ==
    \A i \in Ids, k \in KmsConnectors :
        /\ (Find(i, "blob") /\ idr[i].of = k) <=> conns[k].blob = i
        /\ (Find(i, "mode") /\ idr[i].of = k) <=> \E n \in DOMAIN conns[k].modes : conns[k].modes[n] = i
\* The EDID a user reads from a connector's property is that connector's.
EdidOwn == \A k \in KmsConnectors : conns[k].edid = conns[k].blob
\* The table a user reads back is the one the hardware has.
GammaShown == \A c \in KmsCrtcs : crtcs[c].store = crtcs[c].lut
\* All of it while nothing has failed that the code leaves half done.
KmsSafe == /\ FbsOwned /\ NoOrphans
           /\ wrong = {} => Shows /\ EdidOwn /\ GammaShown
           /\ ~loaded => FreeIds = Ids
=============================================================================
