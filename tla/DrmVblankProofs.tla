--------------------------- MODULE DrmVblankProofs ---------------------------
(***************************************************************************)
(* Theorems about DrmVblank, for every number of crtcs, files and events,  *)
(* every counter width and every bound.                                    *)
(***************************************************************************)
EXTENDS DrmVblank, FiniteSetTheorems, TLAPS

\* TypeOK without the sign of refcount and the upper bound of space, which
\* only RefAccounting and SpaceAccounting can show.
Types ==
    /\ frame \in [Crtcs -> Nat] /\ irqPending \in [Crtcs -> BOOLEAN]
    /\ count \in [Crtcs -> Counts]
    /\ last \in [Crtcs -> Nat]
    /\ time \in [Crtcs -> [0 .. RB - 1 -> Nat]]
    /\ refcount \in [Crtcs -> Int]
    /\ enabled \in [Crtcs -> BOOLEAN] /\ flip \in [Crtcs -> BOOLEAN]
    /\ inmodeset \in [Crtcs -> {0, 1, 3}]
    /\ allowed \in BOOLEAN /\ irqEnabled \in BOOLEAN /\ uninst \in BOOLEAN
    /\ timer \in BOOLEAN /\ offdelay \in BOOLEAN
    /\ scan \in 0 .. NumCrtcs /\ hdl \in 0 .. NumCrtcs /\ off \in 0 .. NumCrtcs
    /\ ev \in [Events -> [st : {"free", "new", "queued", "ready"}, pipe : Crtcs,
                          file : Files \cup {NoFile}, seq : Counts]]
    /\ space \in [Files -> Nat]
    /\ pc \in [Files -> {"idle", "get", "check", "slpq", "sleep", "put", "queue",
                         "commit"}]
    /\ req \in [Files -> [crtc : Crtcs, seq : Counts, nextonmiss : BOOLEAN]]
    /\ offs \in Nat /\ uninsts \in Nat

LEMMA ModCount == ASSUME NEW n \in Int PROVE n % CountMod \in Counts
  BY VblankAssumption DEF VblankAssumption, Counts

LEMMA ModHw == ASSUME NEW n \in Nat PROVE n % HwMod \in Nat
  BY VblankAssumption DEF VblankAssumption

LEMMA ModRB == ASSUME NEW n \in Int PROVE n % RB \in 0 .. RB - 1
  BY DEF RB

LEMMA SendTypes ==
    ASSUME Types, NEW S \in SUBSET Events, Send(S)
    PROVE  ev' \in [Events -> [st : {"free", "new", "queued", "ready"}, pipe : Crtcs,
                          file : Files \cup {NoFile}, seq : Counts]]
  BY VblankAssumption DEF VblankAssumption, Types, Send, ReadyEvent, Event, Crtcs, Counts

LEMMA UpdateTypes ==
    ASSUME Types, NEW c \in Crtcs, UpdateCount(c)
    PROVE  /\ count' \in [Crtcs -> Counts] /\ last' \in [Crtcs -> Nat]
           /\ time' \in [Crtcs -> [0 .. RB - 1 -> Nat]]
  <1> DEFINE sum == count[c] + (HwCounter(c) - last[c] +
                 (IF HwCounter(c) < last[c] THEN MaxVblankCount ELSE 0))
             cnt == sum % CountMod
  <1>1. frame[c] \in Nat /\ last[c] \in Nat /\ count[c] \in Counts
    BY DEF Types
  <1>2. HwCounter(c) \in Nat
    BY <1>1, ModHw DEF HwCounter
  <1>3. cnt \in Counts
    <2>1. sum \in Int
      BY <1>1, <1>2, VblankAssumption DEF VblankAssumption, Counts
    <2> HIDE DEF sum
    <2> QED BY <2>1, ModCount
  <1>4. cnt % RB \in 0 .. RB - 1
    BY <1>3, ModRB DEF Counts
  <1> HIDE DEF cnt
  <1>5. /\ count' = [count EXCEPT ![c] = cnt] /\ last' = last
        /\ time' = IF Precise THEN [time EXCEPT ![c][cnt % RB] = frame[c]] ELSE time
    BY DEF UpdateCount, cnt
  <1> QED BY <1>1, <1>3, <1>4, <1>5 DEF Types

LEMMA CrtcsFinite == IsFiniteSet(Crtcs) /\ 0 \in Crtcs /\ NoCrtc \in Nat /\ NoCrtc \notin Crtcs
  BY VblankAssumption, FS_Interval DEF VblankAssumption, Crtcs, NoCrtc

LEMMA NextCount == ASSUME Types, NEW c \in Crtcs PROVE (count[c] + 1) % CountMod \in Counts
  <1>1. count[c] + 1 \in Int
    BY DEF Types, Counts
  <1> QED BY <1>1, ModCount

LEMMA DisableTypes ==
    ASSUME Types, NEW c \in Crtcs, DisableAndSave(c)
    PROVE  /\ count' \in [Crtcs -> Counts] /\ last' \in [Crtcs -> Nat]
           /\ time' \in [Crtcs -> [0 .. RB - 1 -> Nat]]
           /\ enabled' \in [Crtcs -> BOOLEAN]
  <1>1. (count[c] + 1) % CountMod \in Counts
    BY NextCount
  <1>2. HwCounter(c) \in Nat
    BY ModHw DEF Types, HwCounter
  <1> QED BY <1>1, <1>2 DEF DisableAndSave, Types

LEMMA GetTypes ==
    ASSUME Types, NEW c \in Crtcs, GetOk(c)
    PROVE  /\ count' \in [Crtcs -> Counts] /\ last' \in [Crtcs -> Nat]
           /\ time' \in [Crtcs -> [0 .. RB - 1 -> Nat]]
           /\ enabled' \in [Crtcs -> BOOLEAN]
           /\ refcount' \in [Crtcs -> Int]
  <1>1. refcount' \in [Crtcs -> Int]
    BY DEF GetOk, Types
  <1>4. enabled' \in [Crtcs -> BOOLEAN]
    <2>1. enabled' = [enabled EXCEPT ![c] = TRUE] \/ enabled' = enabled
      BY Zenon DEF GetOk
    <2> QED BY <2>1 DEF Types
  <1>2. CASE UpdateCount(c)
    BY <1>1, <1>2, <1>4, UpdateTypes
  <1>3. CASE UNCHANGED countVars
    BY <1>1, <1>3, <1>4 DEF Types, countVars
  <1> QED BY <1>2, <1>3 DEF GetOk

LEMMA PutTypes ==
    ASSUME Types, NEW c \in Crtcs, NEW n \in Int, Put(c, n)
    PROVE  refcount' \in [Crtcs -> Int] /\ timer' \in BOOLEAN
  BY DEF Put, Types

LEMMA TargetType ==
    ASSUME NEW r \in [crtc : Crtcs, seq : Counts, nextonmiss : BOOLEAN], NEW n \in Counts
    PROVE  Target(r, n) \in Counts
  BY ModCount DEF Target, Counts

LEMMA ZeroReq == NoReq \in [crtc : Crtcs, seq : Counts, nextonmiss : BOOLEAN]
  BY VblankAssumption DEF VblankAssumption, NoReq, Request, Crtcs, Counts

LEMMA FreeType == FreeEvent \in [st : {"free", "new", "queued", "ready"}, pipe : Crtcs,
                                 file : Files \cup {NoFile}, seq : Counts]
  BY VblankAssumption DEF VblankAssumption, FreeEvent, Event, Crtcs, Counts

LEMMA QueuedFinite ==
    ASSUME NEW c PROVE IsFiniteSet(Queued(c)) /\ Queued(c) \subseteq Events
  BY VblankAssumption, FS_Subset DEF VblankAssumption, Queued

LEMMA TypesStep == Types /\ [Next]_vars => Types'
  <1> SUFFICES ASSUME Types, [Next]_vars PROVE Types'
    OBVIOUS
  <1> USE CrtcsFinite
  <1>1. ASSUME NEW c \in Crtcs, Vblank(c) PROVE Types'
    BY <1>1 DEF Vblank, Types, hwVars, countVars, devVars, timerVars, lockVars,
         eventVars, clientVars, boundVars
  <1>2. ASSUME NEW c \in Crtcs, HandleVblank(c) PROVE Types'
    <2>1. (count[c] + 1) % CountMod \in Counts
      BY NextCount
    <2>2. ((count[c] + 1) % CountMod) % RB \in 0 .. RB - 1
      BY <2>1, ModRB DEF Counts
    <2>3. pc' \in [Files -> {"idle", "get", "check", "slpq", "sleep", "put", "queue",
                            "commit"}]
      BY <1>2 DEF HandleVblank, Types, Wake
    <2>4. /\ count' \in [Crtcs -> Counts] /\ last' \in [Crtcs -> Nat]
          /\ time' \in [Crtcs -> [0 .. RB - 1 -> Nat]]
      <3>1. CASE UNCHANGED countVars
        BY <3>1 DEF Types, countVars
      <3>2. CASE LET cnt == (count[c] + 1) % CountMod
                 IN  /\ count' = [count EXCEPT ![c] = cnt]
                     /\ time' = [time EXCEPT ![c][cnt % RB] = frame[c]]
                     /\ last' = last
        BY <3>2, <2>1, <2>2 DEF Types
      <3> QED BY <1>2, <3>1, <3>2 DEF HandleVblank
    <2>5. hdl' \in 0 .. NumCrtcs
      <3>1. c \in 0 .. NumCrtcs
        BY VblankAssumption DEF Crtcs, VblankAssumption
      <3>2. hdl' = hdl \/ hdl' = c
        BY <1>2 DEF HandleVblank
      <3> QED BY <3>1, <3>2 DEF Types
    <2> QED BY <1>2, <2>3, <2>4, <2>5 DEF HandleVblank, Types, hwVars, countVars,
         devVars, timerVars, lockVars, eventVars, clientVars, boundVars
  <1>3. CASE HandleVblankEvents
    <2>1. PICK due \in SUBSET Queued(hdl) :
             Send(due) /\ Put(hdl, Cardinality(due))
      BY <1>3 DEF HandleVblankEvents
    <2>2. Cardinality(due) \in Int /\ due \in SUBSET Events
      BY <2>1, QueuedFinite, FS_Subset, FS_CardinalityType
    <2>3. hdl \in Crtcs
      BY <1>3 DEF HandleVblankEvents, Types, Crtcs, NoCrtc
    <2>4. refcount' \in [Crtcs -> Int] /\ timer' \in BOOLEAN
      BY <2>1, <2>2, <2>3, PutTypes
    <2>5. ev' \in [Events -> [st : {"free", "new", "queued", "ready"}, pipe : Crtcs,
                             file : Files \cup {NoFile}, seq : Counts]]
      BY <2>1, <2>2, SendTypes
    <2>6. hdl' \in 0 .. NumCrtcs /\ space' \in [Files -> Nat] /\ scan' \in 0 .. NumCrtcs
      BY <1>3, VblankAssumption DEF HandleVblankEvents, Types, NoCrtc, VblankAssumption
    <2> QED BY <1>3, <2>4, <2>5, <2>6 DEF HandleVblankEvents, Types, hwVars,
         countVars, devVars, lockVars, clientVars, boundVars
  <1>4. CASE TimerFires
    <2>1. scan' \in 0 .. NumCrtcs
      <3>1. scan' = 0 \/ scan' = NoCrtc
        BY <1>4 DEF TimerFires
      <3> QED BY <3>1, VblankAssumption DEF NoCrtc, VblankAssumption
    <2> QED BY <1>4, <2>1 DEF TimerFires, Types, hwVars, countVars, devVars, timerVars,
         lockVars, eventVars, clientVars, boundVars
  <1>5. CASE DisableFn
    <2>1. scan \in Crtcs /\ scan + 1 \in 0 .. NumCrtcs
      BY <1>5, VblankAssumption DEF DisableFn, Types, Crtcs, NoCrtc, VblankAssumption
    <2>2. CASE DisableAndSave(scan)
      BY <1>5, <2>1, <2>2, DisableTypes DEF DisableFn, Types, hwVars, countVars,
           devVars, timerVars, lockVars, eventVars, clientVars, boundVars
    <2>3. CASE UNCHANGED <<enabled, countVars>>
      BY <1>5, <2>1, <2>3 DEF DisableFn, Types, hwVars, countVars, devVars, timerVars,
           lockVars, eventVars, clientVars, boundVars
    <2> QED BY <1>5, <2>2, <2>3 DEF DisableFn
  <1>6. ASSUME NEW c \in Crtcs, VblankOff(c) PROVE Types'
    <2>1. off' \in 0 .. NumCrtcs
      BY <1>6, VblankAssumption DEF VblankOff, Crtcs, VblankAssumption
    <2>2. offs' \in Nat
      BY <1>6 DEF VblankOff, Types
    <2> QED BY <1>6, <2>1, <2>2, DisableTypes DEF VblankOff, Types, hwVars, countVars, devVars,
         timerVars, lockVars, eventVars, clientVars, boundVars
  <1>7. CASE VblankOffSends
    <2>1. Cardinality(Queued(off)) \in Int /\ Queued(off) \in SUBSET Events
      BY QueuedFinite, FS_CardinalityType
    <2>2. off \in Crtcs
      BY <1>7 DEF VblankOffSends, Types, Crtcs, NoCrtc
    <2>3. refcount' \in [Crtcs -> Int] /\ timer' \in BOOLEAN
      BY <1>7, <2>1, <2>2, PutTypes DEF VblankOffSends
    <2>4. ev' \in [Events -> [st : {"free", "new", "queued", "ready"}, pipe : Crtcs,
                             file : Files \cup {NoFile}, seq : Counts]]
      BY <1>7, <2>1, SendTypes DEF VblankOffSends
    <2>5. pc' \in [Files -> {"idle", "get", "check", "slpq", "sleep", "put", "queue",
                            "commit"}]
      BY <1>7 DEF VblankOffSends, Types, Wake
    <2> QED BY <1>7, <2>3, <2>4, <2>5 DEF VblankOffSends, Types, NoCrtc, hwVars,
         countVars, devVars, timerVars, lockVars, eventVars, clientVars, boundVars
  <1>8. ASSUME NEW c \in Crtcs, PreModeset(c) PROVE Types'
    <2>1. CASE GetOk(c)
      BY <1>8, <2>1, GetTypes DEF PreModeset, Types, hwVars, countVars, devVars,
           timerVars, lockVars, eventVars, clientVars, boundVars
    <2>2. CASE GetFails(c)
      BY <1>8, <2>2 DEF PreModeset, GetFails, Types, hwVars, countVars, devVars,
           timerVars, lockVars, eventVars, clientVars, boundVars
    <2> QED BY <1>8, <2>1, <2>2 DEF PreModeset
  <1>9. ASSUME NEW c \in Crtcs, PostModeset(c) PROVE Types'
    <2>1. refcount' \in [Crtcs -> Int] /\ timer' \in BOOLEAN
      <3>1. CASE Put(c, 1)
        BY <3>1, PutTypes
      <3>2. CASE UNCHANGED <<refcount, timer>>
        BY <3>2 DEF Types
      <3> QED BY <1>9, <3>1, <3>2 DEF PostModeset
    <2> QED BY <1>9, <2>1 DEF PostModeset, Types, hwVars, countVars, devVars, timerVars,
         lockVars, eventVars, clientVars, boundVars
  <1>10. ASSUME NEW c \in Crtcs, FlipGet(c) PROVE Types'
    BY <1>10, GetTypes DEF FlipGet, Types, hwVars, countVars, devVars, timerVars,
         lockVars, eventVars, clientVars, boundVars
  <1>11. ASSUME NEW c \in Crtcs, FlipPut(c) PROVE Types'
    <2>1. refcount' \in [Crtcs -> Int] /\ timer' \in BOOLEAN
      BY <1>11, PutTypes DEF FlipPut
    <2> QED BY <1>11, <2>1 DEF FlipPut, Types, hwVars, countVars, devVars, timerVars, lockVars,
         eventVars, clientVars, boundVars
  <1>12. CASE IrqUninstall
    <2>1. uninsts' \in Nat
      BY <1>12 DEF IrqUninstall, Types
    <2> QED BY <1>12, <2>1 DEF IrqUninstall, Types, hwVars, countVars, devVars, timerVars, lockVars,
         eventVars, clientVars, boundVars
  <1>13. CASE IrqUninstallOff
    <2>1. \A c \in Crtcs : HwCounter(c) \in Nat
      BY ModHw DEF Types, HwCounter
    <2>2. pc' \in [Files -> {"idle", "get", "check", "slpq", "sleep", "put", "queue",
                            "commit"}]
      BY <1>13 DEF IrqUninstallOff, Types, Wake
    <2> QED BY <1>13, <2>1, <2>2 DEF IrqUninstallOff, Types, hwVars, countVars, devVars,
         timerVars, lockVars, eventVars, clientVars, boundVars
  <1>14. CASE IrqInstall \/ SetOffDelay
    <2>1. offdelay' \in BOOLEAN
      BY <1>14, VblankAssumption DEF VblankAssumption, IrqInstall, SetOffDelay, Types
    <2> QED BY <1>14, <2>1 DEF IrqInstall, SetOffDelay, Types, hwVars, countVars, devVars,
         timerVars, lockVars, eventVars, clientVars, boundVars
  <1>15. ASSUME NEW f \in Files, WaitVblank(f) PROVE Types'
    BY <1>15 DEF WaitVblank, Goto, Types, hwVars, countVars, devVars, timerVars,
         lockVars, eventVars, clientVars, boundVars
  <1>16. ASSUME NEW f \in Files, WaitGet(f) PROVE Types'
    <2>1. PICK c \in Crtcs :
             \/ /\ GetOk(c)
                /\ \E s \in Counts, next \in BOOLEAN :
                     LET r == Request(c, s, next)
                     IN  \/ Goto(f, "queue") /\ req' = [req EXCEPT ![f] = r]
                         \/ /\ Goto(f, "check")
                            /\ req' = [req EXCEPT ![f] =
                                         Request(c, Target(r, count'[c]), FALSE)]
             \/ GetFails(c) /\ Return(f)
      BY <1>16 DEF WaitGet
    <2>2. ASSUME GetOk(c), NEW s \in Counts, NEW next \in BOOLEAN,
                 LET r == Request(c, s, next)
                 IN  \/ Goto(f, "queue") /\ req' = [req EXCEPT ![f] = r]
                     \/ /\ Goto(f, "check")
                        /\ req' = [req EXCEPT ![f] =
                                     Request(c, Target(r, count'[c]), FALSE)]
          PROVE  Types'
      <3> DEFINE r == Request(c, s, next)
                 t == Target(r, count'[c])
      <3>1. count'[c] \in Counts
        BY <2>2, GetTypes
      <3>2. r \in [crtc : Crtcs, seq : Counts, nextonmiss : BOOLEAN]
        BY DEF Request
      <3>3. t \in Counts
        BY <3>1, <3>2, TargetType
      <3>4. /\ \/ req' = [req EXCEPT ![f] = r]
               \/ req' = [req EXCEPT ![f] = Request(c, t, FALSE)]
            /\ Goto(f, "queue") \/ Goto(f, "check")
        BY <2>2
      <3> HIDE DEF r, t
      <3>5. req' \in [Files -> [crtc : Crtcs, seq : Counts, nextonmiss : BOOLEAN]]
        <4>1. Request(c, t, FALSE) \in [crtc : Crtcs, seq : Counts, nextonmiss : BOOLEAN]
          BY <3>3 DEF Request
        <4> QED BY <3>2, <3>4, <4>1 DEF Types
      <3>6. pc' \in [Files -> {"idle", "get", "check", "slpq", "sleep", "put", "queue",
                              "commit"}]
        BY <3>4 DEF Types, Goto
      <3> QED BY <1>16, <2>2, <3>5, <3>6, GetTypes DEF WaitGet, Types, hwVars, countVars,
             devVars, timerVars, lockVars, eventVars, clientVars, boundVars
    <2>3. CASE GetFails(c) /\ Return(f)
      BY <1>16, <2>3, ZeroReq DEF WaitGet, GetFails, Return, Goto, Types, hwVars, countVars,
         devVars, timerVars, lockVars, eventVars, clientVars, boundVars
    <2> QED BY <2>1, <2>2, <2>3
  <1>17. ASSUME NEW f \in Files, WaitCheck(f) PROVE Types'
    BY <1>17 DEF WaitCheck, Goto, Types, hwVars, countVars, devVars, timerVars,
         lockVars, eventVars, clientVars, boundVars
  <1>18. ASSUME NEW f \in Files, WaitSleep(f) PROVE Types'
    BY <1>18 DEF WaitSleep, Goto, Types, hwVars, countVars, devVars, timerVars,
         lockVars, eventVars, clientVars, boundVars
  <1>19. ASSUME NEW f \in Files, WaitTimeout(f) PROVE Types'
    BY <1>19 DEF WaitTimeout, Goto, Types, hwVars, countVars, devVars, timerVars,
         lockVars, eventVars, clientVars, boundVars
  <1>20. ASSUME NEW f \in Files, WaitPut(f) PROVE Types'
    <2>1. refcount' \in [Crtcs -> Int] /\ timer' \in BOOLEAN
      <3>1. req[f].crtc \in Crtcs
        BY DEF Types
      <3> QED BY <1>20, <3>1, PutTypes DEF WaitPut
    <2> QED BY <1>20, <2>1, ZeroReq DEF WaitPut, Return, Goto, Types, hwVars, countVars, devVars,
         timerVars, lockVars, eventVars, clientVars, boundVars
  <1>21. ASSUME NEW f \in Files, QueueRead(f) PROVE Types'
    <2>1. CASE Goto(f, "put") /\ UNCHANGED <<eventVars, req>>
      BY <1>21, <2>1 DEF QueueRead, Goto, Types, hwVars, countVars, devVars, timerVars,
           lockVars, eventVars, clientVars, boundVars
    <2>2. CASE /\ \E e \in Events : ev' = [ev EXCEPT ![e] =
                     Event("new", req[f].crtc, f, Target(req[f], count[req[f].crtc]))]
               /\ space[f] > 0 /\ space' = [space EXCEPT ![f] = @ - 1]
               /\ req' = [req EXCEPT ![f] = Request(req[f].crtc, count[req[f].crtc], FALSE)]
               /\ Goto(f, "commit")
      <3>1. count[req[f].crtc] \in Counts
        BY DEF Types
      <3>2. Target(req[f], count[req[f].crtc]) \in Counts
        BY <3>1, TargetType DEF Types
      <3>3. Event("new", req[f].crtc, f, Target(req[f], count[req[f].crtc])) \in
               [st : {"free", "new", "queued", "ready"}, pipe : Crtcs,
                file : Files \cup {NoFile}, seq : Counts]
        BY <3>2 DEF Event, Types
      <3>4. ev' \in [Events -> [st : {"free", "new", "queued", "ready"}, pipe : Crtcs,
                               file : Files \cup {NoFile}, seq : Counts]]
        BY <2>2, <3>3 DEF Types
      <3>5. req' \in [Files -> [crtc : Crtcs, seq : Counts, nextonmiss : BOOLEAN]]
        BY <2>2, <3>1 DEF Types, Request
      <3>6. space' \in [Files -> Nat]
        BY <2>2 DEF Types
      <3> QED BY <3>6, <1>21, <2>2, <3>4, <3>5 DEF QueueRead, Goto, Types, hwVars,
           countVars, devVars, timerVars, lockVars, eventVars, clientVars, boundVars
    <2> QED BY <1>21, <2>1, <2>2 DEF QueueRead
  <1>22. ASSUME NEW f \in Files, QueueCommit(f) PROVE Types'
    <2>1. PICK e \in Events :
             /\ ev[e].st = "new" /\ ev[e].file = f
             /\ IF Passed(req[f].seq, ev[e].seq)
                THEN Send({e}) /\ Put(req[f].crtc, 1)
                ELSE /\ ev' = [ev EXCEPT ![e] = Event("queued", ev[e].pipe, f, ev[e].seq)]
                     /\ UNCHANGED <<refcount, timer>>
      BY <1>22 DEF QueueCommit
    <2>2. CASE Send({e}) /\ Put(req[f].crtc, 1)
      <3>1. ev' \in [Events -> [st : {"free", "new", "queued", "ready"}, pipe : Crtcs,
                               file : Files \cup {NoFile}, seq : Counts]]
        BY <2>2, SendTypes
      <3>2. refcount' \in [Crtcs -> Int] /\ timer' \in BOOLEAN
        <4>1. req[f].crtc \in Crtcs
          BY DEF Types
        <4> QED BY <2>2, <4>1, PutTypes
      <3> QED BY <1>22, <3>1, <3>2, ZeroReq DEF QueueCommit, Return, Goto, Types,
           hwVars, countVars, devVars, timerVars, lockVars, eventVars, clientVars,
           boundVars
    <2>3. CASE /\ ev' = [ev EXCEPT ![e] = Event("queued", ev[e].pipe, f, ev[e].seq)]
               /\ UNCHANGED <<refcount, timer>>
      <3>1. ev' \in [Events -> [st : {"free", "new", "queued", "ready"}, pipe : Crtcs,
                               file : Files \cup {NoFile}, seq : Counts]]
        <4>1. Event("queued", ev[e].pipe, f, ev[e].seq) \in
                [st : {"free", "new", "queued", "ready"}, pipe : Crtcs,
                 file : Files \cup {NoFile}, seq : Counts]
          BY DEF Types, Event
        <4> QED BY <2>3, <4>1 DEF Types
      <3> QED BY <1>22, <2>3, <3>1, ZeroReq DEF QueueCommit, Return, Goto, Types, hwVars, countVars,
           devVars, timerVars, lockVars, eventVars, clientVars, boundVars
    <2> QED BY <2>1, <2>2, <2>3
  <1>23. ASSUME NEW f \in Files, Read(f) PROVE Types'
    <2>1. ev' \in [Events -> [st : {"free", "new", "queued", "ready"}, pipe : Crtcs,
                             file : Files \cup {NoFile}, seq : Counts]]
      <3>1. PICK e \in Events : ev' = [ev EXCEPT ![e] = FreeEvent]
        BY <1>23 DEF Read
      <3> QED BY <3>1, FreeType DEF Types
    <2>2. space' \in [Files -> Nat]
      BY <1>23 DEF Read, Types
    <2> QED BY <1>23, <2>1, <2>2 DEF Read, Types, hwVars, countVars, devVars, timerVars, lockVars,
         eventVars, clientVars, boundVars
  <1>24. ASSUME NEW f \in Files, Close(f) PROVE Types'
    <2>1. \A c \in Crtcs : Cardinality({e \in Queued(c) : ev[e].file = f}) \in Int
      BY QueuedFinite, FS_Subset, FS_CardinalityType
    <2>2. ev' \in [Events -> [st : {"free", "new", "queued", "ready"}, pipe : Crtcs,
                             file : Files \cup {NoFile}, seq : Counts]]
      BY <1>24, FreeType DEF Close, Types
    <2> DEFINE n == [c \in Crtcs |-> Cardinality({e \in Queued(c) : ev[e].file = f})]
    <2>6. n \in [Crtcs -> Int] /\ refcount' = [c \in Crtcs |-> refcount[c] - n[c]]
      BY <1>24, <2>1, Zenon DEF Close
    <2> HIDE DEF n
    <2>3. refcount' \in [Crtcs -> Int]
      BY <2>6 DEF Types
    <2>4. timer' \in BOOLEAN
      BY <1>24, Zenon DEF Close, Types
    <2>5. space' \in [Files -> Nat]
      BY <1>24, VblankAssumption DEF Close, Types, VblankAssumption
    <2> QED BY <1>24, <2>2, <2>3, <2>4, <2>5 DEF Close, Types, hwVars, countVars, devVars, timerVars, lockVars, eventVars,
         clientVars, boundVars
  <1>25. CASE UNCHANGED vars
    BY <1>25 DEF vars, Types, hwVars, countVars, devVars, timerVars, lockVars,
         eventVars, clientVars, boundVars
  <1> QED
    BY <1>1, <1>2, <1>3, <1>4, <1>5, <1>6, <1>7, <1>8, <1>9, <1>10, <1>11, <1>12, <1>13,
       <1>14, <1>15, <1>16, <1>17, <1>18, <1>19, <1>20, <1>21, <1>22, <1>23, <1>24, <1>25
       DEF Next, Hardware, Kernel, Device, Client, Wait, Queue

-----------------------------------------------------------------------------
(* The strengthening: what event_lock protects between QueueRead and         *)
(* QueueCommit.                                                              *)

\* An event under construction belongs to a thread that holds event_lock, is
\* its only one, and is for the crtc whose reference the thread holds.
NewEvents ==
    \A e \in Events : ev[e].st = "new" =>
        LET f == ev[e].file
        IN  /\ f \in Files /\ pc[f] = "commit" /\ ev[e].pipe = req[f].crtc
            /\ \A d \in Events : ev[d].st = "new" /\ ev[d].file = f => d = e

\* The count a thread has read under event_lock is stale only if the handler
\* or drm_vblank_off that has changed it has yet to send its events.
CommitCount ==
    \A f \in Files : pc[f] = "commit" =>
        LET c == req[f].crtc IN req[f].seq = count[c] \/ hdl = c \/ off = c

\* A thread that is about to sleep has seen a count that is still current: it
\* holds vblank_time_lock.
SleepCount ==
    \A f \in Files : pc[f] = "slpq" => ~Passed(count[req[f].crtc], req[f].seq)

\* The actions that change neither an event nor a client.
Quiet ==
    \/ \E c \in Crtcs : \/ Vblank(c) \/ VblankOff(c) \/ PreModeset(c) \/ PostModeset(c)
                        \/ FlipGet(c) \/ FlipPut(c)
    \/ TimerFires \/ DisableFn \/ IrqUninstall \/ IrqInstall \/ SetOffDelay
    \/ UNCHANGED vars

LEMMA QuietSteps == Quiet => UNCHANGED <<ev, space, pc, req>>
  BY DEF Quiet, Vblank, VblankOff, PreModeset, PostModeset, FlipGet, FlipPut, TimerFires,
     DisableFn, IrqUninstall, IrqInstall, SetOffDelay, vars, eventVars, clientVars

LEMMA OtherSteps ==
    ASSUME [Next]_vars
    PROVE  \/ Quiet
           \/ \E c \in Crtcs : HandleVblank(c)
           \/ HandleVblankEvents \/ VblankOffSends \/ IrqUninstallOff
           \/ \E f \in Files :
                \/ WaitVblank(f) \/ WaitGet(f) \/ WaitCheck(f) \/ WaitSleep(f)
                \/ WaitTimeout(f) \/ WaitPut(f) \/ QueueRead(f) \/ QueueCommit(f)
                \/ Read(f) \/ Close(f)
  BY Zenon DEF Quiet, Next, Hardware, Kernel, Device, Client, Wait, Queue

LEMMA NewEventsStep ==
    ASSUME Types, NewEvents, [Next]_vars PROVE NewEvents'
  <1>1. CASE Quiet
    BY <1>1, QuietSteps DEF NewEvents
  <1>2. ASSUME NEW S, Wake(S), req' = req,
               \A e \in Events : ev'[e] = ev[e] \/ ev'[e].st # "new"
        PROVE  NewEvents'
    BY <1>2 DEF NewEvents, Wake, Types
  <1>3. ASSUME NEW f \in Files, pc[f] # "commit", NEW l, Goto(f, l),
               \A g \in Files : g # f => req'[g] = req[g],
               \A e \in Events : ev'[e] = ev[e]
        PROVE  NewEvents'
    <2>1. \A e \in Events : ev[e].st = "new" => ev[e].file # f
      BY <1>3 DEF NewEvents
    <2>2. \A g \in Files : g # f => pc'[g] = pc[g]
      BY <1>3 DEF Goto, Types
    <2> QED BY <1>3, <2>1, <2>2 DEF NewEvents
  <1>4. ASSUME \A e \in Events : ev'[e] = ev[e] \/ ev'[e].st # "new",
               pc' = pc, req' = req
        PROVE  NewEvents'
    BY <1>4 DEF NewEvents
  <1>5. ASSUME NEW S, Send(S), NEW e \in Events PROVE ev'[e] = ev[e] \/ ev'[e].st # "new"
    BY <1>5 DEF Send, ReadyEvent, Event
  <1>6. ASSUME NEW c \in Crtcs, HandleVblank(c) PROVE NewEvents'
    <2>1. CASE pc' = pc
      BY <1>6, <2>1, <1>4 DEF HandleVblank, eventVars
    <2>2. CASE Wake(Waiting({c}))
      BY <1>6, <2>2, <1>2 DEF HandleVblank, eventVars
    <2> QED BY <1>6, <2>1, <2>2 DEF HandleVblank
  <1>7. CASE HandleVblankEvents
    BY <1>7, <1>4, <1>5 DEF HandleVblankEvents, clientVars
  <1>8. CASE VblankOffSends
    BY <1>8, <1>2, <1>5 DEF VblankOffSends
  <1>9. CASE IrqUninstallOff
    BY <1>9, <1>2 DEF IrqUninstallOff, eventVars
  <1>10. ASSUME NEW f \in Files,
               WaitVblank(f) \/ WaitCheck(f) \/ WaitSleep(f) \/ WaitTimeout(f)
        PROVE  NewEvents'
    BY <1>10, <1>3 DEF WaitVblank, WaitCheck, WaitSleep, WaitTimeout, eventVars
  <1>11. ASSUME NEW f \in Files, WaitGet(f) PROVE NewEvents'
    <2>1. \A g \in Files : g # f => req'[g] = req[g]
      BY <1>11 DEF WaitGet, Return, Types
    <2>2. pc[f] # "commit" /\ \E l : Goto(f, l)
      BY <1>11 DEF WaitGet, Return
    <2> QED BY <1>11, <2>1, <2>2, <1>3 DEF WaitGet, eventVars
  <1>12. ASSUME NEW f \in Files, WaitPut(f) PROVE NewEvents'
    BY <1>12, <1>3 DEF WaitPut, Return, eventVars, Types
  <1>13. ASSUME NEW f \in Files, QueueRead(f) PROVE NewEvents'
    <2>1. CASE Goto(f, "put") /\ UNCHANGED <<eventVars, req>>
      BY <1>13, <2>1, <1>3 DEF QueueRead, eventVars
    <2>2. ASSUME NEW e \in Events, ev' = [ev EXCEPT ![e] =
                     Event("new", req[f].crtc, f, Target(req[f], count[req[f].crtc]))],
                 req' = [req EXCEPT ![f] = Request(req[f].crtc, count[req[f].crtc], FALSE)],
                 Goto(f, "commit"), pc[f] # "commit"
          PROVE  NewEvents'
      <3>1. \A d \in Events : d # e => ev'[d] = ev[d]
        BY <2>2 DEF Types
      <3>2. ev'[e].st = "new" /\ ev'[e].pipe = req[f].crtc /\ ev'[e].file = f
        BY <2>2 DEF Types, Event
      <3>3. req'[f].crtc = req[f].crtc /\ pc'[f] = "commit"
        BY <2>2 DEF Types, Request, Goto
      <3>4. \A g \in Files : g # f => req'[g] = req[g] /\ pc'[g] = pc[g]
        BY <2>2 DEF Types, Goto
      <3>5. \A d \in Events : ev[d].st = "new" => ev[d].file # f
        BY <2>2 DEF NewEvents
      <3> QED BY <3>1, <3>2, <3>3, <3>4, <3>5 DEF NewEvents
    <2> QED BY <1>13, <2>1, <2>2 DEF QueueRead
  <1>14. ASSUME NEW f \in Files, QueueCommit(f) PROVE NewEvents'
    <2>1. PICK e \in Events :
             /\ ev[e].st = "new" /\ ev[e].file = f
             /\ \/ Send({e})
                \/ ev' = [ev EXCEPT ![e] = Event("queued", ev[e].pipe, f, ev[e].seq)]
      BY <1>14 DEF QueueCommit
    <2>2. \A d \in Events : d # e => ev'[d] = ev[d]
      BY <2>1 DEF Send, Types
    <2>3. ev'[e].st # "new"
      BY <2>1 DEF Send, ReadyEvent, Event, Types
    <2>4. \A g \in Files : g # f => req'[g] = req[g] /\ pc'[g] = pc[g]
      BY <1>14 DEF QueueCommit, Return, Goto, Types
    <2>5. \A d \in Events : d # e /\ ev[d].st = "new" => ev[d].file # f
      BY <2>1 DEF NewEvents
    <2> QED BY <2>2, <2>3, <2>4, <2>5 DEF NewEvents
  <1>15. ASSUME NEW f \in Files, Read(f) \/ Close(f) PROVE NewEvents'
    <2>1. \A e \in Events : ev'[e] = ev[e] \/ ev'[e] = FreeEvent
      BY <1>15 DEF Read, Close, Types
    <2>2. FreeEvent.st # "new"
      BY DEF FreeEvent, Event
    <2> QED BY <1>15, <1>4, <2>1, <2>2 DEF Read, Close, clientVars
  <1> QED BY OtherSteps, <1>1, <1>6, <1>7, <1>8, <1>9, <1>10, <1>11, <1>12, <1>13, <1>14,
             <1>15

-----------------------------------------------------------------------------
(* Reference counting.                                                      *)

LEMMA OwnerCrtcs ==
    ASSUME Types
    PROVE  /\ hdl # NoCrtc => hdl \in Crtcs
           /\ off # NoCrtc => off \in Crtcs
           /\ scan # NoCrtc => scan \in Crtcs
  BY VblankAssumption DEF VblankAssumption, Types, Crtcs, NoCrtc

LEMMA HoldsFinite ==
    ASSUME NEW c
    PROVE  IsFiniteSet(ClientHolds(c)) /\ Cardinality(ClientHolds(c)) \in Nat
  <1>1. ClientHolds(c) \in SUBSET Files
    BY DEF ClientHolds
  <1> QED BY <1>1, VblankAssumption, FS_Subset, FS_CardinalityType DEF VblankAssumption

LEMMA QueuedCard == ASSUME NEW c PROVE Cardinality(Queued(c)) \in Nat
  BY QueuedFinite, FS_CardinalityType

\* A client that goes on, or sleeps, or wakes, keeps its reference.
LEMMA HoldsMove ==
    ASSUME Types, NEW c,
           \A f \in Files : /\ pc'[f] \in {"idle", "get"} <=> pc[f] \in {"idle", "get"}
                            /\ pc[f] \notin {"idle", "get"} => req'[f].crtc = req[f].crtc
    PROVE  ClientHolds(c)' = ClientHolds(c)
  BY DEF ClientHolds

\* drm_vblank_get has succeeded for client f.
LEMMA HoldsEnter ==
    ASSUME Types, NEW f \in Files, NEW c \in Crtcs, NEW k \in Crtcs,
           pc[f] = "get", pc'[f] \notin {"idle", "get"}, req'[f].crtc = c,
           \A g \in Files : g # f => pc'[g] = pc[g] /\ req'[g] = req[g]
    PROVE  Cardinality(ClientHolds(k)') = Cardinality(ClientHolds(k)) + One(k = c)
  <1>1. f \notin ClientHolds(k)
    BY DEF ClientHolds
  <1>2. ClientHolds(k)' = IF k = c THEN ClientHolds(k) \cup {f} ELSE ClientHolds(k)
    BY DEF ClientHolds
  <1>3. Cardinality(ClientHolds(k) \cup {f}) = Cardinality(ClientHolds(k)) + 1
    BY <1>1, HoldsFinite, FS_AddElement
  <1>4. CASE k = c
    BY <1>2, <1>3, <1>4 DEF One
  <1>5. CASE k # c
    BY <1>2, <1>5, HoldsFinite DEF One
  <1> QED BY <1>4, <1>5

\* The ioctl of client f returns.
LEMMA HoldsLeave ==
    ASSUME Types, NEW f \in Files, pc[f] \notin {"idle", "get"}, Return(f), NEW k \in Crtcs
    PROVE  Cardinality(ClientHolds(k)') = Cardinality(ClientHolds(k)) - One(k = req[f].crtc)
  <1>1. f \in ClientHolds(k) <=> k = req[f].crtc
    BY DEF ClientHolds
  <1>2. ClientHolds(k)' = ClientHolds(k) \ {f}
    BY DEF ClientHolds, Return, Goto, Types
  <1>4. CASE k = req[f].crtc
    <2>1. Cardinality(ClientHolds(k) \ {f}) = Cardinality(ClientHolds(k)) - 1
      BY <1>1, <1>4, HoldsFinite, FS_RemoveElement
    <2> QED BY <1>2, <1>4, <2>1 DEF One
  <1>5. CASE k # req[f].crtc
    <2>1. ClientHolds(k) \ {f} = ClientHolds(k)
      BY <1>1, <1>5
    <2>2. One(k = req[f].crtc) = 0
      BY <1>5 DEF One
    <2> QED BY <1>2, <2>1, <2>2, HoldsFinite
  <1> QED BY <1>4, <1>5

\* Events that are sent or destroyed leave the queue of their crtc.
LEMMA QueuedLess ==
    ASSUME Types, NEW c, NEW S \in SUBSET Queued(c),
           \A e \in Events : IF e \in S THEN ev'[e].st # "queued" ELSE ev'[e] = ev[e],
           NEW k
    PROVE  /\ Queued(k)' = IF k = c THEN Queued(k) \ S ELSE Queued(k)
           /\ Cardinality(Queued(k)') = Cardinality(Queued(k)) -
                                         (IF k = c THEN Cardinality(S) ELSE 0)
  <1>1. Queued(k)' = IF k = c THEN Queued(k) \ S ELSE Queued(k)
    BY DEF Queued
  <1>2. S \cap Queued(c) = S /\ Queued(c) \cap S = S
    OBVIOUS
  <1>3. Cardinality(Queued(c) \ S) = Cardinality(Queued(c)) - Cardinality(S)
    BY <1>2, QueuedFinite, FS_Difference
  <1>4. CASE k = c
    BY <1>1, <1>3, <1>4
  <1>5. CASE k # c
    BY <1>1, <1>5, QueuedCard
  <1> QED BY <1>1, <1>4, <1>5

LEMMA SendLess ==
    ASSUME Types, NEW S \in SUBSET Events, Send(S), NEW e \in Events
    PROVE  IF e \in S THEN ev'[e].st # "queued" ELSE ev'[e] = ev[e]
  BY DEF Send, ReadyEvent, Event, Types

LEMMA PutIs ==
    ASSUME Types, NEW c \in Crtcs, NEW n \in Int, Put(c, n), NEW k \in Crtcs
    PROVE  refcount'[k] = refcount[k] - (IF k = c THEN n ELSE 0)
  BY DEF Put, Types

LEMMA GetIs ==
    ASSUME Types, NEW c \in Crtcs, GetOk(c), NEW k \in Crtcs
    PROVE  refcount'[k] = refcount[k] + One(k = c)
  BY DEF GetOk, Types, One

LEMMA RefsStep ==
    ASSUME Types, NewEvents, RefAccounting, [Next]_vars PROVE RefAccounting'
  <1> USE DEF RefAccounting
  <1> DEFINE Same(k) == ClientHolds(k)' = ClientHolds(k) /\ Queued(k)' = Queued(k)
  <1>0. \A k \in Crtcs : /\ Cardinality(ClientHolds(k)) \in Int
                         /\ Cardinality(Queued(k)) \in Int
                         /\ refcount[k] \in Int
                         /\ One(inmodeset[k] = 3) \in Int /\ One(flip[k]) \in Int
    BY HoldsFinite, QueuedCard DEF Types, One
  <1>1. ASSUME UNCHANGED <<ev, pc, req>>, NEW k \in Crtcs PROVE Same(k)
    BY <1>1 DEF ClientHolds, Queued
  <1>2. ASSUME UNCHANGED <<ev, pc, req, refcount, inmodeset, flip>> PROVE RefAccounting'
    BY <1>1, <1>2
  <1>3. ASSUME NEW c \in Crtcs, HandleVblank(c) PROVE RefAccounting'
    <2>1. ASSUME NEW k \in Crtcs PROVE ClientHolds(k)' = ClientHolds(k)
      <3>1. (pc' = pc \/ Wake(Waiting({c}))) /\ req' = req
        BY <1>3 DEF HandleVblank
      <3>2. \A f \in Files : pc'[f] \in {"idle", "get"} <=> pc[f] \in {"idle", "get"}
        <4>1. CASE pc' = pc
          BY <4>1
        <4>2. CASE Wake(Waiting({c}))
          BY <4>2 DEF Wake, Types
        <4> QED BY <3>1, <4>1, <4>2
      <3> QED BY <3>1, <3>2, HoldsMove
    <2>2. ASSUME NEW k \in Crtcs PROVE Queued(k)' = Queued(k)
      BY <1>3 DEF HandleVblank, Queued, eventVars
    <2> QED BY <1>3, <2>1, <2>2 DEF HandleVblank, devVars
  <1>4. CASE HandleVblankEvents
    <2>1. PICK due \in SUBSET Queued(hdl) : Send(due) /\ Put(hdl, Cardinality(due))
      BY <1>4 DEF HandleVblankEvents
    <2>2. hdl \in Crtcs
      BY <1>4, OwnerCrtcs DEF HandleVblankEvents
    <2>3. due \in SUBSET Events /\ Cardinality(due) \in Int
      BY QueuedFinite, FS_Subset, FS_CardinalityType
    <2> SUFFICES ASSUME NEW k \in Crtcs
                 PROVE  refcount'[k] = Cardinality(ClientHolds(k)') + Cardinality(Queued(k)')
                                       + One(inmodeset'[k] = 3) + One(flip'[k])
      OBVIOUS
    <2>4. ClientHolds(k)' = ClientHolds(k)
      BY <1>4 DEF HandleVblankEvents, ClientHolds, clientVars
    <2>5. Cardinality(Queued(k)') = Cardinality(Queued(k)) -
                                         (IF k = hdl THEN Cardinality(due) ELSE 0)
      BY <2>1, <2>3, QueuedLess, SendLess
    <2>6. refcount'[k] = refcount[k] - (IF k = hdl THEN Cardinality(due) ELSE 0)
      BY <2>1, <2>2, <2>3, PutIs
    <2>7. inmodeset' = inmodeset /\ flip' = flip
      BY <1>4 DEF HandleVblankEvents, devVars
    <2> QED BY <1>0, <2>3, <2>4, <2>5, <2>6, <2>7
  <1>5. CASE VblankOffSends
    <2>2. off \in Crtcs
      BY <1>5, OwnerCrtcs DEF VblankOffSends
    <2>3. Queued(off) \in SUBSET Events /\ Cardinality(Queued(off)) \in Int
      BY QueuedFinite, QueuedCard
    <2> SUFFICES ASSUME NEW k \in Crtcs
                 PROVE  refcount'[k] = Cardinality(ClientHolds(k)') + Cardinality(Queued(k)')
                                       + One(inmodeset'[k] = 3) + One(flip'[k])
      OBVIOUS
    <2>4. ClientHolds(k)' = ClientHolds(k)
      BY <1>5, HoldsMove DEF VblankOffSends, Wake, Types
    <2>5. Cardinality(Queued(k)') = Cardinality(Queued(k)) -
                                         (IF k = off THEN Cardinality(Queued(off)) ELSE 0)
      BY <1>5, <2>3, QueuedLess, SendLess DEF VblankOffSends
    <2>6. refcount'[k] = refcount[k] - (IF k = off THEN Cardinality(Queued(off)) ELSE 0)
      BY <1>5, <2>2, <2>3, PutIs DEF VblankOffSends
    <2>7. inmodeset' = inmodeset /\ flip' = flip
      BY <1>5 DEF VblankOffSends, devVars
    <2> QED BY <1>0, <2>3, <2>4, <2>5, <2>6, <2>7
  <1>6. ASSUME NEW c \in Crtcs, PreModeset(c) PROVE RefAccounting'
    <2>1. CASE GetOk(c) /\ inmodeset' = [inmodeset EXCEPT ![c] = 3]
      <3>1. ASSUME NEW k \in Crtcs
            PROVE  One(inmodeset'[k] = 3) = One(inmodeset[k] = 3) + One(k = c)
        BY <1>6, <2>1 DEF PreModeset, Types, One
      <3>2. One(TRUE) \in Int /\ One(FALSE) \in Int
        BY DEF One
      <3> QED BY <1>6, <2>1, <3>1, <1>0, <1>1, GetIs DEF PreModeset, eventVars, clientVars,
                 One
    <2>2. CASE GetFails(c) /\ inmodeset' = [inmodeset EXCEPT ![c] = 1]
      <3>1. ASSUME NEW k \in Crtcs PROVE One(inmodeset'[k] = 3) = One(inmodeset[k] = 3)
        BY <1>6, <2>2 DEF PreModeset, Types, One
      <3> QED BY <1>6, <2>2, <3>1, <1>1 DEF PreModeset, GetFails, eventVars, clientVars
    <2> QED BY <1>6, <2>1, <2>2 DEF PreModeset
  <1>7. ASSUME NEW c \in Crtcs, PostModeset(c) PROVE RefAccounting'
    <2>1. ASSUME NEW k \in Crtcs PROVE Same(k) /\ flip'[k] = flip[k]
      BY <1>7, <1>1 DEF PostModeset, eventVars, clientVars
    <2>2. CASE inmodeset[c] = 3
      <3>1. ASSUME NEW k \in Crtcs
            PROVE  refcount'[k] = refcount[k] - (IF k = c THEN 1 ELSE 0)
        BY <1>7, <2>2, PutIs DEF PostModeset
      <3>2. ASSUME NEW k \in Crtcs
            PROVE  One(inmodeset'[k] = 3) = One(inmodeset[k] = 3) - (IF k = c THEN 1 ELSE 0)
        BY <1>7, <2>2 DEF PostModeset, Types, One
      <3> QED BY <2>1, <3>1, <3>2, <1>0
    <2>3. CASE inmodeset[c] # 3
      <3>1. ASSUME NEW k \in Crtcs PROVE One(inmodeset'[k] = 3) = One(inmodeset[k] = 3)
        BY <1>7, <2>3 DEF PostModeset, Types, One
      <3>2. refcount' = refcount
        BY <1>7, <2>3 DEF PostModeset
      <3> QED BY <2>1, <3>1, <3>2
    <2> QED BY <2>2, <2>3
  <1>8. ASSUME NEW c \in Crtcs, FlipGet(c) PROVE RefAccounting'
    <2>1. ASSUME NEW k \in Crtcs PROVE One(flip'[k]) = One(flip[k]) + One(k = c)
      BY <1>8 DEF FlipGet, Types, One
    <2>2. ASSUME NEW k \in Crtcs PROVE One(k = c) \in Int
      BY DEF One
    <2>3. ASSUME NEW k \in Crtcs PROVE Same(k)
      BY <1>8, <1>1 DEF FlipGet, eventVars, clientVars
    <2>4. ASSUME NEW k \in Crtcs PROVE refcount'[k] = refcount[k] + One(k = c)
      BY <1>8, GetIs DEF FlipGet
    <2>5. inmodeset' = inmodeset
      BY <1>8 DEF FlipGet
    <2> QED BY <2>1, <2>2, <2>3, <2>4, <2>5, <1>0
  <1>9. ASSUME NEW c \in Crtcs, FlipPut(c) PROVE RefAccounting'
    <2>1. ASSUME NEW k \in Crtcs
          PROVE  One(flip'[k]) = One(flip[k]) - (IF k = c THEN 1 ELSE 0)
      BY <1>9 DEF FlipPut, Types, One
    <2>2. ASSUME NEW k \in Crtcs PROVE Same(k)
      BY <1>9, <1>1 DEF FlipPut, eventVars, clientVars
    <2>3. ASSUME NEW k \in Crtcs PROVE refcount'[k] = refcount[k] - (IF k = c THEN 1 ELSE 0)
      BY <1>9, PutIs DEF FlipPut
    <2>4. inmodeset' = inmodeset
      BY <1>9 DEF FlipPut
    <2> QED BY <2>1, <2>2, <2>3, <2>4, <1>0
  <1>10. CASE IrqUninstallOff
    <2>1. ASSUME NEW k \in Crtcs PROVE ClientHolds(k)' = ClientHolds(k)
      BY <1>10, HoldsMove DEF IrqUninstallOff, Wake, Types
    <2>2. ASSUME NEW k \in Crtcs PROVE Queued(k)' = Queued(k)
      BY <1>10 DEF IrqUninstallOff, Queued, eventVars
    <2> QED BY <1>10, <2>1, <2>2 DEF IrqUninstallOff, devVars
  <1>11. ASSUME NEW c \in Crtcs, Vblank(c) \/ VblankOff(c) PROVE RefAccounting'
    BY <1>11, <1>2 DEF Vblank, VblankOff, eventVars, clientVars, devVars
  <1>12. CASE TimerFires \/ DisableFn \/ IrqUninstall \/ IrqInstall \/ SetOffDelay
              \/ UNCHANGED vars
    BY <1>12, <1>2 DEF TimerFires, DisableFn, IrqUninstall, IrqInstall, SetOffDelay, vars, eventVars,
       clientVars, devVars
  <1>13. ASSUME NEW f \in Files,
                WaitVblank(f) \/ WaitCheck(f) \/ WaitSleep(f) \/ WaitTimeout(f)
         PROVE  RefAccounting'
    <2>1. ASSUME NEW k \in Crtcs PROVE ClientHolds(k)' = ClientHolds(k)
      <3>1. /\ \A g \in Files : pc'[g] \in {"idle", "get"} <=> pc[g] \in {"idle", "get"}
            /\ req' = req
        BY <1>13 DEF WaitVblank, WaitCheck, WaitSleep, WaitTimeout, Goto, Types
      <3> QED BY <3>1, HoldsMove
    <2>2. ASSUME NEW k \in Crtcs PROVE Queued(k)' = Queued(k)
      BY <1>13 DEF WaitVblank, WaitCheck, WaitSleep, WaitTimeout, Queued, eventVars
    <2>3. UNCHANGED <<refcount, inmodeset, flip>>
      BY <1>13 DEF WaitVblank, WaitCheck, WaitSleep, WaitTimeout, devVars
    <2> QED BY <2>1, <2>2, <2>3
  <1>14. ASSUME NEW f \in Files, WaitGet(f) PROVE RefAccounting'
    <2>0. /\ pc[f] = "get" /\ inmodeset' = inmodeset /\ flip' = flip
          /\ \A k \in Crtcs : Queued(k)' = Queued(k)
      BY <1>14 DEF WaitGet, devVars, Queued, eventVars
    <2>1. ASSUME NEW c \in Crtcs, GetOk(c), NEW r, r.crtc = c, req' = [req EXCEPT ![f] = r],
                 Goto(f, "queue") \/ Goto(f, "check")
          PROVE  RefAccounting'
      <3>1. ASSUME NEW k \in Crtcs
            PROVE  Cardinality(ClientHolds(k)') = Cardinality(ClientHolds(k)) + One(k = c)
        <4>1. /\ pc'[f] \notin {"idle", "get"} /\ req'[f].crtc = c
              /\ \A g \in Files : g # f => pc'[g] = pc[g] /\ req'[g] = req[g]
          BY <2>1 DEF Goto, Types
        <4> QED BY <2>0, <4>1, HoldsEnter
      <3>2. ASSUME NEW k \in Crtcs PROVE One(k = c) \in Int
        BY DEF One
      <3> QED BY <2>0, <2>1, <3>1, <3>2, <1>0, GetIs
    <2>2. ASSUME NEW c \in Crtcs, GetFails(c), Return(f) PROVE RefAccounting'
      <3>1. ASSUME NEW k \in Crtcs PROVE ClientHolds(k)' = ClientHolds(k)
        BY <2>0, <2>2 DEF Return, Goto, Types, ClientHolds
      <3> QED BY <2>0, <2>2, <3>1 DEF GetFails
    <2> QED BY <1>14, <2>1, <2>2 DEF WaitGet, Request
  <1>15. ASSUME NEW f \in Files, WaitPut(f) PROVE RefAccounting'
    <2>1. /\ inmodeset' = inmodeset /\ flip' = flip
          /\ \A k \in Crtcs : Queued(k)' = Queued(k)
      BY <1>15 DEF WaitPut, devVars, Queued, eventVars
    <2>2. req[f].crtc \in Crtcs
      BY DEF Types
    <2>3. ASSUME NEW k \in Crtcs
          PROVE  Cardinality(ClientHolds(k)') = Cardinality(ClientHolds(k))
                                                - One(k = req[f].crtc)
      BY <1>15, HoldsLeave DEF WaitPut
    <2>4. ASSUME NEW k \in Crtcs PROVE refcount'[k] = refcount[k] - One(k = req[f].crtc)
      BY <1>15, <2>2, PutIs DEF WaitPut, One
    <2>5. ASSUME NEW k \in Crtcs PROVE One(k = req[f].crtc) \in Int
      BY DEF One
    <2> QED BY <2>1, <2>3, <2>4, <2>5, <1>0
  <1>16. ASSUME NEW f \in Files, QueueRead(f) PROVE RefAccounting'
    <2>1. ASSUME NEW k \in Crtcs PROVE ClientHolds(k)' = ClientHolds(k)
      <3>1. \A g \in Files : /\ pc'[g] \in {"idle", "get"} <=> pc[g] \in {"idle", "get"}
                             /\ req'[g].crtc = req[g].crtc
        <4>1. pc[f] = "queue" /\ (Goto(f, "put") \/ Goto(f, "commit"))
          BY <1>16 DEF QueueRead
        <4>2. \/ req' = req
              \/ req' = [req EXCEPT ![f] = Request(req[f].crtc, count[req[f].crtc], FALSE)]
          BY <1>16 DEF QueueRead
        <4>3. \A g \in Files : req'[g].crtc = req[g].crtc
          <5> DEFINE r == Request(req[f].crtc, count[req[f].crtc], FALSE)
          <5>1. r.crtc = req[f].crtc
            BY DEF Request
          <5> HIDE DEF r
          <5>2. req' = req \/ req' = [req EXCEPT ![f] = r]
            BY <4>2 DEF r
          <5> QED BY <5>1, <5>2 DEF Types
        <4>4. \A g \in Files : pc'[g] \in {"idle", "get"} <=> pc[g] \in {"idle", "get"}
          BY <4>1 DEF Goto, Types
        <4> QED BY <4>3, <4>4
      <3> QED BY <3>1, HoldsMove
    <2>2. ASSUME NEW k \in Crtcs PROVE Queued(k)' = Queued(k)
      <3>1. CASE UNCHANGED ev
        BY <3>1 DEF Queued
      <3>2. ASSUME NEW e \in Events, NEW x, ev[e].st = "free",
                   ev' = [ev EXCEPT ![e] = Event("new", req[f].crtc, f, x)]
            PROVE  Queued(k)' = Queued(k)
        BY <3>2 DEF Queued, Event, Types
      <3> QED BY <1>16, <3>1, <3>2 DEF QueueRead, eventVars
    <2>3. UNCHANGED <<refcount, inmodeset, flip>>
      BY <1>16 DEF QueueRead, devVars
    <2> QED BY <2>1, <2>2, <2>3
  <1>17. ASSUME NEW f \in Files, QueueCommit(f) PROVE RefAccounting'
    <2>1. PICK e \in Events :
             /\ ev[e].st = "new" /\ ev[e].file = f
             /\ \/ Send({e}) /\ Put(req[f].crtc, 1)
                \/ /\ ev' = [ev EXCEPT ![e] = Event("queued", ev[e].pipe, f, ev[e].seq)]
                   /\ UNCHANGED <<refcount, timer>>
      BY <1>17 DEF QueueCommit
    <2> DEFINE c == req[f].crtc
    <2>2. c \in Crtcs /\ ev[e].pipe = c
      BY <2>1 DEF Types, NewEvents
    <2>3. /\ inmodeset' = inmodeset /\ flip' = flip
          /\ \A k \in Crtcs : Cardinality(ClientHolds(k)') =
                               Cardinality(ClientHolds(k)) - One(k = c)
      BY <1>17, HoldsLeave DEF QueueCommit, devVars
    <2>4. \A k \in Crtcs : One(k = c) \in Int
      BY DEF One
    <2>5. CASE Send({e}) /\ Put(c, 1)
      <3>1. ASSUME NEW k \in Crtcs PROVE Queued(k)' = Queued(k)
        BY <2>1, <2>5, SendLess DEF Queued
      <3>2. ASSUME NEW k \in Crtcs PROVE refcount'[k] = refcount[k] - One(k = c)
        BY <2>2, <2>5, PutIs DEF One
      <3> QED BY <2>3, <2>4, <3>1, <3>2, <1>0
    <2>6. CASE /\ ev' = [ev EXCEPT ![e] = Event("queued", ev[e].pipe, f, ev[e].seq)]
               /\ UNCHANGED <<refcount, timer>>
      <3>1. ASSUME NEW k \in Crtcs
            PROVE  Cardinality(Queued(k)') = Cardinality(Queued(k)) + One(k = c)
        <4>1. e \notin Queued(k)
          BY <2>1 DEF Queued
        <4>2. CASE k = c
          <5>1. Queued(k)' = Queued(k) \cup {e}
            BY <2>1, <2>2, <2>6, <4>2 DEF Queued, Event, Types
          <5>2. Cardinality(Queued(k) \cup {e}) = Cardinality(Queued(k)) + 1
            BY <4>1, QueuedFinite, FS_AddElement
          <5> QED BY <4>2, <5>1, <5>2 DEF One
        <4>3. CASE k # c
          <5>1. Queued(k)' = Queued(k)
            BY <2>1, <2>2, <2>6, <4>3 DEF Queued, Event, Types
          <5> QED BY <4>3, <5>1, QueuedCard DEF One
        <4> QED BY <4>2, <4>3
      <3> QED BY <2>3, <2>4, <2>6, <3>1, <1>0
    <2> QED BY <2>1, <2>5, <2>6
  <1>18. ASSUME NEW f \in Files, Read(f) PROVE RefAccounting'
    <2>1. ASSUME NEW k \in Crtcs PROVE ClientHolds(k)' = ClientHolds(k)
      BY <1>18 DEF Read, ClientHolds, clientVars
    <2>2. ASSUME NEW k \in Crtcs PROVE Queued(k)' = Queued(k)
      BY <1>18 DEF Read, Queued, FreeEvent, Event, Types
    <2> QED BY <1>18, <2>1, <2>2 DEF Read, devVars
  <1>19. ASSUME NEW f \in Files, Close(f) PROVE RefAccounting'
    <2> SUFFICES ASSUME NEW k \in Crtcs
                 PROVE  refcount'[k] = Cardinality(ClientHolds(k)') + Cardinality(Queued(k)')
                                       + One(inmodeset'[k] = 3) + One(flip'[k])
      OBVIOUS
    <2> DEFINE mine == {e \in Queued(k) : ev[e].file = f}
    <2>1. Cardinality(mine) \in Int /\ mine \in SUBSET Queued(k)
      BY QueuedFinite, FS_Subset, FS_CardinalityType
    <2>2. refcount'[k] = refcount[k] - Cardinality(mine)
      BY <1>19 DEF Close
    <2>3. Queued(k)' = Queued(k) \ mine
      BY <1>19 DEF Close, OwnedBy, Queued, FreeEvent, Event
    <2>4. Cardinality(Queued(k) \ mine) = Cardinality(Queued(k)) - Cardinality(mine)
      <3>1. Queued(k) \cap mine = mine
        OBVIOUS
      <3> HIDE DEF mine
      <3>2. Cardinality(Queued(k) \ mine) = Cardinality(Queued(k))
                                           - Cardinality(Queued(k) \cap mine)
        BY QueuedFinite, FS_Difference
      <3> QED BY <3>1, <3>2
    <2>5. ClientHolds(k)' = ClientHolds(k) /\ inmodeset' = inmodeset /\ flip' = flip
      BY <1>19 DEF Close, ClientHolds, clientVars, devVars
    <2> HIDE DEF mine
    <2> QED BY <2>1, <2>2, <2>3, <2>4, <2>5, <1>0
  <1> QED
    <2> HIDE DEF RefAccounting
    <2> QED BY OtherSteps, <1>3, <1>4, <1>5, <1>6, <1>7, <1>8, <1>9, <1>10, <1>11, <1>12,
               <1>13, <1>14, <1>15, <1>16, <1>17, <1>18, <1>19 DEF Quiet

-----------------------------------------------------------------------------
(* The room for events.                                                     *)

LEMMA OwnedFinite ==
    ASSUME NEW f PROVE IsFiniteSet(OwnedBy(f)) /\ Cardinality(OwnedBy(f)) \in Nat
  <1>1. OwnedBy(f) \in SUBSET Events
    BY DEF OwnedBy
  <1> QED BY <1>1, VblankAssumption, FS_Subset, FS_CardinalityType DEF VblankAssumption

LEMMA SpaceStep ==
    ASSUME Types, NewEvents, SpaceAccounting, [Next]_vars PROVE SpaceAccounting'
  <1> USE DEF SpaceAccounting
  <1>1. CASE Quiet
    BY <1>1, QuietSteps DEF OwnedBy
  <1>2. ASSUME \A g \in Files : OwnedBy(g)' = OwnedBy(g), space' = space,
               \A g \in Files : pc'[g] = "commit" <=> pc[g] = "commit"
        PROVE  SpaceAccounting'
    BY <1>2 DEF One
  <1>3. ASSUME NEW S \in SUBSET Events, Send(S), \A e \in S : ev[e].st = "queued",
               NEW g \in Files
        PROVE  OwnedBy(g)' = OwnedBy(g)
    BY <1>3 DEF OwnedBy, Send, ReadyEvent, Event, Types
  <1>4. ASSUME NEW S, Wake(S), NEW g \in Files PROVE pc'[g] = "commit" <=> pc[g] = "commit"
    BY <1>4 DEF Wake, Types
  <1>5. ASSUME NEW f \in Files, NEW l, Goto(f, l), pc[f] # "commit", l # "commit",
               UNCHANGED <<ev, space>>
        PROVE  SpaceAccounting'
    <2>1. \A g \in Files : OwnedBy(g)' = OwnedBy(g)
      BY <1>5 DEF OwnedBy
    <2>2. \A g \in Files : pc'[g] = "commit" <=> pc[g] = "commit"
      BY <1>5 DEF Goto, Types
    <2> QED BY <1>2, <1>5, <2>1, <2>2
  <1>6. ASSUME NEW c \in Crtcs, HandleVblank(c) PROVE SpaceAccounting'
    <2>1. \A g \in Files : OwnedBy(g)' = OwnedBy(g)
      BY <1>6 DEF HandleVblank, OwnedBy, eventVars
    <2>2. pc' = pc \/ Wake(Waiting({c}))
      BY <1>6 DEF HandleVblank
    <2>3. space' = space
      BY <1>6 DEF HandleVblank, eventVars
    <2> QED BY <2>1, <2>2, <2>3, <1>2, <1>4
  <1>7. CASE HandleVblankEvents
    <2>1. PICK due \in SUBSET Queued(hdl) : Send(due)
      BY <1>7 DEF HandleVblankEvents
    <2>2. \A g \in Files : OwnedBy(g)' = OwnedBy(g)
      BY <2>1, <1>3 DEF Queued
    <2> QED BY <1>7, <2>2, <1>2 DEF HandleVblankEvents, clientVars
  <1>8. CASE VblankOffSends
    <2>1. \A g \in Files : OwnedBy(g)' = OwnedBy(g)
      BY <1>8, <1>3 DEF VblankOffSends, Queued
    <2> QED BY <1>8, <2>1, <1>2, <1>4 DEF VblankOffSends
  <1>9. CASE IrqUninstallOff
    <2>1. \A g \in Files : OwnedBy(g)' = OwnedBy(g)
      BY <1>9 DEF IrqUninstallOff, OwnedBy, eventVars
    <2> QED BY <1>9, <2>1, <1>2, <1>4 DEF IrqUninstallOff, eventVars
  <1>10. ASSUME NEW f \in Files,
               WaitVblank(f) \/ WaitCheck(f) \/ WaitSleep(f) \/ WaitTimeout(f) \/ WaitPut(f)
        PROVE  SpaceAccounting'
    BY <1>10, <1>5 DEF WaitVblank, WaitCheck, WaitSleep, WaitTimeout, WaitPut, Return,
       eventVars
  <1>11. ASSUME NEW f \in Files, WaitGet(f) PROVE SpaceAccounting'
    BY <1>11, <1>5 DEF WaitGet, Return, eventVars
  <1>12. ASSUME NEW f \in Files, QueueRead(f) PROVE SpaceAccounting'
    <2>1. CASE Goto(f, "put") /\ UNCHANGED <<eventVars, req>>
      BY <1>12, <2>1, <1>5 DEF QueueRead, eventVars
    <2>2. ASSUME NEW e \in Events, NEW x, ev[e].st = "free", pc[f] = "queue",
                 ev' = [ev EXCEPT ![e] = Event("new", req[f].crtc, f, x)],
                 space' = [space EXCEPT ![f] = @ - 1], Goto(f, "commit"),
                 NEW g \in Files
          PROVE  space'[g] + Cardinality(OwnedBy(g)') + One(pc'[g] = "commit") = EventSpace
      <3>1. OwnedBy(g)' = OwnedBy(g)
        BY <2>2 DEF OwnedBy, Event, Types
      <3>2. space'[g] + One(pc'[g] = "commit") = space[g] + One(pc[g] = "commit")
        BY <2>2 DEF Goto, Types, One
      <3>3. /\ space[g] \in Int /\ space'[g] \in Int
            /\ One(pc[g] = "commit") \in Int /\ One(pc'[g] = "commit") \in Int
        BY <2>2 DEF Types, One
      <3> QED BY <3>1, <3>2, <3>3, OwnedFinite
    <2> QED BY <1>12, <2>1, <2>2 DEF QueueRead
  <1>13. ASSUME NEW f \in Files, QueueCommit(f), NEW g \in Files
         PROVE  space'[g] + Cardinality(OwnedBy(g)') + One(pc'[g] = "commit") = EventSpace
    <2>1. PICK e \in Events :
             /\ ev[e].st = "new" /\ ev[e].file = f
             /\ \/ Send({e})
                \/ ev' = [ev EXCEPT ![e] = Event("queued", ev[e].pipe, f, ev[e].seq)]
      BY <1>13 DEF QueueCommit
    <2>2. /\ ev'[e].st \in {"queued", "ready"} /\ ev'[e].file = f
          /\ \A d \in Events : d # e => ev'[d] = ev[d]
      BY <2>1 DEF Send, ReadyEvent, Event, Types
    <2>3. space' = space /\ pc[f] = "commit" /\ Goto(f, "idle")
      BY <1>13 DEF QueueCommit, Return
    <2>4. CASE g = f
      <3>1. OwnedBy(g)' = OwnedBy(g) \cup {e} /\ e \notin OwnedBy(g)
        BY <2>1, <2>2, <2>4 DEF OwnedBy
      <3>2. Cardinality(OwnedBy(g) \cup {e}) = Cardinality(OwnedBy(g)) + 1
        BY <3>1, OwnedFinite, FS_AddElement
      <3>3. One(pc[g] = "commit") = 1 /\ One(pc'[g] = "commit") = 0
        BY <2>3, <2>4 DEF Goto, Types, One
      <3> QED BY <3>1, <3>2, <3>3, <2>3, OwnedFinite DEF Types
    <2>5. CASE g # f
      <3>1. OwnedBy(g)' = OwnedBy(g)
        BY <2>1, <2>2, <2>5 DEF OwnedBy
      <3>2. pc'[g] = pc[g]
        BY <2>3, <2>5 DEF Goto, Types
      <3> QED BY <3>1, <3>2, <2>3
    <2> QED BY <2>4, <2>5
  <1>14. ASSUME NEW f \in Files, Read(f), NEW g \in Files
         PROVE  space'[g] + Cardinality(OwnedBy(g)') + One(pc'[g] = "commit") = EventSpace
    <2>1. PICK e \in Events :
             /\ ev[e].st = "ready" /\ ev[e].file = f
             /\ ev' = [ev EXCEPT ![e] = FreeEvent]
             /\ space' = [space EXCEPT ![f] = @ + 1]
      BY <1>14 DEF Read
    <2>2. pc' = pc
      BY <1>14 DEF Read, clientVars
    <2>3. ev'[e].st = "free" /\ \A d \in Events : d # e => ev'[d] = ev[d]
      BY <2>1 DEF FreeEvent, Event, Types
    <2>4. CASE g = f
      <3>1. OwnedBy(g)' = OwnedBy(g) \ {e} /\ e \in OwnedBy(g)
        BY <2>1, <2>3, <2>4 DEF OwnedBy
      <3>2. Cardinality(OwnedBy(g) \ {e}) = Cardinality(OwnedBy(g)) - 1
        BY <3>1, OwnedFinite, FS_RemoveElement
      <3>3. space[g] \in Int /\ space'[g] = space[g] + 1 /\ One(pc[g] = "commit") \in Int
        BY <2>1, <2>4 DEF Types, One
      <3> QED BY <3>1, <3>2, <3>3, <2>2, OwnedFinite
    <2>5. CASE g # f
      <3>1. OwnedBy(g)' = OwnedBy(g)
        BY <2>1, <2>3, <2>5 DEF OwnedBy
      <3>2. space'[g] = space[g]
        BY <2>1, <2>5 DEF Types
      <3> QED BY <3>1, <3>2, <2>2
    <2> QED BY <2>4, <2>5
  <1>15. ASSUME NEW f \in Files, Close(f), NEW g \in Files
         PROVE  space'[g] + Cardinality(OwnedBy(g)') + One(pc'[g] = "commit") = EventSpace
    <2>1. /\ pc[f] = "idle" /\ pc' = pc /\ space' = [space EXCEPT ![f] = EventSpace]
          /\ ev' = [e \in Events |-> IF e \in OwnedBy(f) THEN FreeEvent ELSE ev[e]]
      BY <1>15 DEF Close, clientVars
    <2>2. CASE g = f
      <3>1. OwnedBy(g)' = {}
        BY <2>1, <2>2 DEF OwnedBy, FreeEvent, Event
      <3>2. space'[g] = EventSpace /\ One(pc'[g] = "commit") = 0
        BY <2>1, <2>2 DEF Types, One
      <3> QED BY <3>1, <3>2, FS_EmptySet, VblankAssumption DEF VblankAssumption
    <2>3. CASE g # f
      <3>1. OwnedBy(g)' = OwnedBy(g)
        BY <2>1, <2>3 DEF OwnedBy, FreeEvent, Event
      <3>2. space'[g] = space[g]
        BY <2>1, <2>3 DEF Types
      <3> QED BY <3>1, <3>2, <2>1
    <2> QED BY <2>2, <2>3
  <1>16. ASSUME NEW f \in Files, QueueCommit(f) \/ Read(f) \/ Close(f) PROVE SpaceAccounting'
    BY <1>13, <1>14, <1>15, <1>16
  <1> QED
    <2> HIDE DEF SpaceAccounting
    <2> QED BY OtherSteps, <1>1, <1>6, <1>7, <1>8, <1>9, <1>10, <1>11, <1>12, <1>16

-----------------------------------------------------------------------------
(* Counts that are read, and the events and sleepers that wait for them.     *)

\* Who has a reference is counted: with none, nobody waits.
LEMMA NoRefs ==
    ASSUME Types, RefAccounting, NEW c \in Crtcs
    PROVE  /\ refcount[c] >= 0
           /\ refcount[c] = 0 => ClientHolds(c) = {} /\ Queued(c) = {}
  <1>1. /\ Cardinality(ClientHolds(c)) \in Nat /\ Cardinality(Queued(c)) \in Nat
        /\ One(inmodeset[c] = 3) \in Nat /\ One(flip[c]) \in Nat
    BY HoldsFinite, QueuedCard DEF One
  <1>2. refcount[c] = Cardinality(ClientHolds(c)) + Cardinality(Queued(c))
                      + One(inmodeset[c] = 3) + One(flip[c])
    BY DEF RefAccounting
  <1>3. refcount[c] = 0 => Cardinality(ClientHolds(c)) = 0 /\ Cardinality(Queued(c)) = 0
    BY <1>1, <1>2
  <1>4. refcount[c] >= 0
    BY <1>1, <1>2
  <1>5. Cardinality(ClientHolds(c)) = 0 => ClientHolds(c) = {}
    BY HoldsFinite, FS_EmptySet
  <1>6. Cardinality(Queued(c)) = 0 => Queued(c) = {}
    BY QueuedFinite, FS_EmptySet
  <1> QED BY <1>3, <1>4, <1>5, <1>6

LEMMA GetCount ==
    ASSUME Types, NEW c \in Crtcs, GetOk(c), NEW k \in Crtcs
    PROVE  count'[k] = count[k] \/ (k = c /\ refcount[c] = 0 /\ TimeLockFree)
  <1>1. UpdateCount(c) => k = c \/ count'[k] = count[k]
    BY DEF UpdateCount, Types
  <1> QED BY <1>1 DEF GetOk, countVars

LEMMA DisableCount ==
    ASSUME Types, NEW c \in Crtcs, DisableAndSave(c), NEW k \in Crtcs
    PROVE  TimeLockFree /\ (k = c \/ count'[k] = count[k])
  BY DEF DisableAndSave, Types

\* A count changes under vblank_time_lock, and only while nobody holds a
\* reference, or with the handler or drm_vblank_off under way.
LEMMA CountSteps ==
    ASSUME Types, [Next]_vars, NEW k \in Crtcs
    PROVE  \/ count'[k] = count[k]
           \/ TimeLockFree /\ (refcount[k] = 0 \/ HandleVblank(k) \/ VblankOff(k))
  <1>1. ASSUME NEW c \in Crtcs, HandleVblank(c)
        PROVE  count'[k] = count[k] \/ (TimeLockFree /\ HandleVblank(k))
    <2>1. CASE k = c
      BY <1>1, <2>1 DEF HandleVblank
    <2>2. CASE k # c
      BY <1>1, <2>2 DEF HandleVblank, countVars, Types
    <2> QED BY <2>1, <2>2
  <1>2. ASSUME NEW c \in Crtcs, VblankOff(c)
        PROVE  count'[k] = count[k] \/ (TimeLockFree /\ VblankOff(k))
    BY <1>2, DisableCount DEF VblankOff
  <1>3. ASSUME NEW c \in Crtcs, GetOk(c) \/ GetFails(c)
        PROVE  count'[k] = count[k] \/ (TimeLockFree /\ refcount[k] = 0)
    BY <1>3, GetCount DEF GetFails, countVars
  <1>4. CASE DisableFn
    <2>1. CASE DisableAndSave(scan) /\ refcount[scan] = 0
      BY <1>4, <2>1, DisableCount, OwnerCrtcs DEF DisableFn
    <2>2. CASE UNCHANGED <<enabled, countVars>>
      BY <2>2 DEF countVars
    <2> QED BY <1>4, <2>1, <2>2 DEF DisableFn
  <1>5. ASSUME NEW c \in Crtcs,
               Vblank(c) \/ PreModeset(c) \/ PostModeset(c) \/ FlipGet(c) \/ FlipPut(c)
        PROVE  count'[k] = count[k] \/ (TimeLockFree /\ refcount[k] = 0)
    BY <1>3, <1>5 DEF Vblank, PreModeset, PostModeset, FlipGet, FlipPut, countVars
  <1>6. CASE TimerFires \/ IrqUninstall \/ IrqInstall \/ SetOffDelay \/ UNCHANGED vars
             \/ HandleVblankEvents \/ VblankOffSends \/ IrqUninstallOff
    BY <1>6 DEF TimerFires, IrqUninstall, IrqInstall, SetOffDelay, vars, HandleVblankEvents,
       VblankOffSends, IrqUninstallOff, countVars
  <1>7. ASSUME NEW f \in Files, WaitGet(f)
        PROVE  count'[k] = count[k] \/ (TimeLockFree /\ refcount[k] = 0)
    BY <1>3, <1>7 DEF WaitGet
  <1>8. ASSUME NEW f \in Files,
               WaitVblank(f) \/ WaitCheck(f) \/ WaitSleep(f) \/ WaitTimeout(f) \/ WaitPut(f)
               \/ QueueRead(f) \/ QueueCommit(f) \/ Read(f) \/ Close(f)
        PROVE  count'[k] = count[k]
    BY <1>8 DEF WaitVblank, WaitCheck, WaitSleep, WaitTimeout, WaitPut, QueueRead,
       QueueCommit, Read, Close, countVars
  <1> QED BY OtherSteps, <1>1, <1>2, <1>4, <1>5, <1>6, <1>7, <1>8 DEF Quiet

\* hdl and off are set and cleared by the two halves of their actions only.
LEMMA OwnerSteps ==
    ASSUME [Next]_vars
    PROVE  /\ \/ hdl' = hdl \/ HandleVblankEvents
              \/ hdl = NoCrtc /\ \E c \in Crtcs : HandleVblank(c)
           /\ \/ off' = off \/ VblankOffSends
              \/ off = NoCrtc /\ \E c \in Crtcs : VblankOff(c)
  <1>1. Quiet => /\ hdl' = hdl
                 /\ off' = off \/ (off = NoCrtc /\ \E c \in Crtcs : VblankOff(c))
    BY DEF Quiet, Vblank, VblankOff, PreModeset, PostModeset, FlipGet, FlipPut, TimerFires,
       DisableFn, IrqUninstall, IrqInstall, SetOffDelay, vars, lockVars, VblLockFree
  <1>2. ASSUME NEW c \in Crtcs, HandleVblank(c) PROVE off' = off /\ (hdl' = hdl \/ hdl = NoCrtc)
    BY <1>2 DEF HandleVblank, TimeLockFree
  <1>3. HandleVblankEvents => off' = off
    BY DEF HandleVblankEvents
  <1>4. VblankOffSends => hdl' = hdl
    BY DEF VblankOffSends
  <1>5. IrqUninstallOff => hdl' = hdl /\ off' = off
    BY DEF IrqUninstallOff
  <1>6. ASSUME NEW f \in Files,
               WaitVblank(f) \/ WaitGet(f) \/ WaitCheck(f) \/ WaitSleep(f) \/ WaitTimeout(f)
               \/ WaitPut(f) \/ QueueRead(f) \/ QueueCommit(f) \/ Read(f) \/ Close(f)
        PROVE  hdl' = hdl /\ off' = off
    BY <1>6 DEF WaitVblank, WaitGet, WaitCheck, WaitSleep, WaitTimeout, WaitPut, QueueRead,
       QueueCommit, Read, Close, lockVars
  <1> QED BY OtherSteps, <1>1, <1>2, <1>3, <1>4, <1>5, <1>6

\* A client arrives at a label by one action only.
LEMMA LabelSteps ==
    ASSUME Types, [Next]_vars, NEW f \in Files
    PROVE  /\ pc'[f] = "commit" => QueueRead(f) \/ (pc[f] = "commit" /\ req'[f] = req[f])
           /\ pc'[f] = "slpq" => WaitCheck(f) \/ (pc[f] = "slpq" /\ req'[f] = req[f])
           /\ pc'[f] = "sleep" => WaitSleep(f) \/ (pc[f] = "sleep" /\ req'[f] = req[f])
  <1>1. CASE Quiet
    BY <1>1, QuietSteps
  <1>2. ASSUME NEW S, Wake(S), req' = req
        PROVE  req' = req /\ (pc'[f] = pc[f] \/ pc'[f] = "check")
    BY <1>2 DEF Wake, Types
  <1>3. ASSUME NEW c \in Crtcs, HandleVblank(c)
        PROVE  req' = req /\ (pc'[f] = pc[f] \/ pc'[f] = "check")
    BY <1>3, <1>2 DEF HandleVblank
  <1>4. CASE HandleVblankEvents \/ VblankOffSends \/ IrqUninstallOff
    BY <1>4, <1>2 DEF HandleVblankEvents, VblankOffSends, IrqUninstallOff, clientVars
  <1>5. ASSUME NEW g \in Files, NEW l, Goto(g, l)
        PROVE  IF g = f THEN pc'[f] = l ELSE pc'[f] = pc[f]
    BY <1>5 DEF Goto, Types
  <1>6. ASSUME NEW g \in Files, WaitVblank(g) \/ WaitTimeout(g)
        PROVE  req' = req /\ (pc'[f] = pc[f] \/ pc'[f] \in {"get", "put"})
    BY <1>6, <1>5 DEF WaitVblank, WaitTimeout
  <1>7. ASSUME NEW g \in Files, WaitCheck(g) \/ WaitSleep(g), g # f
        PROVE  req' = req /\ pc'[f] = pc[f]
    BY <1>7, <1>5 DEF WaitCheck, WaitSleep
  <1>8. ASSUME WaitCheck(f) PROVE pc'[f] \in {"put", "slpq"}
    BY <1>8, <1>5 DEF WaitCheck
  <1>9. ASSUME WaitSleep(f) PROVE pc'[f] = "sleep"
    BY <1>9, <1>5 DEF WaitSleep
  <1>10. ASSUME NEW g \in Files, WaitGet(g)
         PROVE  \/ pc'[f] = pc[f] /\ req'[f] = req[f]
                \/ pc'[f] \in {"queue", "check", "idle"}
    <2>1. CASE g = f
      BY <1>10, <1>5, <2>1 DEF WaitGet, Return
    <2>2. CASE g # f
      BY <1>10, <1>5, <2>2 DEF WaitGet, Return, Types
    <2> QED BY <2>1, <2>2
  <1>11. ASSUME NEW g \in Files, Return(g)
         PROVE  pc'[f] = "idle" \/ (pc'[f] = pc[f] /\ req'[f] = req[f])
    BY <1>11, <1>5 DEF Return, Types
  <1>12. ASSUME NEW g \in Files, WaitPut(g) \/ QueueCommit(g)
         PROVE  pc'[f] = "idle" \/ (pc'[f] = pc[f] /\ req'[f] = req[f])
    BY <1>12, <1>11 DEF WaitPut, QueueCommit
  <1>13. ASSUME NEW g \in Files, QueueRead(g), g # f
         PROVE  pc'[f] = pc[f] /\ req'[f] = req[f]
    BY <1>13, <1>5 DEF QueueRead, Types
  <1>14. ASSUME QueueRead(f) PROVE pc'[f] \in {"put", "commit"}
    BY <1>14, <1>5 DEF QueueRead
  <1>15. ASSUME NEW g \in Files, Read(g) \/ Close(g) PROVE pc' = pc /\ req' = req
    BY <1>15 DEF Read, Close, clientVars
  <1> QED BY OtherSteps, <1>1, <1>3, <1>4, <1>6, <1>7, <1>8, <1>9, <1>10, <1>12, <1>13,
             <1>14, <1>15

\* While the count moves on, whoever did it still has to send events.
LEMMA OwnerStays ==
    ASSUME Types, [Next]_vars, NEW c \in Crtcs, refcount[c] # 0,
           ~HandleVblankEvents, ~VblankOffSends
    PROVE  /\ hdl = c => hdl' = c
           /\ off = c => off' = c
           /\ count'[c] = count[c] \/ hdl' = c \/ off' = c
  <1>1. c # NoCrtc
    BY CrtcsFinite
  <1>2. HandleVblank(c) => hdl' = c \/ count'[c] = count[c]
    BY DEF HandleVblank, countVars
  <1>3. VblankOff(c) => off' = c
    BY DEF VblankOff
  <1> QED BY <1>1, <1>2, <1>3, OwnerSteps, CountSteps

LEMMA CommitStep ==
    ASSUME Types, RefAccounting, CommitCount, [Next]_vars PROVE CommitCount'
  <1> SUFFICES ASSUME NEW f \in Files, pc'[f] = "commit"
               PROVE  LET c == req'[f].crtc
                      IN  req'[f].seq = count'[c] \/ hdl' = c \/ off' = c
    BY DEF CommitCount
  <1>1. CASE QueueRead(f)
    <2>1. req' = [req EXCEPT ![f] = Request(req[f].crtc, count[req[f].crtc], FALSE)]
      <3>1. Goto(f, "put") => pc'[f] = "put"
        BY DEF Goto, Types
      <3> QED BY <1>1, <3>1 DEF QueueRead
    <2>2. req'[f].crtc = req[f].crtc /\ req'[f].seq = count[req[f].crtc]
      BY <2>1 DEF Types, Request
    <2>3. count' = count
      BY <1>1 DEF QueueRead, countVars
    <2> QED BY <2>2, <2>3
  <1>2. CASE pc[f] = "commit" /\ req'[f] = req[f]
    <2> DEFINE c == req[f].crtc
    <2>1. c \in Crtcs /\ f \in ClientHolds(c)
      BY <1>2 DEF Types, ClientHolds
    <2>2. refcount[c] # 0
      BY <2>1, NoRefs
    <2>3. ~HandleVblankEvents /\ ~VblankOffSends
      BY <1>2 DEF HandleVblankEvents, VblankOffSends, EventLockFree
    <2>4. req[f].seq = count[c] \/ hdl = c \/ off = c
      BY <1>2 DEF CommitCount
    <2> QED BY <1>2, <2>1, <2>2, <2>3, <2>4, OwnerStays
  <1> QED BY <1>1, <1>2, LabelSteps

LEMMA QueuedSteps ==
    ASSUME Types, NewEvents, [Next]_vars, NEW c \in Crtcs, NEW e \in Queued(c)'
    PROVE  \/ e \in Queued(c) /\ ev'[e] = ev[e]
           \/ \E f \in Files : /\ QueueCommit(f) /\ req[f].crtc = c
                              /\ ~Passed(req[f].seq, ev'[e].seq)
  <1>1. e \in Events /\ ev'[e].st = "queued" /\ ev'[e].pipe = c
    BY DEF Queued
  <1>2. CASE ev'[e] = ev[e]
    BY <1>1, <1>2 DEF Queued
  <1>3. ASSUME NEW S, Send(S) PROVE ev'[e] = ev[e]
    BY <1>1, <1>3 DEF Send, ReadyEvent, Event
  <1>4. CASE HandleVblankEvents \/ VblankOffSends
    BY <1>4, <1>2, <1>3 DEF HandleVblankEvents, VblankOffSends
  <1>5. CASE Quiet
    BY <1>5, <1>2, QuietSteps
  <1>6. ASSUME NEW f \in Files, QueueRead(f) PROVE ev'[e] = ev[e]
    <2>1. CASE UNCHANGED eventVars
      BY <2>1 DEF eventVars
    <2>2. ASSUME NEW d \in Events, NEW x, ev' = [ev EXCEPT ![d] = Event("new", req[f].crtc, f, x)]
          PROVE  ev'[e] = ev[e]
      BY <1>1, <2>2 DEF Event, Types
    <2> QED BY <1>6, <2>1, <2>2 DEF QueueRead
  <1>7. ASSUME NEW f \in Files, Read(f) \/ Close(f) PROVE ev'[e] = ev[e]
    BY <1>1, <1>7 DEF Read, Close, FreeEvent, Event, Types
  <1>8. ASSUME NEW f \in Files,
               WaitVblank(f) \/ WaitGet(f) \/ WaitCheck(f) \/ WaitSleep(f)
               \/ WaitTimeout(f) \/ WaitPut(f)
        PROVE  ev'[e] = ev[e]
    BY <1>8 DEF WaitVblank, WaitGet, WaitCheck, WaitSleep, WaitTimeout, WaitPut, eventVars
  <1>9. ASSUME NEW k \in Crtcs, HandleVblank(k) PROVE ev'[e] = ev[e]
    BY <1>9 DEF HandleVblank, eventVars
  <1>10. IrqUninstallOff => ev'[e] = ev[e]
    BY DEF IrqUninstallOff, eventVars
  <1>11. ASSUME NEW f \in Files, QueueCommit(f), ev'[e] # ev[e]
         PROVE  req[f].crtc = c /\ ~Passed(req[f].seq, ev'[e].seq)
    <2>1. PICK d \in Events :
             /\ ev[d].st = "new" /\ ev[d].file = f
             /\ IF Passed(req[f].seq, ev[d].seq)
                THEN Send({d}) /\ Put(req[f].crtc, 1)
                ELSE /\ ev' = [ev EXCEPT ![d] = Event("queued", ev[d].pipe, f, ev[d].seq)]
                     /\ UNCHANGED <<refcount, timer>>
      BY <1>11 DEF QueueCommit
    <2>2. ~Passed(req[f].seq, ev[d].seq)
      BY <2>1, <1>3, <1>11
    <2>3. ev' = [ev EXCEPT ![d] = Event("queued", ev[d].pipe, f, ev[d].seq)]
      BY <2>1, <2>2
    <2>4. e = d /\ ev'[e].pipe = ev[d].pipe /\ ev'[e].seq = ev[d].seq
      BY <1>1, <1>11, <2>3 DEF Event, Types
    <2>5. ev[d].pipe = req[f].crtc
      BY <2>1 DEF NewEvents
    <2> QED BY <1>1, <2>2, <2>4, <2>5
  <1> QED BY OtherSteps, <1>2, <1>4, <1>5, <1>6, <1>7, <1>8, <1>9, <1>10, <1>11

LEMMA MissedStep ==
    ASSUME Types, RefAccounting, NewEvents, CommitCount, NoMissedEvent, [Next]_vars
    PROVE  NoMissedEvent'
  <1> SUFFICES ASSUME NEW c \in Crtcs, NEW e \in Queued(c)', Passed(count'[c], ev'[e].seq)
               PROVE  hdl' = c \/ off' = c
    BY DEF NoMissedEvent, Passed
  <1>1. ASSUME e \in Queued(c), ev'[e] = ev[e] PROVE hdl' = c \/ off' = c
    <2>1. refcount[c] # 0
      BY <1>1, NoRefs
    <2>2. CASE HandleVblankEvents
      <3>1. count' = count /\ off' = off
        BY <2>2 DEF HandleVblankEvents, countVars
      <3>2. hdl # c
        <4> SUFFICES ASSUME hdl = c PROVE FALSE
          OBVIOUS
        <4>1. Send({d \in Queued(hdl) : Passed(count[hdl], ev[d].seq)})
          BY <2>2 DEF HandleVblankEvents
        <4>2. ev'[e].st = "ready"
          BY <1>1, <3>1, <4>1, QueuedFinite DEF Send, ReadyEvent, Event
        <4> QED BY <1>1, <4>2 DEF Queued
      <3> QED BY <1>1, <3>1, <3>2 DEF NoMissedEvent
    <2>3. CASE VblankOffSends
      <3>1. count' = count /\ hdl' = hdl
        BY <2>3 DEF VblankOffSends, countVars
      <3>2. off # c
        <4> SUFFICES ASSUME off = c PROVE FALSE
          OBVIOUS
        <4>1. Send(Queued(off))
          BY <2>3 DEF VblankOffSends
        <4>2. ev'[e].st = "ready"
          BY <1>1, <4>1, QueuedFinite DEF Send, ReadyEvent, Event
        <4> QED BY <1>1, <4>2 DEF Queued
      <3> QED BY <1>1, <3>1, <3>2 DEF NoMissedEvent
    <2>4. CASE ~HandleVblankEvents /\ ~VblankOffSends
      BY <1>1, <2>1, <2>4, OwnerStays DEF NoMissedEvent
    <2> QED BY <2>2, <2>3, <2>4
  <1>2. ASSUME NEW f \in Files, QueueCommit(f), req[f].crtc = c,
               ~Passed(req[f].seq, ev'[e].seq)
        PROVE  hdl' = c \/ off' = c
    <2>1. pc[f] = "commit" /\ count' = count /\ hdl' = hdl /\ off' = off
      BY <1>2 DEF QueueCommit, countVars, lockVars
    <2> QED BY <1>2, <2>1 DEF CommitCount
  <1> QED BY <1>1, <1>2, QueuedSteps

LEMMA SleepCountStep ==
    ASSUME Types, RefAccounting, SleepCount, [Next]_vars PROVE SleepCount'
  <1> SUFFICES ASSUME NEW f \in Files, pc'[f] = "slpq"
               PROVE  ~Passed(count'[req'[f].crtc], req'[f].seq)
    BY DEF SleepCount, Passed
  <1>1. CASE WaitCheck(f)
    <2>1. req' = req /\ count' = count
      BY <1>1 DEF WaitCheck, countVars
    <2>2. Goto(f, "put") => pc'[f] = "put"
      BY DEF Goto, Types
    <2> QED BY <1>1, <2>1, <2>2 DEF WaitCheck
  <1>2. CASE pc[f] = "slpq" /\ req'[f] = req[f]
    <2>1. ~TimeLockFree /\ req[f].crtc \in Crtcs
      BY <1>2 DEF TimeLockFree, Types
    <2> QED BY <1>2, <2>1, CountSteps DEF SleepCount
  <1> QED BY <1>1, <1>2, LabelSteps

LEMMA WakeupStep ==
    ASSUME Types, RefAccounting, SleepCount, NoLostWakeup, [Next]_vars PROVE NoLostWakeup'
  <1> SUFFICES ASSUME NEW f \in Files, pc'[f] = "sleep",
                      Passed(count'[req'[f].crtc], req'[f].seq)
               PROVE  off' = req'[f].crtc
    BY DEF NoLostWakeup, Passed
  <1>1. CASE WaitSleep(f)
    BY <1>1 DEF WaitSleep, countVars, SleepCount
  <1>2. CASE pc[f] = "sleep" /\ req'[f] = req[f]
    <2> DEFINE c == req[f].crtc
    <2>1. c \in Crtcs /\ f \in ClientHolds(c) /\ f \in Waiting({c})
      BY <1>2 DEF Types, ClientHolds, Waiting
    <2>2. refcount[c] # 0
      BY <2>1, NoRefs
    <2>3. ASSUME NEW S, Wake(S), f \in S PROVE FALSE
      BY <1>2, <2>3 DEF Wake
    <2>4. CASE count'[c] = count[c]
      <3>1. off = c
        BY <1>2, <2>4 DEF NoLostWakeup
      <3>2. ~VblankOffSends
        BY <2>1, <2>3, <3>1 DEF VblankOffSends
      <3>3. off # NoCrtc
        BY <2>1, <3>1, CrtcsFinite
      <3> QED BY <1>2, <3>1, <3>2, <3>3, OwnerSteps
    <2>5. CASE HandleVblank(c) /\ count'[c] # count[c]
      BY <2>1, <2>3, <2>5 DEF HandleVblank, countVars
    <2>6. CASE VblankOff(c)
      BY <1>2, <2>6 DEF VblankOff
    <2> QED BY <2>1, <2>2, <2>4, <2>5, <2>6, CountSteps
  <1> QED BY <1>1, <1>2, LabelSteps

-----------------------------------------------------------------------------
(* The disable timer of a modesetting driver.                                *)

\* A modesetting driver may disable from load on, and goes on to be allowed to.
Allowed == Kms => allowed

LEMMA AllowedStep == ASSUME Allowed, [Next]_vars PROVE Allowed'
  <1>1. Quiet => allowed' = allowed \/ allowed'
    BY DEF Quiet, Vblank, VblankOff, PreModeset, PostModeset, FlipGet, FlipPut, TimerFires,
       DisableFn, IrqUninstall, IrqInstall, SetOffDelay, vars, devVars
  <1>2. ASSUME NEW c \in Crtcs, HandleVblank(c) PROVE allowed' = allowed
    BY <1>2 DEF HandleVblank, devVars
  <1>3. HandleVblankEvents \/ VblankOffSends \/ IrqUninstallOff => allowed' = allowed
    BY DEF HandleVblankEvents, VblankOffSends, IrqUninstallOff, devVars
  <1>4. ASSUME NEW f \in Files,
               WaitVblank(f) \/ WaitGet(f) \/ WaitCheck(f) \/ WaitSleep(f) \/ WaitTimeout(f)
               \/ WaitPut(f) \/ QueueRead(f) \/ QueueCommit(f) \/ Read(f) \/ Close(f)
        PROVE  allowed' = allowed
    BY <1>4 DEF WaitVblank, WaitGet, WaitCheck, WaitSleep, WaitTimeout, WaitPut, QueueRead,
       QueueCommit, Read, Close, devVars
  <1> QED BY OtherSteps, <1>1, <1>2, <1>3, <1>4 DEF Allowed

\* What keeps IdleIsTimed for crtc k: the last put arms the timer.
Timed(k) == enabled[k] /\ refcount[k] = 0 => timer \/ scan <= k

LEMMA TimedPut ==
    ASSUME Types, NEW c \in Crtcs, NEW n \in Nat, Put(c, n), NEW k \in Crtcs, Timed(k),
           offdelay, UNCHANGED <<enabled, scan>>
    PROVE  Timed(k)'
  <1>1. refcount'[k] = 0 => timer' \/ refcount[k] = 0
    <2>1. n > 0 /\ refcount[c] = n => timer'
      BY DEF Put
    <2>2. refcount'[k] = refcount[k] - (IF k = c THEN n ELSE 0) /\ refcount[k] \in Int
      <3>1. n \in Int
        OBVIOUS
      <3> QED BY <3>1, PutIs DEF Types
    <2>3. refcount'[k] = 0 /\ refcount[k] # 0 => k = c /\ n > 0 /\ refcount[c] = n
      BY <2>2
    <2> QED BY <2>1, <2>3
  <1>2. timer => timer'
    BY DEF Put
  <1> QED BY <1>1, <1>2 DEF Timed

LEMMA TimedGet ==
    ASSUME Types, RefAccounting, NEW c \in Crtcs, NEW k \in Crtcs, Timed(k),
           GetOk(c) \/ GetFails(c), UNCHANGED <<timer, scan>>
    PROVE  Timed(k)'
  <1>1. CASE GetFails(c)
    BY <1>1 DEF GetFails, Timed
  <1>2. CASE GetOk(c) /\ k = c
    <2>1. refcount'[k] # 0
      BY <1>2, NoRefs DEF GetOk, Types
    <2> QED BY <2>1 DEF Timed
  <1>3. CASE GetOk(c) /\ k # c
    BY <1>3 DEF GetOk, Timed, Types
  <1> QED BY <1>1, <1>2, <1>3

LEMMA TimedSteps ==
    ASSUME Types, RefAccounting, allowed, offdelay, [Next]_vars, NEW k \in Crtcs, Timed(k)
    PROVE  Timed(k)'
  <1>1. ASSUME UNCHANGED <<enabled, refcount, timer, scan>> PROVE Timed(k)'
    BY <1>1 DEF Timed
  <1>2. ASSUME NEW c \in Crtcs, Vblank(c) \/ HandleVblank(c) PROVE Timed(k)'
    BY <1>1, <1>2 DEF Vblank, HandleVblank, timerVars
  <1>3. ASSUME NEW c \in Crtcs, VblankOff(c) PROVE Timed(k)'
    BY <1>3 DEF VblankOff, DisableAndSave, timerVars, Timed, Types
  <1>4. ASSUME NEW c \in Crtcs, PreModeset(c) \/ FlipGet(c) PROVE Timed(k)'
    BY <1>4, TimedGet DEF PreModeset, FlipGet, timerVars
  <1>5. ASSUME NEW c \in Crtcs, PostModeset(c) \/ FlipPut(c) PROVE Timed(k)'
    BY <1>1, <1>5, TimedPut DEF PostModeset, FlipPut
  <1>6. CASE TimerFires
    BY <1>6 DEF TimerFires, Timed, Crtcs
  <1>7. CASE DisableFn
    <2>1. scan \in Int /\ k \in Int
      BY DEF Types, Crtcs
    <2>2. CASE k = scan
      BY <1>7, <2>2 DEF DisableFn, DisableAndSave, Timed, Types
    <2>3. CASE k # scan
      BY <1>7, <2>1, <2>3 DEF DisableFn, DisableAndSave, Timed, Types
    <2> QED BY <2>2, <2>3
  <1>8. CASE IrqUninstall \/ IrqInstall \/ SetOffDelay \/ UNCHANGED vars
    BY <1>1, <1>8 DEF IrqUninstall, IrqInstall, SetOffDelay, vars, timerVars
  <1>9. CASE HandleVblankEvents
    <2>1. PICK due \in SUBSET Queued(hdl) : Put(hdl, Cardinality(due))
      BY <1>9 DEF HandleVblankEvents
    <2>2. Cardinality(due) \in Nat /\ hdl \in Crtcs
      BY <1>9, QueuedFinite, FS_Subset, FS_CardinalityType, OwnerCrtcs DEF HandleVblankEvents
    <2> QED BY <1>9, <2>1, <2>2, TimedPut DEF HandleVblankEvents
  <1>10. CASE VblankOffSends
    BY <1>10, TimedPut, OwnerCrtcs, QueuedCard DEF VblankOffSends
  <1>11. CASE IrqUninstallOff
    BY <1>11 DEF IrqUninstallOff, Timed
  <1>12. ASSUME NEW f \in Files, WaitGet(f) PROVE Timed(k)'
    BY <1>12, TimedGet DEF WaitGet, timerVars
  <1>13. ASSUME NEW f \in Files, WaitPut(f) \/ QueueCommit(f) PROVE Timed(k)'
    <2>1. req[f].crtc \in Crtcs
      BY DEF Types
    <2>2. CASE Put(req[f].crtc, 1)
      BY <1>13, <2>1, <2>2, TimedPut DEF WaitPut, QueueCommit
    <2>3. CASE UNCHANGED <<refcount, timer>>
      BY <1>1, <1>13, <2>3 DEF WaitPut, QueueCommit
    <2> QED BY <1>13, <2>2, <2>3 DEF WaitPut, QueueCommit
  <1>14. ASSUME NEW f \in Files,
               WaitVblank(f) \/ WaitCheck(f) \/ WaitSleep(f) \/ WaitTimeout(f)
               \/ QueueRead(f) \/ Read(f)
         PROVE  Timed(k)'
    BY <1>1, <1>14 DEF WaitVblank, WaitCheck, WaitSleep, WaitTimeout, QueueRead, Read,
       timerVars
  <1>15. ASSUME NEW f \in Files, Close(f) PROVE Timed(k)'
    <2> DEFINE mine == {e \in Queued(k) : ev[e].file = f}
    <2>1. /\ refcount'[k] = refcount[k] - Cardinality(mine)
          /\ timer => timer'
          /\ mine # {} /\ refcount[k] = Cardinality(mine) => timer'
          /\ enabled' = enabled /\ scan' = scan
      BY <1>15 DEF Close
    <2>2. CASE mine = {}
      <3>1. Cardinality(mine) = 0
        BY <2>2, FS_EmptySet
      <3>2. refcount'[k] = refcount[k]
        BY <2>1, <3>1 DEF Types
      <3> QED BY <2>1, <3>2 DEF Timed
    <2>3. CASE mine # {}
      <3>1. Cardinality(mine) \in Int
        BY QueuedFinite, FS_Subset, FS_CardinalityType
      <3>2. refcount[k] \in Int
        BY DEF Types
      <3> HIDE DEF mine
      <3>3. refcount'[k] = 0 => refcount[k] = Cardinality(mine)
        BY <2>1, <3>1, <3>2
      <3> QED BY <2>1, <2>3, <3>3 DEF Timed
    <2> QED BY <2>2, <2>3
  <1> QED BY OtherSteps, <1>2, <1>3, <1>4, <1>5, <1>6, <1>7, <1>8, <1>9, <1>10, <1>11, <1>12,
             <1>13, <1>14, <1>15 DEF Quiet

-----------------------------------------------------------------------------
(* The theorems.                                                            *)

IInv ==
    /\ Types /\ NewEvents /\ RefAccounting /\ SpaceAccounting
    /\ CommitCount /\ NoMissedEvent /\ SleepCount /\ NoLostWakeup
    /\ Allowed

LEMMA InitInv == Init => IInv
  <1> SUFFICES ASSUME Init PROVE IInv
    OBVIOUS
  <1>1. Types
    <2>1. /\ count \in [Crtcs -> Counts] /\ last \in [Crtcs -> Nat]
          /\ time \in [Crtcs -> [0 .. RB - 1 -> Nat]]
          /\ frame \in [Crtcs -> Nat] /\ irqPending \in [Crtcs -> BOOLEAN]
      <3>1. 0 \in Counts
        BY VblankAssumption DEF VblankAssumption, Counts
      <3>2. frame \in [Crtcs -> Nat]
        BY VblankAssumption DEF VblankAssumption, Init
      <3> QED BY <3>1, <3>2 DEF Init
    <2>2. /\ refcount \in [Crtcs -> Int] /\ enabled \in [Crtcs -> BOOLEAN]
          /\ flip \in [Crtcs -> BOOLEAN] /\ inmodeset \in [Crtcs -> {0, 1, 3}]
          /\ offs \in Nat /\ uninsts \in Nat
      BY DEF Init
    <2>7. irqEnabled \in BOOLEAN /\ uninst \in BOOLEAN /\ timer \in BOOLEAN
      BY DEF Init
    <2>6. allowed \in BOOLEAN /\ offdelay \in BOOLEAN
      BY VblankAssumption DEF VblankAssumption, Init
    <2>3. scan \in 0 .. NumCrtcs /\ hdl \in 0 .. NumCrtcs /\ off \in 0 .. NumCrtcs
      BY VblankAssumption DEF VblankAssumption, Init, NoCrtc
    <2>4. /\ ev \in [Events -> [st : {"free", "new", "queued", "ready"}, pipe : Crtcs,
                                file : Files \cup {NoFile}, seq : Counts]]
          /\ req \in [Files -> [crtc : Crtcs, seq : Counts, nextonmiss : BOOLEAN]]
      BY FreeType, ZeroReq DEF Init
    <2>5. /\ space \in [Files -> Nat]
          /\ pc \in [Files -> {"idle", "get", "check", "slpq", "sleep", "put", "queue",
                               "commit"}]
      BY VblankAssumption DEF VblankAssumption, Init
    <2> QED BY <2>1, <2>2, <2>3, <2>4, <2>5, <2>6, <2>7 DEF Types
  <1>2. \A c : Queued(c) = {} /\ ClientHolds(c) = {}
    BY DEF Init, Queued, ClientHolds, FreeEvent, Event
  <1>3. \A f : OwnedBy(f) = {}
    BY DEF Init, OwnedBy, FreeEvent, Event
  <1>4. Cardinality({}) = 0
    BY FS_EmptySet
  <1>5. RefAccounting
    <2> SUFFICES ASSUME NEW c \in Crtcs
                 PROVE  refcount[c] = Cardinality(ClientHolds(c)) + Cardinality(Queued(c))
                                      + One(inmodeset[c] = 3) + One(flip[c])
      BY DEF RefAccounting
    <2>1. refcount[c] = 0 /\ One(inmodeset[c] = 3) = 0 /\ One(flip[c]) = 0
      BY DEF Init, One
    <2>2. Cardinality(ClientHolds(c)) = 0 /\ Cardinality(Queued(c)) = 0
      BY <1>2, <1>4
    <2> QED BY <2>1, <2>2
  <1>6. SpaceAccounting
    <2> SUFFICES ASSUME NEW f \in Files
                 PROVE  space[f] + Cardinality(OwnedBy(f)) + One(pc[f] = "commit") = EventSpace
      BY DEF SpaceAccounting
    <2>1. space[f] = EventSpace /\ One(pc[f] = "commit") = 0
      BY DEF Init, One
    <2>2. Cardinality(OwnedBy(f)) = 0
      BY <1>3, <1>4
    <2> QED BY <2>1, <2>2, VblankAssumption DEF VblankAssumption
  <1>7. NewEvents
    BY DEF Init, NewEvents, FreeEvent, Event
  <1>8. NoMissedEvent
    BY <1>2 DEF NoMissedEvent
  <1>9. CommitCount /\ SleepCount /\ NoLostWakeup
    BY DEF Init, CommitCount, SleepCount, NoLostWakeup
  <1>10. Allowed
    BY DEF Init, Allowed
  <1> QED BY <1>1, <1>5, <1>6, <1>7, <1>8, <1>9, <1>10 DEF IInv

LEMMA StepInv == IInv /\ [Next]_vars => IInv'
  <1> SUFFICES ASSUME IInv, [Next]_vars PROVE IInv'
    OBVIOUS
  <1>1. Types'
    BY TypesStep DEF IInv
  <1>2. NewEvents' /\ RefAccounting' /\ SpaceAccounting'
    BY NewEventsStep, RefsStep, SpaceStep DEF IInv
  <1>3. CommitCount' /\ NoMissedEvent' /\ SleepCount' /\ NoLostWakeup'
    BY CommitStep, MissedStep, SleepCountStep, WakeupStep DEF IInv
  <1>4. Allowed'
    BY AllowedStep DEF IInv
  <1> QED BY <1>1, <1>2, <1>3, <1>4 DEF IInv

\* The inductive invariant holds in every behaviour.
THEOREM Invariance == Spec => []IInv
  BY InitInv, StepInv, PTL DEF Spec

\* The references that drm_vblank_get and drm_vblank_put count are those of
\* the waiters, the queued events, the mode set and the page flip, always.
THEOREM ReferencesCounted == Spec => []RefAccounting
  <1>1. IInv => RefAccounting
    BY DEF IInv
  <1> QED BY <1>1, Invariance, PTL

\* file_priv->event_space plus the events of the file is what it started with.
THEOREM SpaceCounted == Spec => []SpaceAccounting
  <1>1. IInv => SpaceAccounting
    BY DEF IInv
  <1> QED BY <1>1, Invariance, PTL

\* No interrupt leaves a due event in vblank_event_list behind.
THEOREM NothingMissed == Spec => []NoMissedEvent
  <1>1. IInv => NoMissedEvent
    BY DEF IInv
  <1> QED BY <1>1, Invariance, PTL

\* drm_wait_vblank does not sleep past the count it waits for.
THEOREM NoWakeupLost == Spec => []NoLostWakeup
  <1>1. IInv => NoLostWakeup
    BY DEF IInv
  <1> QED BY <1>1, Invariance, PTL

\* In a modesetting driver no step leaves an unused interrupt on with no timer
\* to turn it off, but the put of a last user while vblank_offdelay is 0.
THEOREM IdleInterruptTimed == Kms => (Spec => IdleIsTimed)
  <1>1. ASSUME Kms, IInv, [Next]_vars, NEW c \in Crtcs, LeftOn(c)'
        PROVE  LeftOn(c) \/ ~offdelay
    <2>1. allowed /\ scan \in Int /\ c \in Int /\ Types /\ RefAccounting
      BY <1>1 DEF IInv, Types, Allowed, Crtcs
    <2>2. scan' \in Int
      BY <1>1, StepInv DEF IInv, Types
    <2>3. ~Timed(c)'
      BY <1>1, <2>1, <2>2 DEF LeftOn, Timed
    <2>4. Timed(c) \/ LeftOn(c)
      BY <2>1 DEF LeftOn, Timed
    <2> QED BY <1>1, <2>1, <2>3, <2>4, TimedSteps
  <1>2. ASSUME Kms PROVE Spec => IdleIsTimed
    <2>1. IInv /\ [Next]_vars => [\A c \in Crtcs : LeftOn(c)' => LeftOn(c) \/ ~offdelay]_vars
      BY <1>1, <1>2
    <2> QED BY <2>1, Invariance, PTL DEF Spec, IdleIsTimed
  <1> QED BY <1>2

\* Every variable keeps its type; in particular no reference count and no
\* event space becomes negative, which is where the accounting is needed.
THEOREM TypeCorrect == Spec => []TypeOK
  <1>1. IInv => TypeOK
    <2> SUFFICES ASSUME IInv PROVE TypeOK
      OBVIOUS
    <2>1. ASSUME NEW c \in Crtcs PROVE refcount[c] \in Nat
      <3>1. refcount[c] >= 0
        BY NoRefs DEF IInv
      <3>2. refcount[c] \in Int
        BY DEF IInv, Types
      <3> QED BY <3>1, <3>2
    <2>2. refcount \in [Crtcs -> Nat]
      BY <2>1 DEF IInv, Types
    <2>3. ASSUME NEW f \in Files PROVE space[f] \in 0 .. EventSpace
      <3>1. /\ space[f] + Cardinality(OwnedBy(f)) + One(pc[f] = "commit") = EventSpace
            /\ space[f] \in Int /\ EventSpace \in Nat
        BY VblankAssumption DEF VblankAssumption, IInv, Types, SpaceAccounting
      <3>2. Cardinality(OwnedBy(f)) \in Nat /\ One(pc[f] = "commit") \in Nat
        BY OwnedFinite DEF One
      <3>3. space[f] <= EventSpace
        BY <3>1, <3>2
      <3>4. space[f] \in Nat
        BY DEF IInv, Types
      <3> QED BY <3>1, <3>3, <3>4
    <2> QED BY <2>2, <2>3 DEF IInv, Types, TypeOK
  <1> QED BY <1>1, Invariance, PTL

-----------------------------------------------------------------------------
(* The counter.                                                             *)

LEMMA Division ==
    ASSUME NEW M \in Nat \ {0}, NEW a \in Nat
    PROVE  \E q \in Nat : a = M * q + (a % M) /\ (a % M) \in 0 .. M - 1
  <1>1. a = M * (a \div M) + (a % M)
    OBVIOUS
  <1>2. a \div M \in Nat /\ (a % M) \in 0 .. M - 1
    OBVIOUS
  <1> QED BY <1>1, <1>2

LEMMA RemainderUnique ==
    ASSUME NEW M \in Nat \ {0}, NEW p \in Int, NEW q \in Int, NEW r \in 0 .. M - 1,
           NEW s \in 0 .. M - 1, M * p + r = M * q + s
    PROVE  r = s
  <1>1. M * (p - q) = s - r
    OBVIOUS
  <1>2. CASE p - q >= 1
    <2>1. M * (p - q) >= M BY <1>2
    <2> QED BY <2>1, <1>1
  <1>3. CASE p - q <= -1
    <2>1. M * (p - q) <= -M BY <1>3
    <2> QED BY <2>1, <1>1
  <1>4. CASE p = q
    BY <1>4, <1>1
  <1> QED BY <1>2, <1>3, <1>4

\* Counting on from a count that has wrapped.
LEMMA CountOn ==
    ASSUME NEW M \in Nat \ {0}, NEW a \in Nat, NEW d \in Nat
    PROVE  ((a % M) + d) % M = (a + d) % M
  <1> DEFINE r == a % M
             n == r + d
             m == a + d
             u == n % M
             v == m % M
  <1>1. PICK q \in Nat : a = M * q + r /\ r \in 0 .. M - 1
    BY Division
  <1> HIDE DEF r
  <1>2. n \in Nat /\ m \in Nat /\ m = M * q + n
    BY <1>1
  <1> HIDE DEF n, m
  <1>3. PICK s \in Nat : n = M * s + u /\ u \in 0 .. M - 1
    BY <1>2, Division
  <1>4. PICK t \in Nat : m = M * t + v /\ v \in 0 .. M - 1
    BY <1>2, Division
  <1> DEFINE w == q + s
  <1> HIDE DEF u, v
  <1>5. w \in Int /\ M * w + u = M * t + v
    BY <1>2, <1>3, <1>4
  <1> HIDE DEF w
  <1>6. u = v
    BY <1>3, <1>4, <1>5, RemainderUnique
  <1> QED BY <1>6 DEF u, v, n, m, r

LEMMA NotWrapped == ASSUME NEW n \in 0 .. HwMod - 1 PROVE n % HwMod = n
  BY VblankAssumption DEF VblankAssumption

\* What the exact count needs: a driver with precise timestamps, a hardware
\* counter that does not wrap, and nobody who turns the interrupt off with
\* drm_vblank_off or drm_irq_uninstall.
Uncut ==
    /\ Precise /\ MaxOffs = 0 /\ MaxUninstalls = 0
    /\ MaxFrame < HwMod /\ InitFrames \subseteq 1 .. HwMod - 1

\* The vblanks up to number n are counted, and the last one is dated.
CountedTo(c, n) == count[c] = n % CountMod /\ time[c][count[c] % RB] = n

\* While the interrupt is on, at most the vblank whose interrupt is pending is
\* missing from the count; while it is off, all that are not later than last.
Counted(c) ==
    /\ frame[c] \in 1 .. HwMod - 1
    /\ ~enabled[c] => last[c] \in 0 .. frame[c] /\ count[c] = last[c] % CountMod
    /\ enabled[c] => CountedTo(c, frame[c]) \/ (irqPending[c] /\ CountedTo(c, frame[c] - 1))

CInv == ~uninst /\ \A c \in Crtcs : Counted(c)

SameCount(c) ==
    /\ frame'[c] = frame[c] /\ irqPending'[c] = irqPending[c] /\ enabled'[c] = enabled[c]
    /\ count'[c] = count[c] /\ last'[c] = last[c] /\ time'[c] = time[c]

LEMMA CountedSame == ASSUME NEW c \in Crtcs, Counted(c), SameCount(c) PROVE Counted(c)'
  BY DEF Counted, CountedTo, SameCount

LEMMA SlotType == ASSUME Types, NEW c \in Crtcs PROVE count[c] % RB \in 0 .. RB - 1
  <1>1. count[c] \in Int
    BY DEF Types, Counts
  <1> QED BY <1>1, ModRB

\* A new date lies in its slot.
LEMMA Dated ==
    ASSUME Types, NEW c \in Crtcs, NEW n \in Counts, NEW t,
           time' = [time EXCEPT ![c][n % RB] = t]
    PROVE  time'[c][n % RB] = t /\ \A k \in Crtcs \ {c} : time'[k] = time[k]
  <1>1. n % RB \in 0 .. RB - 1
    BY ModRB DEF Counts
  <1> QED BY <1>1 DEF Types

\* The interrupt comes back on: drm_update_vblank_count makes up for the gap.
LEMMA CountedUpdate ==
    ASSUME Types, Uncut, NEW c \in Crtcs, ~enabled[c], UpdateCount(c), UNCHANGED hwVars,
           enabled' = [enabled EXCEPT ![c] = TRUE], Counted(c)
    PROVE  Counted(c)' /\ \A k \in Crtcs \ {c} : SameCount(k)
  <1>1. /\ frame[c] \in 1 .. HwMod - 1 /\ last[c] \in 0 .. frame[c] /\ HwMod \in Nat \ {0}
        /\ count[c] = last[c] % CountMod /\ CountMod \in Nat \ {0}
    BY VblankAssumption DEF Counted, VblankAssumption
  <1>2. HwCounter(c) = frame[c]
    BY <1>1, NotWrapped DEF HwCounter
  <1> DEFINE d == frame[c] - last[c]
             n == (count[c] + d) % CountMod
  <1>3. d \in Nat /\ last[c] \in Nat /\ last[c] + d = frame[c] /\ ~(HwCounter(c) < last[c])
    BY <1>1, <1>2
  <1>4. n = frame[c] % CountMod
    BY <1>1, <1>3, CountOn
  <1>5. n \in Counts
    BY <1>1, <1>4, ModCount
  <1>6. HwCounter(c) - last[c] + (IF HwCounter(c) < last[c] THEN MaxVblankCount ELSE 0) = d
    BY <1>1, <1>2, <1>3
  <1>7. /\ count' = [count EXCEPT ![c] = n] /\ last' = last
        /\ time' = [time EXCEPT ![c][n % RB] = frame[c]]
    BY <1>6 DEF UpdateCount, Uncut
  <1> HIDE DEF n, d
  <1>8. time'[c][n % RB] = frame[c] /\ \A k \in Crtcs \ {c} : time'[k] = time[k]
    BY <1>5, <1>7, Dated
  <1>9. /\ count'[c] = n /\ frame'[c] = frame[c] /\ enabled'[c]
        /\ \A k \in Crtcs \ {c} : count'[k] = count[k] /\ enabled'[k] = enabled[k]
    BY <1>7 DEF Types, hwVars
  <1>10. Counted(c)'
    BY <1>1, <1>4, <1>8, <1>9 DEF Counted, CountedTo
  <1> QED BY <1>7, <1>8, <1>9, <1>10 DEF SameCount, hwVars

\* vblank_disable_and_save counts what is pending and notes where it stopped.
LEMMA CountedDisable ==
    ASSUME Types, Uncut, NEW c \in Crtcs, enabled[c], DisableAndSave(c), UNCHANGED hwVars,
           Counted(c)
    PROVE  Counted(c)' /\ \A k \in Crtcs \ {c} : SameCount(k)
  <1>1. /\ frame[c] \in 1 .. HwMod - 1 /\ HwMod \in Nat \ {0} /\ CountMod \in Nat \ {0}
        /\ CountedTo(c, frame[c]) \/ CountedTo(c, frame[c] - 1)
    BY VblankAssumption DEF Counted, VblankAssumption
  <1>2. HwCounter(c) = frame[c]
    BY <1>1, NotWrapped DEF HwCounter
  <1>3. count'[c] = frame[c] % CountMod
    <2>1. CASE CountedTo(c, frame[c])
      BY <2>1 DEF CountedTo, DisableAndSave, Types
    <2>2. CASE CountedTo(c, frame[c] - 1)
      <3>1. count[c] = (frame[c] - 1) % CountMod /\ time[c][count[c] % RB] # frame[c]
        BY <1>1, <2>2 DEF CountedTo
      <3>2. count'[c] = (count[c] + 1) % CountMod
        BY <3>1 DEF DisableAndSave, Types, Uncut
      <3>3. frame[c] - 1 \in Nat /\ (frame[c] - 1) + 1 = frame[c]
        BY <1>1
      <3>4. (((frame[c] - 1) % CountMod) + 1) % CountMod = ((frame[c] - 1) + 1) % CountMod
        BY <1>1, <3>3, CountOn
      <3> QED BY <3>1, <3>2, <3>3, <3>4
    <2> QED BY <1>1, <2>1, <2>2
  <1>4. /\ last'[c] = frame[c] /\ ~enabled'[c] /\ frame'[c] = frame[c]
        /\ \A k \in Crtcs \ {c} : /\ last'[k] = last[k] /\ enabled'[k] = enabled[k]
                                  /\ count'[k] = count[k] /\ time'[k] = time[k]
    BY <1>2 DEF DisableAndSave, Types, hwVars
  <1>5. Counted(c)'
    BY <1>1, <1>3, <1>4 DEF Counted
  <1> QED BY <1>4, <1>5 DEF SameCount, hwVars

LEMMA CountedHandle ==
    ASSUME Types, Uncut, NEW c \in Crtcs, HandleVblank(c), Counted(c)
    PROVE  Counted(c)' /\ \A k \in Crtcs \ {c} : SameCount(k)
  <1>1. /\ frame[c] \in 1 .. HwMod - 1 /\ HwMod \in Nat \ {0} /\ CountMod \in Nat \ {0}
    BY VblankAssumption DEF Counted, VblankAssumption
  <1>2. /\ frame' = frame /\ enabled' = enabled /\ Precise
        /\ \A k \in Crtcs \ {c} : irqPending'[k] = irqPending[k]
    BY DEF HandleVblank, Types, Uncut
  <1>3. CASE UNCHANGED countVars /\ (enabled[c] => frame[c] = time[c][count[c] % RB])
    <2>1. enabled[c] => CountedTo(c, frame[c])
      <3>1. CountedTo(c, frame[c] - 1) => frame[c] # time[c][count[c] % RB]
        BY <1>1 DEF CountedTo
      <3> QED BY <1>3, <3>1 DEF Counted
    <2>2. Counted(c)'
      BY <1>2, <1>3, <2>1 DEF Counted, CountedTo, countVars
    <2> QED BY <1>2, <1>3, <2>2 DEF SameCount, countVars
  <1>4. CASE enabled[c] /\ ~(frame[c] = time[c][count[c] % RB])
    <2> DEFINE n == (count[c] + 1) % CountMod
    <2>1. /\ count' = [count EXCEPT ![c] = n] /\ last' = last
          /\ time' = [time EXCEPT ![c][n % RB] = frame[c]]
      BY <1>2, <1>4 DEF HandleVblank
    <2>2. n \in Counts
      BY NextCount
    <2>3. count[c] = (frame[c] - 1) % CountMod
      BY <1>4 DEF Counted, CountedTo
    <2>4. n = frame[c] % CountMod
      <3>1. frame[c] - 1 \in Nat /\ (frame[c] - 1) + 1 = frame[c]
        BY <1>1
      <3>2. (((frame[c] - 1) % CountMod) + 1) % CountMod = ((frame[c] - 1) + 1) % CountMod
        BY <1>1, <3>1, CountOn
      <3> QED BY <2>3, <3>1, <3>2
    <2> HIDE DEF n
    <2>5. time'[c][n % RB] = frame[c] /\ \A k \in Crtcs \ {c} : time'[k] = time[k]
      BY <2>1, <2>2, Dated
    <2>6. count'[c] = n /\ \A k \in Crtcs \ {c} : count'[k] = count[k]
      BY <2>1 DEF Types
    <2>7. Counted(c)'
      BY <1>1, <1>2, <1>4, <2>4, <2>5, <2>6 DEF Counted, CountedTo
    <2> QED BY <1>2, <2>1, <2>5, <2>6, <2>7 DEF SameCount
  <1>5. \/ UNCHANGED countVars /\ (enabled[c] => frame[c] = time[c][count[c] % RB])
        \/ enabled[c] /\ ~(frame[c] = time[c][count[c] % RB])
    <2>1. CASE ~enabled[c]
      BY <2>1 DEF HandleVblank, countVars
    <2>2. CASE enabled[c] /\ frame[c] = time[c][count[c] % RB]
      <3>1. UNCHANGED countVars BY <1>2, <2>2 DEF HandleVblank
      <3> QED BY <3>1, <2>2
    <2> QED BY <2>1, <2>2
  <1> QED BY <1>3, <1>4, <1>5

LEMMA CountedVblank ==
    ASSUME Types, Uncut, NEW c \in Crtcs, Vblank(c), Counted(c)
    PROVE  Counted(c)' /\ \A k \in Crtcs \ {c} : SameCount(k)
  <1>1. /\ frame[c] \in 1 .. HwMod - 1 /\ HwMod \in Nat \ {0} /\ MaxFrame \in Nat
        /\ frame[c] < MaxFrame /\ MaxFrame < HwMod
    BY VblankAssumption DEF Counted, VblankAssumption, Vblank, Uncut
  <1>2. /\ frame'[c] = frame[c] + 1 /\ (enabled[c] => ~irqPending[c] /\ irqPending'[c])
        /\ UNCHANGED <<count, last, time, enabled>>
        /\ \A k \in Crtcs \ {c} : frame'[k] = frame[k] /\ irqPending'[k] = irqPending[k]
    BY DEF Vblank, Types, countVars
  <1>3. frame'[c] \in 1 .. HwMod - 1 /\ frame'[c] - 1 = frame[c]
    BY <1>1, <1>2
  <1>4. ~enabled[c] => last[c] \in 0 .. frame'[c] /\ count[c] = last[c] % CountMod
    BY <1>1, <1>2 DEF Counted
  <1>5. enabled[c] => CountedTo(c, frame[c])
    BY <1>2 DEF Counted
  <1>6. Counted(c)'
    BY <1>2, <1>3, <1>4, <1>5 DEF Counted, CountedTo
  <1> QED BY <1>2, <1>6 DEF SameCount

LEMMA CountedGet ==
    ASSUME Types, Uncut, CInv, NEW c \in Crtcs, GetOk(c) \/ GetFails(c), UNCHANGED hwVars
    PROVE  \A k \in Crtcs : Counted(k)'
  <1>1. CASE UpdateCount(c) /\ ~enabled[c] /\ enabled' = [enabled EXCEPT ![c] = TRUE]
    BY <1>1, CountedUpdate, CountedSame DEF CInv
  <1>2. CASE UNCHANGED <<enabled, countVars>>
    BY <1>2, CountedSame DEF CInv, SameCount, hwVars, countVars
  <1> QED BY <1>1, <1>2 DEF GetOk, GetFails

LEMMA InitCounted == Uncut /\ Init => CInv
  <1> SUFFICES ASSUME Uncut, Init, NEW c \in Crtcs PROVE Counted(c)
    BY DEF Init, CInv
  <1>1. frame[c] \in 1 .. HwMod - 1 /\ HwMod \in Nat
    BY VblankAssumption DEF Init, Uncut, VblankAssumption
  <1>2. count[c] = 0 /\ last[c] = 0 /\ ~enabled[c]
    BY DEF Init
  <1>3. 0 % CountMod = 0
    BY VblankAssumption DEF VblankAssumption
  <1> QED BY <1>1, <1>2, <1>3 DEF Counted

LEMMA CountedStep == Uncut /\ IInv /\ CInv /\ [Next]_vars => CInv'
  <1> SUFFICES ASSUME Uncut, IInv, CInv, [Next]_vars PROVE CInv'
    OBVIOUS
  <1> USE DEF IInv
  <1>1. offs \in Nat /\ uninsts \in Nat
    BY DEF Types
  <1>2. ~IrqUninstall /\ ~IrqUninstallOff
    BY <1>1 DEF IrqUninstall, IrqUninstallOff, Uncut, CInv
  <1>3. ASSUME NEW c \in Crtcs PROVE ~VblankOff(c)
    BY <1>1 DEF VblankOff, Uncut
  <1>4. ASSUME NEW c \in Crtcs, Vblank(c) \/ HandleVblank(c) PROVE CInv'
    <2>1. uninst' = uninst
      BY <1>4 DEF Vblank, HandleVblank, lockVars
    <2>2. \A k \in Crtcs : Counted(k)'
      BY <1>4, CountedVblank, CountedHandle, CountedSame DEF CInv
    <2> QED BY <2>1, <2>2 DEF CInv
  <1>5. ASSUME NEW c \in Crtcs, PreModeset(c) \/ FlipGet(c) PROVE CInv'
    <2>1. uninst' = uninst /\ UNCHANGED hwVars /\ (GetOk(c) \/ GetFails(c))
      BY <1>5 DEF PreModeset, FlipGet, lockVars
    <2>2. \A k \in Crtcs : Counted(k)'
      BY <2>1, CountedGet
    <2> QED BY <2>1, <2>2 DEF CInv
  <1>6. ASSUME NEW f \in Files, WaitGet(f) PROVE CInv'
    <2>1. PICK c \in Crtcs : GetOk(c) \/ GetFails(c)
      BY <1>6 DEF WaitGet
    <2>2. uninst' = uninst /\ UNCHANGED hwVars
      BY <1>6 DEF WaitGet, lockVars
    <2>3. \A k \in Crtcs : Counted(k)'
      BY <2>1, <2>2, CountedGet
    <2> QED BY <2>2, <2>3 DEF CInv
  <1>7. CASE DisableFn
    <2>1. uninst' = uninst /\ UNCHANGED hwVars /\ scan \in Crtcs
      BY <1>7, OwnerCrtcs DEF DisableFn, lockVars
    <2>2. CASE enabled[scan] /\ DisableAndSave(scan)
      BY <2>1, <2>2, CountedDisable, CountedSame DEF CInv
    <2>3. CASE UNCHANGED <<enabled, countVars>>
      BY <2>1, <2>3, CountedSame DEF CInv, SameCount, hwVars, countVars
    <2> QED BY <1>7, <2>2, <2>3 DEF DisableFn
  <1> DEFINE Same == UNCHANGED <<uninst, frame, irqPending, enabled, count, last, time>>
  <1>8. Same => CInv'
    BY CountedSame DEF CInv, SameCount
  <1>9. ASSUME NEW c \in Crtcs, PostModeset(c) \/ FlipPut(c) PROVE Same
    BY <1>9 DEF PostModeset, FlipPut, lockVars, hwVars, countVars
  <1>10. CASE TimerFires \/ IrqInstall \/ SetOffDelay \/ UNCHANGED vars \/ HandleVblankEvents
              \/ VblankOffSends
    BY <1>8, <1>10 DEF TimerFires, IrqInstall, SetOffDelay, vars, HandleVblankEvents, VblankOffSends, lockVars,
       hwVars, countVars
  <1>11. ASSUME NEW f \in Files,
                WaitVblank(f) \/ WaitCheck(f) \/ WaitSleep(f) \/ WaitTimeout(f) \/ WaitPut(f)
                \/ QueueRead(f) \/ QueueCommit(f) \/ Read(f) \/ Close(f)
         PROVE  Same
    BY <1>11 DEF WaitVblank, WaitCheck, WaitSleep, WaitTimeout, WaitPut, QueueRead, QueueCommit,
       Read, Close, lockVars, hwVars, countVars
  <1> HIDE DEF Same
  <1> QED BY OtherSteps, <1>2, <1>3, <1>4, <1>5, <1>6, <1>7, <1>8, <1>9, <1>10, <1>11 DEF Quiet

\* The cooked counter is the number of vblanks whenever the interrupt is on and
\* handled, whatever was missed while it was off, for every counter width.
THEOREM CounterExact == Uncut => (Spec => []CountExact)
  <1>1. CInv => CountExact
    BY DEF CInv, Counted, CountedTo, CountExact
  <1>2. ASSUME Uncut PROVE Spec => []CountExact
    <2>1. Init => CInv
      BY <1>2, InitCounted
    <2>2. IInv /\ CInv /\ [Next]_vars => CInv'
      BY <1>2, CountedStep
    <2> QED BY <1>1, <2>1, <2>2, InitInv, StepInv, PTL DEF Spec
  <1> QED BY <1>2

=============================================================================
