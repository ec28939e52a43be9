------------------------------ MODULE I915Irq ------------------------------
(***************************************************************************)
(* The interrupts of drm/i915 (i915_irq.c, intel_ringbuffer.c): masks that *)
(* follow who waits, handlers that read, acknowledge and serve while more  *)
(* events arrive, the uninstallation around a reset, the parity work, and  *)
(* the one error state that is kept.                                       *)
(***************************************************************************)
EXTENDS Naturals, FiniteSets

CONSTANTS IrqChips,      \* the families of handlers that are looked at
          MaxHolders,    \* bound on the references to the ring's interrupt
          Captures,      \* error states that may be captured
          NoCapture

VARIABLES irqchip,   \* [family, msi]
          installed, \* dev->irq_enabled, the enable register
          opened,    \* what irq_mask, gt_irq_mask, pch_irq_mask leave open
          imr,       \* and the hardware's mask registers
          holders,   \* ring->irq_refcount
          scanning,  \* vblanks are wanted: the pipestat or display mask bit
          iir,       \* pending, and those with a second event behind (PCH)
          stat,      \* PIPESTAT holds a vblank
          message,   \* a message is on its way
          handler,   \* [at, iir, stat]
          parity,    \* ivybridge_parity_work is queued or runs
          owed,      \* events that somebody waits for
          deaf,      \* holders whose bit a reset closed
          errs       \* [first, refs, open]: captured error states
irqVars == <<irqchip, installed, opened, imr, holders, scanning, iir, stat, message, handler, parity, owed, deaf, errs>>
chipVars == <<installed, opened, imr, holders, scanning, iir, stat, message, handler, parity, owed, deaf>>

Bits == {"user", "pipe", "port", "parity"}
Old == {"i8xx", "i915", "i965"}
Pch == {"ilk", "ivb"}
Idle == [at |-> "idle", iir |-> {}, stat |-> FALSE]
HasPipestat == irqchip.family \in Old \cup {"vlv"}
\* What is enabled, and what the installation leaves open: vblanks and the
\* ring's interrupt are opened when they are asked for.
Enabled(c) == CASE c = "i8xx" -> {"user", "pipe"} [] c = "ivb" -> Bits [] OTHER -> {"user", "pipe", "port"}
OpenedFirst(c) == Enabled(c) \ ({"user"} \cup (IF c \in Pch THEN {"pipe"} ELSE {}))

IrqInit ==
    /\ irqchip \in [family : IrqChips, msi : BOOLEAN] /\ irqchip.msi = (irqchip.family \notin {"i8xx", "errors"})
    /\ installed = FALSE /\ opened = {} /\ imr = {} /\ holders = 0 /\ scanning = FALSE
    /\ iir = [one |-> {}, two |-> {}] /\ stat = FALSE /\ message = FALSE /\ handler = Idle
    /\ parity = FALSE /\ owed = {} /\ deaf = FALSE
    /\ errs = [first |-> NoCapture, refs |-> [k \in Captures |-> 0], open |-> {}, taking |-> {}]
------------------------------------------------------------------------------
\* The chip: an event that is open gets its bit; a message goes out when the
\* first bit of all is set.  The registers of a split chip hold a second event.
Twice(b) == irqchip.family \in Pch \/ (irqchip.family = "vlv" /\ b = "user")
Raised(e) == [one |-> iir.one \cup {e}, two |-> iir.two \cup {b \in iir.one \cap {e} : Twice(b)}]
Acked(s) == [one |-> (iir.one \ s) \cup (iir.two \cap s), two |-> iir.two \ s]
Announces(next) == installed /\ handler.at # "master" /\ iir.one = {} /\ next.one # {}
Sets(e) == /\ iir' = Raised(e) /\ message' = (message \/ Announces(iir'))

Event(e) ==
    /\ installed /\ e \in imr \cap Enabled(irqchip.family) /\ (e = "pipe" => ~HasPipestat)
    /\ Sets(e)
    /\ owed' = owed \cup (IF e = "user" /\ holders = 0 THEN {} ELSE {e})
    /\ UNCHANGED <<installed, opened, imr, holders, scanning, stat, handler, parity, deaf>>
\* A vblank on chips with PIPESTAT: only its first setting sets the bit.
Vblank ==
    /\ installed /\ HasPipestat /\ scanning
    /\ stat' = TRUE /\ IF stat THEN UNCHANGED <<iir, message>> ELSE Sets("pipe")
    /\ owed' = owed \cup {"pipe"}
    /\ UNCHANGED <<installed, opened, imr, holders, scanning, handler, parity, deaf>>
------------------------------------------------------------------------------
\* ring->irq_get and irq_put of all generations
GetIrq ==
    /\ installed /\ holders < MaxHolders /\ holders' = holders + 1
    /\ IF holders = 0 THEN opened' = opened \cup {"user"} /\ imr' = opened' ELSE UNCHANGED <<opened, imr>>
    /\ UNCHANGED <<installed, scanning, iir, stat, message, handler, parity, owed, deaf>>
\* Mutant: whoever puts first closes it
PutClosing ==
    /\ holders > 0 /\ holders' = holders - 1
    /\ opened' = opened \ {"user"} /\ imr' = opened'
    /\ owed' = (IF holders = 1 THEN owed \ {"user"} ELSE owed) /\ deaf' = (deaf /\ holders > 1)
    /\ UNCHANGED <<installed, scanning, iir, stat, message, handler, parity>>
PutIrq ==
    /\ holders > 0 /\ holders' = holders - 1
    /\ IF holders = 1 THEN opened' = opened \ {"user"} /\ imr' = opened' ELSE UNCHANGED <<opened, imr>>
    /\ owed' = (IF holders = 1 THEN owed \ {"user"} ELSE owed) /\ deaf' = (deaf /\ holders > 1)
    /\ UNCHANGED <<installed, scanning, iir, stat, message, handler, parity>>

\* enable_vblank and disable_vblank
EnableVblank ==
    /\ installed /\ ~scanning /\ scanning' = TRUE
    /\ IF HasPipestat THEN stat' = FALSE /\ UNCHANGED <<opened, imr>>    \* the status is cleared with it
       ELSE opened' = opened \cup {"pipe"} /\ imr' = opened' /\ UNCHANGED stat
    /\ UNCHANGED <<installed, holders, iir, message, handler, parity, owed, deaf>>
DisableVblank ==
    /\ scanning /\ scanning' = FALSE
    /\ IF HasPipestat THEN UNCHANGED <<opened, imr>> ELSE opened' = opened \ {"pipe"} /\ imr' = opened'
    /\ owed' = owed \ {"pipe"}
    /\ UNCHANGED <<installed, holders, iir, stat, message, handler, parity, deaf>>

\* preinstall and postinstall; on the Valleyview gt_irq_mask is what it was.
Install ==
    /\ ~installed /\ handler = Idle /\ installed' = TRUE
    /\ opened' = OpenedFirst(irqchip.family)
                 \cup {b \in {"user"} : irqchip.family = "vlv" /\ (b \in opened \/ (opened = {} /\ holders = 0))}
    /\ imr' = opened' /\ iir' = [one |-> {}, two |-> {}] /\ stat' = FALSE /\ message' = FALSE
    /\ deaf' = (holders > 0 /\ "user" \notin opened')
    /\ UNCHANGED <<holders, scanning, handler, parity, owed>>
\* drm_irq_uninstall: nobody waits for vblanks any more; a handler may be running.
Uninstall ==
    /\ installed /\ installed' = FALSE
    /\ opened' = (IF irqchip.family = "vlv" THEN opened ELSE {}) /\ imr' = {}
    /\ iir' = [one |-> {}, two |-> {}] /\ stat' = FALSE /\ message' = FALSE
    /\ scanning' = FALSE /\ owed' = {}
    /\ UNCHANGED <<holders, handler, parity, deaf>>
------------------------------------------------------------------------------
\* The handlers.  Each is in a thread of its own: one runs at a time.
Line == installed /\ (iir.one # {} \/ stat)
Enter ==
    /\ handler = Idle /\ IF irqchip.msi THEN message ELSE Line
    /\ message' = FALSE
    /\ handler' = CASE irqchip.family \in Pch -> [Idle EXCEPT !.at = "master"]
                    [] irqchip.family = "i8xx" /\ iir.one = {} -> Idle
                    [] OTHER -> [Idle EXCEPT !.at = IF irqchip.family = "vlv" THEN "rings" ELSE "lock", !.iir = iir.one]
    /\ UNCHANGED <<installed, opened, imr, holders, scanning, iir, stat, parity, owed, deaf>>

\* A parity error is closed until the work that it queues has run.
Queues(s) == parity' = (parity \/ "parity" \in s)
Closes(s) == IF "parity" \in s THEN opened' = opened \ {"parity"} /\ imr' = (IF installed THEN opened' ELSE imr)
             ELSE UNCHANGED <<opened, imr>>

\* irq_lock: PIPESTAT is read and cleared.
Lock ==
    /\ handler.at = "lock"
    /\ stat' = FALSE
    /\ handler' = IF handler.iir = {} /\ ~stat THEN Idle ELSE [handler EXCEPT !.at = "ack", !.stat = stat]
    /\ UNCHANGED <<installed, opened, imr, holders, scanning, iir, message, parity, owed, deaf>>
\* A port that was plugged after the handler looked sets its bit again.
Plugged(next) == [next EXCEPT !.one = @ \cup (owed \cap {"port"})]
Ack ==
    /\ handler.at = "ack"
    /\ owed' = IF irqchip.family = "vlv" THEN owed ELSE owed \ (handler.iir \cap {"port"})
    /\ iir' = IF irqchip.family = "vlv" THEN Plugged(Acked(handler.iir)) ELSE Acked(handler.iir)
    /\ handler' = [handler EXCEPT !.at = IF irqchip.family = "vlv" THEN "again" ELSE "read"]
    /\ UNCHANGED <<installed, opened, imr, holders, scanning, stat, message, parity, deaf>>
\* The rings and vblanks are served after the acknowledgement, with the new bits
\* read in between; the older two handlers leave when these are empty.
\* Mutant: the handler of generation 4 leaves too
LeavesEarly(new) == new = {}
Leaves(new) == new = {} /\ irqchip.family # "i965"
Read ==
    /\ handler.at = "read"
    /\ owed' = owed \ ((handler.iir \cap {"user"}) \cup (IF handler.stat THEN {"pipe"} ELSE {}))
    /\ handler' = IF Leaves(iir.one) THEN Idle ELSE [Idle EXCEPT !.at = "lock", !.iir = iir.one]
    /\ UNCHANGED <<installed, opened, imr, holders, scanning, iir, stat, message, parity, deaf>>

\* valleyview_irq_handler: rings, PIPESTAT, vblanks and port, then the acknowledgement,
\* until nothing is pending in IIR
Rings ==
    /\ handler.at = "rings" /\ owed' = owed \ (handler.iir \cap {"user"})
    /\ handler' = IF handler.iir = {} THEN Idle ELSE [handler EXCEPT !.at = "pipes"]
    /\ UNCHANGED <<installed, opened, imr, holders, scanning, iir, stat, message, parity, deaf>>
Pipes ==
    /\ handler.at = "pipes" /\ stat' = FALSE
    /\ owed' = owed \ ((handler.iir \cap {"port"}) \cup (IF stat THEN {"pipe"} ELSE {}))
    /\ handler' = [handler EXCEPT !.at = "ack"]
    /\ UNCHANGED <<installed, opened, imr, holders, scanning, iir, message, parity, deaf>>
Again ==
    /\ handler.at = "again" /\ handler' = [Idle EXCEPT !.at = "rings", !.iir = iir.one]
    /\ UNCHANGED <<installed, opened, imr, holders, scanning, iir, stat, message, parity, owed, deaf>>

\* ironlake_irq_handler and ivybridge_irq_handler, with the master interrupt off:
\* everything is read, served and acknowledged; Ivybridge in turn the GT, then the display.
Groups == IF irqchip.family = "ivb" THEN {{"user", "parity"}, {"pipe", "port"}} ELSE {Bits}
Serve ==
    /\ handler.at = "master"
    /\ \E g \in Groups :
       /\ iir.one \cap g # {} /\ ("user" \in iir.one => "user" \in g)
       /\ handler' = [handler EXCEPT !.at = "served", !.iir = iir.one \cap g]
       /\ owed' = owed \ (iir.one \cap g)
       /\ Queues(iir.one \cap g) /\ Closes(iir.one \cap g)
    /\ UNCHANGED <<installed, holders, scanning, iir, stat, message, deaf>>
Done ==
    /\ handler.at = "served"
    /\ iir' = Acked(handler.iir) /\ handler' = [handler EXCEPT !.at = "master", !.iir = {}]
    /\ UNCHANGED <<installed, opened, imr, holders, scanning, stat, message, parity, owed, deaf>>
\* Mutant: the master interrupt comes back without a look at what is pending
LeaveBlind == handler.at = "master" /\ handler' = Idle
              /\ UNCHANGED <<installed, opened, imr, holders, scanning, iir, stat, message, parity, owed, deaf>>
\* Turning the master on again announces what is pending.
Leave ==
    /\ handler.at = "master" /\ handler' = Idle
    /\ message' = (message \/ (installed /\ iir.one # {}))
    /\ UNCHANGED <<installed, opened, imr, holders, scanning, iir, stat, parity, owed, deaf>>

\* ivybridge_parity_work
ParityWork ==
    /\ parity /\ parity' = FALSE
    /\ opened' = opened \cup {"parity"} /\ imr' = opened'
    /\ UNCHANGED <<installed, holders, scanning, iir, stat, message, handler, owed, deaf>>
------------------------------------------------------------------------------
\* i915_capture_error_state: if there is none, it is filled without the lock,
\* and kept if there is still none.
Fresh(k) == errs.refs[k] = 0 /\ k \notin errs.taking
Capture(k) == /\ errs.first = NoCapture /\ Fresh(k) /\ errs' = [errs EXCEPT !.taking = @ \cup {k}, !.refs[k] = 1]
\* Mutant: the second to finish replaces the first
KeepLast(k) == /\ k \in errs.taking
               /\ errs' = [errs EXCEPT !.taking = @ \ {k}, !.first = k]
Keep(k) ==
    /\ k \in errs.taking
    /\ errs' = IF errs.first = NoCapture THEN [errs EXCEPT !.taking = @ \ {k}, !.first = k]
               ELSE [errs EXCEPT !.taking = @ \ {k}, !.refs[k] = 0]
\* i915_error_state, a reader of the sysctl, and i915_destroy_error_state
Look == errs.first # NoCapture /\ errs' = [errs EXCEPT !.refs[errs.first] = @ + 1, !.open = @ \cup {errs.first}]
        /\ errs.first \notin errs.open
Looked(k) == k \in errs.open /\ errs' = [errs EXCEPT !.refs[k] = @ - 1, !.open = @ \ {k}]
Destroy == errs.first # NoCapture /\ errs' = [errs EXCEPT !.refs[errs.first] = @ - 1, !.first = NoCapture]

IrqNext ==
    \/ /\ irqchip.family = "errors" /\ UNCHANGED <<irqchip, chipVars>>
       /\ (\E k \in Captures : Capture(k) \/ Keep(k) \/ Looked(k)) \/ Look \/ Destroy
    \/ /\ irqchip.family # "errors" /\ UNCHANGED <<irqchip, errs>>
       /\ \/ (\E e \in Bits : Event(e)) \/ Vblank \/ GetIrq \/ PutIrq \/ EnableVblank \/ DisableVblank
          \/ Install \/ Uninstall \/ Enter \/ Lock \/ Ack \/ Read \/ Rings \/ Pipes \/ Again
          \/ Serve \/ Done \/ Leave \/ ParityWork
IrqSpec == IrqInit /\ [][IrqNext]_irqVars
------------------------------------------------------------------------------
IrqTypeOK ==
    /\ irqchip.family \in {"i8xx", "i915", "i965", "ilk", "ivb", "vlv", "errors"} /\ irqchip.msi \in BOOLEAN
    /\ installed \in BOOLEAN /\ opened \subseteq Bits /\ imr \subseteq Bits /\ holders \in 0..MaxHolders
    /\ scanning \in BOOLEAN /\ iir.one \subseteq Bits /\ iir.two \subseteq iir.one /\ stat \in BOOLEAN /\ message \in BOOLEAN
    /\ handler \in [at : {"idle", "lock", "ack", "read", "rings", "pipes", "again", "master", "served"}, iir : SUBSET Bits, stat : BOOLEAN]
    /\ parity \in BOOLEAN /\ owed \subseteq Bits /\ deaf \in BOOLEAN
    /\ errs.first \in Captures \cup {NoCapture} /\ \A k \in Captures : errs.refs[k] \in 0..2

\* What somebody waits for is still announced when no handler runs, but for a
\* vblank that falls between the clearing of PIPESTAT and the acknowledgement
\* (i915_irq_handler and valleyview_irq_handler with messages).
Overlooked == irqchip.msi /\ irqchip.family \in {"i915", "vlv"} /\ stat /\ "pipe" \notin iir.one
Announced == handler = Idle /\ installed /\ owed \ {b \in {"pipe"} : Overlooked} # {} =>
                 IF irqchip.msi THEN message ELSE Line
\* The ring's interrupt is open as long as anybody holds it, unless they held it
\* over a reset; and closed when nobody does, but on a fresh Valleyview.
OpenForHolders == installed => /\ holders > 0 => "user" \in imr \/ deaf
                               /\ holders = 0 => "user" \notin imr \/ irqchip.family = "vlv"
\* A parity error stays closed only until its work has run.
ParityComesBack == installed /\ irqchip.family = "ivb" /\ "parity" \notin imr => parity
\* Every captured state is the first one, being filled or being read, counted as such.
ErrorsCounted == \A k \in Captures :
    errs.refs[k] = Cardinality({x \in {"first"} : errs.first = k} \cup {x \in {"open"} : k \in errs.open}
                               \cup {x \in {"taking"} : k \in errs.taking})
IrqSafe == Announced /\ OpenForHolders /\ ParityComesBack /\ ErrorsCounted
=============================================================================
