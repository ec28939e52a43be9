SPECIFICATION Spec
CONSTANTS
  NoFile = NoFile
  NumCrtcs = 1
  Files = {f1, f2}
  Events = {e1}
  EventSpace = 1
  CountMod = 16
  Window = 7
  HwMod = 16
  MaxVblankCount = 15
  Precise = TRUE
  Kms = TRUE
  OffDelays = {TRUE}
  InitFrames = {1}
  MaxFrame = 2
  MaxOffs = 1
  MaxUninstalls = 1
SYMMETRY Symmetry
INVARIANTS TypeOK RefAccounting NoMissedEvent SpaceAccounting NoLostWakeup
