SPECIFICATION FairSpec
CONSTANTS
  NoFile = NoFile
  NumCrtcs = 1
  Files = {f1}
  Events = {e1}
  EventSpace = 1
  CountMod = 16
  Window = 7
  HwMod = 16
  MaxVblankCount = 15
  Precise = TRUE
  Kms = TRUE
  OffDelays = {TRUE, FALSE}
  InitFrames = {1}
  MaxFrame = 3
  MaxOffs = 0
  MaxUninstalls = 0
PROPERTIES WaitReturns EventFires IdleIsTimed
INVARIANTS CountExact
