SPECIFICATION Spec
CONSTANTS
  Gens = {"i9xx", "ibx", "cpt"}
  Crtcs = {0, 1}
  vga = vga
  edp = edp
  hdmi = hdmi
  ev = ev
  ee = ee
  eh = eh
  f1 = f1
  f2 = f2
  own1 = own1
  own2 = own2
  pa = pa
  pb = pb
  Connectors = {vga, edp, hdmi}
  Encoders = {ev, ee, eh}
  Attached <- MCAttached
  Possible <- MCPossible
  CpuEdp = {ee}
  Crt = {ev}
  Fbs = {f1, f2}
  Modes = {"m1"}
  Depth <- MCDepth
  None = None
  OnlyFirst = TRUE
SYMMETRY Symmetric
CHECK_DEADLOCK FALSE
INVARIANTS TypeOK ModesetSafe FlipSafe KmsSafe OutputsSafe
