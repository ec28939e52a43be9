SPECIFICATION Spec
CONSTANTS
  o1 = o1
  o2 = o2
  o3 = o3
  p1 = p1
  p2 = p2
  other = other
  None = None
  LastEntry = 2
  MaxUserPins = 1
  MaxOpens = 1
  MaxCycles = 2
  MaxCalls = 2
  Size = 8
  Gap = 1
  Unused = 1
  MaxSeqno = 3
  RingGens = {2, 5}
SYMMETRY Symmetric
CHECK_DEADLOCK FALSE
INVARIANTS TypeOK RingSafe MemorySafe ServicesSafe
