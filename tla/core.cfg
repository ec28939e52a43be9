SPECIFICATION CoreSpec
CHECK_DEADLOCK FALSE
CONSTANTS
  f1 = f1
  f2 = f2
  f3 = f3
  a1 = a1
  a2 = a2
  a3 = a3
  Files = {f1, f2, f3}
  Masters = {a1, a2}
  Root = {f1, f2}
  NoFile = NoFile
  NoMaster = NoMaster
  HeadNode = HeadNode
  None = None
  Nodes = {a1, a2, a3}
  End = 6
  Target = 1
  Requests <- MCRequests
  MaxMagic = 1
  Counts = {0, 1}
SYMMETRY Symmetric
INVARIANTS CoreTypeOK FileSafe MmSafe 
PROPERTIES OwnRanges LockSafe
