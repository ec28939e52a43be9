SPECIFICATION ObjectsSpec
CONSTANTS
  f1 = f1
  f2 = f2
  t1 = t1
  t2 = t2
  buffer = buffer
  o1 = o1
  o2 = o2
  Files = {f1}
  Threads = {t1, t2}
  FileOf <- Shared
  Objects = {o1, o2}
  NoObject = NoObject
  Nobody = Nobody
  NumHandles = 1
  NumNames = 1
SYMMETRY Symmetry
INVARIANT NoDangling
