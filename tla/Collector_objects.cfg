SPECIFICATION Spec
CONSTANTS
  o1 = o1
  o2 = o2
  t1 = t1
  t2 = t2
  g = g
  k = k
  Nil = Nil
  Obj = {o1, o2}
  Tab = {t1, t2}
  Ctx = {g}
  Key = {k}
  Global = g
  MaxStack = 2
  MaxFrames = 1
  MaxFunctions = 0
  Protos = TRUE
  AnyLoc = FALSE
SYMMETRY Symmetry
INVARIANTS
  Remembered
  GenIsHeap
  NoDangling
  SharingMarked
PROPERTIES
  Transparent
