SPECIFICATION Spec
CONSTANTS
  o1 = o1
  o2 = o2
  t1 = t1
  g = g
  c1 = c1
  c2 = c2
  k = k
  Nil = Nil
  Obj = {o1, o2}
  Tab = {t1}
  Ctx = {g, c1, c2}
  Key = {k}
  Global = g
  MaxStack = 1
  MaxFrames = 2
  MaxFunctions = 2
  Protos = FALSE
  AnyLoc = FALSE
SYMMETRY Symmetry
INVARIANTS
  TypeOK
  CountExact
  DestructorOnce
PROPERTIES
  Transparent
