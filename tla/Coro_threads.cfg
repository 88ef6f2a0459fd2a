SPECIFICATION Spec
CONSTANTS
  m = m
  d = d
  main = main
  u = u
  none = none
  exc = exc
  Nil = Nil
  Coro = {m, d}
  MainCoro = m
  Thread = {main, u}
  MainThread = main
  Value = {}
  None = none
  Exc = exc
  FirstSize = 2
  MaxMem = 2
  MaxFrames = 2
  MaxBlocks = 0
  MaxDepth = 4
  Quirks = {}
INVARIANTS
  NotReentered
  CaughtIsForgotten
PROPERTIES
  Nests
CHECK_DEADLOCK FALSE
