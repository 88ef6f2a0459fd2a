SPECIFICATION Spec
CONSTANTS
  m = m
  d = d
  main = main
  none = none
  exc = exc
  Nil = Nil
  Coro = {m, d}
  MainCoro = m
  Thread = {main}
  MainThread = main
  Value = {}
  None = none
  Exc = exc
  FirstSize = 2
  MaxMem = 4
  MaxFrames = 2
  MaxBlocks = 0
  MaxDepth = 5
  Quirks = {"reenter"}
INVARIANTS
  NotReentered
CHECK_DEADLOCK FALSE
