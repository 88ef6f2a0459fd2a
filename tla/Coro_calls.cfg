SPECIFICATION FairSpec
CONSTANTS
  m = m
  main = main
  none = none
  exc = exc
  Nil = Nil
  Coro = {m}
  MainCoro = m
  Thread = {main}
  MainThread = main
  Value = {}
  None = none
  Exc = exc
  FirstSize = 1
  MaxMem = 2
  MaxFrames = 2
  MaxBlocks = 2
  MaxDepth = 4
  Quirks = {"fault"}
INVARIANTS
  TypeOK
  Nested
  NativeFlagExact
PROPERTIES
  ArgumentsBound
  ExceptionsEnd
  Nests
CHECK_DEADLOCK FALSE
