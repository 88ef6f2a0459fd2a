SPECIFICATION Spec
CONSTANTS
  m = m
  w1 = w1
  w2 = w2
  Main = m
  Worker <- TwoWorkers
  Joiner <- Everyone
  AioUser <- OneWorker
  RingSize = 4
  EarlyClock = TRUE
INVARIANTS
  TypeOK
  GILExclusive
PROPERTIES
  
  RingIsStack
CHECK_DEADLOCK FALSE
