SPECIFICATION FairSpec
CONSTANTS
  m = m
  w1 = w1
  w2 = w2
  Main = m
  Worker <- TwoWorkers
  Joiner <- OnlyMain
  AioUser = {}
  RingSize = 4
  EarlyClock = FALSE
INVARIANTS
  PopFindsFlag
  HasIntExact
  OneYield
  GCNotLost
  JoinedAlone
PROPERTIES
  NothingAfterFree
  Scheduled
  ClockStops
