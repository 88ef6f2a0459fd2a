SPECIFICATION Spec
CONSTANTS
  root = root
  o = o
  x = x
  y = y
  v = v
  g = g
  Nil = Nil
  Absent = Absent
  Gone = Gone
  Obj = {root, o}
  Root = root
  Key = {x, y}
  Val = {v}
  Instr = {g}
  KeyOf <- TheKeys
  Hash <- TheHash
  Prealloc = {2}
  DefaultSize = 1
  ToHash = 2
  UidLimit = 2
  MaxUid = 3
  MaxSize = 6
  Quirks = {}
INVARIANTS
  CacheExact
  Lookups
PROPERTIES
  Implements
CHECK_DEADLOCK FALSE
