SPECIFICATION FairSpec
CONSTANTS
  t1 = t1
  t2 = t2
  o1 = o1
  Threads = {t1, t2}
  Objects = {o1}
  Handles = {h1, h2}
  NoThread = NoThread
  NoHandle = NoHandle
  ObjectOf <- OneObject
  Needs = {1, 2}
  MaxCalls = 2
  MaxWindows = 1
INVARIANTS
  SharedTypeOK
  SharingSafe
  ErrorsPaired
PROPERTIES
  HonoursContract
  CallsReturn
CHECK_DEADLOCK FALSE
