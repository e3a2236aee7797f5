SPECIFICATION FairSpec
CONSTANTS
  Conn = {c1, c2}
  Device = {d1}
  Stalled = {c1}
  Timed = {c1}
  Kickers = {}
  Pushers = {p1}
  Closers = {}
  None = None
PROPERTIES
  ImplementsRegistry
  
  PushesReturn
CHECK_DEADLOCK FALSE
