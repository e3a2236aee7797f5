SPECIFICATION Spec
CONSTANTS
  Conn = {c1, c2}
  Device = {d1}
  Stalled = {c1}
  Timed = {c1}
  Kickers = {k1}
  Pushers = {}
  Closers = {s1}
  None = None
INVARIANTS
  StoreEntriesServed
  LatestSessionReachable
  
  ClosedReported
CHECK_DEADLOCK FALSE
