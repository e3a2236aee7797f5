SPECIFICATION LFairSpec
CONSTANTS
  Conn = {c1}
  Device = {d1}
  Stalled = {c1}
  Timed = {}
  Kickers = {}
  Pushers = {}
  Closers = {s1}
  None = None
  Listeners = {l1, l2}
  WebSockets = {l2}
INVARIANT
  FailureReported
PROPERTIES
  ServingStops
  
CHECK_DEADLOCK FALSE
