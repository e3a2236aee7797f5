SPECIFICATION Spec
CONSTANTS
  Conn = {c1}
  Device = {d1}
  Stalled = {}
  Timed = {c1}
  Kickers = {}
  Pushers = {p1}
  Closers = {}
  None = None
INVARIANTS
  PingsAnswered
CHECK_DEADLOCK FALSE
