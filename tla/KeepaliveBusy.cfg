SPECIFICATION Spec
CONSTANTS
  Second = 4
  Word = 8
  Options <- BusyOptions
  Policies <- MCPolicies
  Delay = 1
INVARIANTS
  LossIsReal
CHECK_DEADLOCK FALSE
