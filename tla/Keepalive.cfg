SPECIFICATION FairSpec
CONSTANTS
  Second = 4
  Word = 8
  Options <- MCOptions
  Policies <- MCPolicies
  Delay = 1
INVARIANTS
  DeadPeerNoticed
  
  HealthyNotReaped
  AdaptiveBounded

  
CHECK_DEADLOCK FALSE
