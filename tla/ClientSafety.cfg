SPECIFICATION Spec
CONSTANTS
  Connectors = {c1, c2}
  Disconnecters = {d1, d2, d3}
  CommsReporters = {comms}
  Keepalive = {keepalive}
  AutoReconnect = TRUE
  ConnectRetry = TRUE
  PromptStart = FALSE
  Proc <- MCProc
INVARIANTS
  CompletionOwnership
  ChannelNeverReplaced
  NoOverlappingConnections
  StatusMatchesConnection
  LossFindsConnection
  ClientInv

  
CHECK_DEADLOCK FALSE
