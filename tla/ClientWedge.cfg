SPECIFICATION Spec
CONSTANTS
  Connectors = {c1}
  Disconnecters = {d1, d2}
  CommsReporters = {comms}
  Keepalive = {keepalive}
  AutoReconnect = TRUE
  ConnectRetry = TRUE
  PromptStart = TRUE
  Proc <- MCProc


CHECK_DEADLOCK FALSE
INVARIANT
  DisconnectingHasLeader
