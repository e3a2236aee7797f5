SPECIFICATION PushFairSpec
CONSTANTS
  Connectors = {c1, c2}
  Disconnecters = {d1}
  CommsReporters = {comms}
  Keepalive = {keepalive}
  AutoReconnect = TRUE
  ConnectRetry = TRUE
  PromptStart = TRUE
  Pushers = {p1, p2}
  Proc <- MCProc
PROPERTIES
  
  DisconnectStopsReconnect
  
  
