SPECIFICATION FairSpec
CONSTANTS
  ServerLists <- MCServerLists
  Codes <- MCCodes
  Keepalives = {0, 1}
  ConnectRetry = TRUE
  ConnectRetryInterval = 1
  ConnectTimeout = 2
  ReconnectBase = 1
  MaxReconnectInterval = 4
  Durations <- MCDurations
INVARIANTS
  
  FailedAttempt
  ConnectPersists
  
PROPERTIES
  BackoffGrows
  Recovers
CHECK_DEADLOCK FALSE
