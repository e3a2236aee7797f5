SPECIFICATION FairSpec
CONSTANTS
  Pushers = {p1}
  WriteTimeout = TRUE
  MaxPackets = 1
INVARIANTS
  NothingReadIsLost
  TokenTellsTheTruth
  NoStragglers
PROPERTIES
  TeardownEnds
  PushSettles
CHECK_DEADLOCK FALSE
