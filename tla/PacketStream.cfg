SPECIFICATION FairSpec
CONSTANTS
  Digit = 8
  Digits = 3
  Nibble = 2
  Disconnect = 7
  Packets <- MCPackets
  MaxWrites = 2
INVARIANT
  InStep
PROPERTIES
  ImplementsChannel
  AllRead
CHECK_DEADLOCK FALSE
