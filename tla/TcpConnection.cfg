SPECIFICATION FairSpec
CONSTANTS
  MaxBytes = 3
  SockCap = 1
CHECK_DEADLOCK FALSE
INVARIANTS
  Registered
  EndsOnce
  SentInOrder
PROPERTIES
  KeepsByteStream
  OutputDrains
  PeerGoneRemoves
  ShutdownCompletes
