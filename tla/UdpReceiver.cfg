SPECIFICATION FairSpec
CONSTANTS
  MaxPerRead = 3
  MaxBatch = 2
  InitialBuffers = 1
  Capacity = 1
  MaxDatagrams = 4
  MaxErrors = 1
CHECK_DEADLOCK FALSE
INVARIANTS
  KeptIsStable
  PassedInOrder
  StopIsPrompt
  NothingLost
PROPERTY
  SocketIsEmptied
