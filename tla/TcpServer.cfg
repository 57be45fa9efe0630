SPECIFICATION FairSpec
CONSTANTS
  MaxThreads = 2
  MaxConns = 3
CHECK_DEADLOCK FALSE
INVARIANTS
  NoDanglingChannel
  RemovalAsserts
  UpThenDown
PROPERTY
  ClosedIsFreed
