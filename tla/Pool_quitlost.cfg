SPECIFICATION PoolFairSpec
CONSTANTS
  NumThreads = 1
CHECK_DEADLOCK FALSE
PROPERTY
  DestructorReturns
