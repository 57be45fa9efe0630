SPECIFICATION PoolFairSpec
CONSTANTS
  NumThreads = 3
CHECK_DEADLOCK FALSE

  
PROPERTIES
  StartReturns
  SettledDestructorReturns
