SPECIFICATION Spec
CONSTANTS
  MaxBytes = 3
  SockCap = 1
CHECK_DEADLOCK FALSE
INVARIANT
  GracefulShutdown
