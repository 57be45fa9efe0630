SPECIFICATION Spec
CONSTANTS
  InitialSize = 3
  ExtraSize = 4
  MaxBytes = 9
  MaxLen = 5
CHECK_DEADLOCK FALSE
INVARIANTS
  InOrder
  LosslessWithoutSpill
  GrowthBounded
