SPECIFICATION Spec
CONSTANTS
  Conns = {c1, c2}
  WheelSize = 5
  Entries = {e1, e2, e3}
  NoEntry = NoEntry
CHECK_DEADLOCK FALSE
INVARIANT
  OneEntry
PROPERTY
  ExactTimeout
SYMMETRY EntrySymmetry
