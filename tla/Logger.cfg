SPECIFICATION Spec
CONSTANTS
  SIZE = 25
  kMaxNumericSize = 5
  MaxInt = 127
  Char <- Characters
  Threads = {1, 2}
  Levels = {1, 5}
  Settings = {1, 6}
  Items <- StreamedItems
  LineNumber = 100
  MaxItems = 2
  MaxLines = 2
CHECK_DEADLOCK FALSE
INVARIANTS
  NumeralsAreExact
  ShortLinesAreWhole
  AssertedInTime
  FatalSurvives
