\* What the operations make of objects with values at the paths they are given.
CONSTANTS
  Objects <- Made
  Values <- Set
  Paths <- Rows
  Operations = 1
  IntLimit = 16
  LongLimit = 256
  Thousand = 4
  Sixty = 3
  Day = 2
SPECIFICATION Spec
INVARIANT
  OperationsAsDocumented
CHECK_DEADLOCK FALSE
