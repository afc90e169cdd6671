\* Every small object, and what two operations make of it.  The units of time
\* are 4, 3 and 2 of each other, a long has 9 bits and an int 5.
CONSTANTS
  Objects <- Made
  Values <- Set
  Paths <- Rows
  Operations = 2
  IntLimit = 16
  LongLimit = 256
  Thousand = 4
  Sixty = 3
  Day = 2
SPECIFICATION Spec
INVARIANTS
  StatusIsRight
  PathsAndValuesAgree
  GettersAgree
  DurationIsExact
CHECK_DEADLOCK FALSE
