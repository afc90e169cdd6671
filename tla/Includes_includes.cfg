\* Files that include each other without a cycle, some of them missing or broken.
CONSTANTS
  FileSystems <- Trees
  Requests <- Calls
  Resolve <- resolve
  MaxIncludeDepth = 50
SPECIFICATION Spec
INVARIANTS
  IncludesAreInline
  FailuresHaveACause
PROPERTY
  Terminates
CHECK_DEADLOCK FALSE
