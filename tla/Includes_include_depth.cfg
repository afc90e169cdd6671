\* A file that includes itself, with MAX_INCLUDE_DEPTH at 3 for 50.
CONSTANTS
  FileSystems <- Cycles
  Requests <- CycleCall
  Resolve <- resolve
  MaxIncludeDepth = 3
SPECIFICATION Spec
INVARIANT
  DepthIsBounded
CHECK_DEADLOCK FALSE
