\* Two edits of every small document.
CONSTANTS
  Documents <- AllDocuments
  Paths <- ThePaths
  Values <- TheValues
  MaxEdits = 2
SPECIFICATION Spec
INVARIANTS
  EditIsDone
  OthersAreKept
  StaysReadable
CHECK_DEADLOCK FALSE
