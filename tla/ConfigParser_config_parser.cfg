\* One document after another, up to MaxNodes nodes, with every kind of field.
CONSTANTS
  Shapes <- FieldShapes
  Includes <- Files
  MaxNodes = 6
  WithFallback <- with_fallback
  Concatenate <- concatenate
SPECIFICATION Spec
INVARIANTS
  TypeOK
  ArrayCountIsNesting
  PathStackIsNesting
  Balanced
  AppendsAreOutsideLists
  CommentsGoWith
CHECK_DEADLOCK FALSE
