\* `a { b += 1 }`: what += refers to, as the comment on full_current_path has it.
CONSTANTS
  Shapes <- PlusShapes
  Includes <- NoFiles
  MaxNodes = 3
  WithFallback <- with_fallback
  Concatenate <- concatenate
SPECIFICATION Spec
INVARIANTS
  AppendRefersToItself
CHECK_DEADLOCK FALSE
