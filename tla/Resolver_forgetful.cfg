\* A cycle under an optional substitution; the fall-back to the environment.
CONSTANTS
  Queries <- Forgetful
  Env <- NoEnv
  WithFallback <- with_fallback
  MergedStack <- Merged
  Consolidate <- consolidate
  IgnoresFallbacks <- ignores_fallbacks
SPECIFICATION Spec
INVARIANTS
  NeverMarkedTwice
CHECK_DEADLOCK FALSE
