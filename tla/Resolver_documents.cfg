\* The documents of the tests; layers of one key and another one; one document
\* against another; substitutions of x, which only the environment has, or nothing.
CONSTANTS
  Queries <- TestedAndSmall
  Env <- XinEnv
  WithFallback <- with_fallback
  MergedStack <- Merged
  Consolidate <- consolidate
  IgnoresFallbacks <- ignores_fallbacks
SPECIFICATION Spec
INVARIANTS
  TypeOK
  MarkersAreActive
  RestrictionRestored
  ReturnsASolution
  FailsOnlyForTheDocument
  CyclesAreReported
  ResolvesAsTested
PROPERTIES
  Terminates
  EntersOnce
CHECK_DEADLOCK FALSE
