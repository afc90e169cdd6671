\* Every text of a few words, in vocabularies for layout, separators, values,
\* keys and includes.
CONSTANTS
  Entries = {"parse", "parse_single_value"}
  Flavors = {"JSON", "CONF"}
  Vocabularies <- Texts
  NoPath = {"dots"}
SPECIFICATION Spec
INVARIANTS
  NothingIsLost
  NeverPastEnd
  EqualsBalanced
  ErrorsAreOnTheirLine
  OnlyTheGrammar
PROPERTY
  Terminates
CHECK_DEADLOCK FALSE
