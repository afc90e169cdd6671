\* include file("x") is parsed and rendered.
CONSTANTS
  Entries = {"parse"}
  Flavors = {"CONF"}
  Vocabularies <- Texts
  NoPath = {"dots"}
SPECIFICATION Spec
INVARIANT
  RendersAsWritten
CHECK_DEADLOCK FALSE
