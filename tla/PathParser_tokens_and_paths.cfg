\* Every text of a few pieces, token by token, and path expressions of a few
\* characters, read with and without the tokenizer.
CONSTANTS
  Documents <- Texts
  Expressions <- Paths
  IntDigits = 2
SPECIFICATION ParserSpec
INVARIANTS
  TextIsKept
  WhitespaceIsText
  LinesAreCounted
  PathIsMeant
  NodeIsThePath
  RenderedIsRead
PROPERTY
  Terminates
CHECK_DEADLOCK FALSE
