SPECIFICATION Spec
CONSTANTS
  Statements <- MCTextStatements
  Alphabet <- MCAlphabet
  MaxSlips = 0
  Phrases <- MCPhrases
  MaxPhrases = 8
  CharIsSigned = TRUE
INVARIANT TextAsWritten
CHECK_DEADLOCK FALSE
