SPECIFICATION Spec
CONSTANTS
  Statements <- MCStatements
  Alphabet <- MCAlphabet
  MaxSlips = 1
  Phrases <- MCPhrases
  MaxPhrases = 8
  CharIsSigned = TRUE
INVARIANTS
  TypeOK Ownership TextOrder AcceptsUpToHigh
  GroupsAsSplit ReadBackIffSafe
CHECK_DEADLOCK FALSE
