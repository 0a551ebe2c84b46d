SPECIFICATION Spec
CONSTANTS
  NULL = NULL
  Letters <- MCLetters
  Labels <- MCLabels
  Specs <- MCSpecs
INVARIANTS
  TypeOK
  ResolveCorrect
  NeverGuesses
  SpellingsAgree
  MapIsSpec
CHECK_DEADLOCK FALSE
