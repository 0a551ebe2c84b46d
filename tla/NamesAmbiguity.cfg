SPECIFICATION Spec
CONSTANTS
  NULL = NULL
  Letters <- MCLetters
  Labels <- MCLabels
  Specs <- MCSpecs
CHECK_DEADLOCK FALSE
INVARIANT AmbiguityReported
