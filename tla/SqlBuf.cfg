SPECIFICATION BufSpec
CONSTANTS
  Chars = {"a", "b"}
  NUL = "nul"
  JUNK = "junk"
  Initial = 2
  Pieces <- MCPieces
  SizeMax = 16
  MaxText = 7
INVARIANTS Fits Terminated
PROPERTIES IsText Returns
CHECK_DEADLOCK FALSE
