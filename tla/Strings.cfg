SPECIFICATION Spec
CONSTANTS
  Chars <- MCChars
  Subjects <- MCSubjects
  MaxChars = 4
INVARIANTS StringFits DecodedAsMatched ReadAsOne MatchesAffix
CHECK_DEADLOCK FALSE
