SPECIFICATION Spec
CONSTANTS
  Args = {"-h", "--ast", "--names", "--names-file", "q"}
  MaxArgs = 5
  Initial = 3
  MaxInput = 26
INVARIANTS TypeOK ReadAsMeant Balanced ExitCodeTells ReadsWhole
PROPERTY Exits
CHECK_DEADLOCK FALSE
