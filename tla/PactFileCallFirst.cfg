CONSTANTS
  Tests <- MCTests
  Foreign = {}
  MaxTests = 2
SPECIFICATION Spec
INVARIANT DeclaredAsDeclared
CHECK_DEADLOCK FALSE
