CONSTANTS
  Tests <- MCTests
  Foreign <- MCForeign
  MaxTests = 1
SPECIFICATION Spec
INVARIANT OnlyMcpAdvertised
CHECK_DEADLOCK FALSE
