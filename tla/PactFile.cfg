CONSTANTS
  Tests <- MCTests
  Foreign <- MCForeign
  MaxTests = 3
SPECIFICATION Spec
INVARIANTS
  LookupIsOwn
  CalledIsListed
  DeclaredIsListed
PROPERTIES
  OneServerSuffices
CHECK_DEADLOCK FALSE
