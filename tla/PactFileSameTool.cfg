CONSTANTS
  Tests <- SameTool
  Foreign = {}
  MaxTests = 2
SPECIFICATION Spec
INVARIANT LookupIsOwn
CHECK_DEADLOCK FALSE
