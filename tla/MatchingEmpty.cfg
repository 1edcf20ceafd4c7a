CONSTANTS
  Questions <- MCQuestions
  Depth <- MCDepth
SPECIFICATION Spec
INVARIANT StructuredIsCompatible
CHECK_DEADLOCK FALSE
