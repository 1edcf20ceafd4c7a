CONSTANTS
  Questions <- MCQuestions
  Depth <- MCDepth
SPECIFICATION Spec
INVARIANT SchemasByType
CHECK_DEADLOCK FALSE
