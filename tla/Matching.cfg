CONSTANTS
  Questions <- MCQuestions
  Depth <- MCDepth
SPECIFICATION Spec
INVARIANT StructuredIsLeafwise
INVARIANT ExtrasIgnored
INVARIANT TypeRulesRelax
INVARIANT ListOrderIrrelevant
CHECK_DEADLOCK FALSE
