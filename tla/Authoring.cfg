CONSTANTS
  Questions <- MCQuestions
  Contents <- MCContents
  Payloads <- MCPayloads
  Depth <- MCDepth
  Whole <- MCWhole
  Pattern <- MCPattern
SPECIFICATION AuthoringSpec
INVARIANTS ExampleAccepted AuthoredMeans MatchersApplied
CHECK_DEADLOCK FALSE
