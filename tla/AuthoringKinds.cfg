CONSTANTS
  Questions <- MCQuestions
  Contents <- MCContents
  Payloads <- MCPayloads
  Depth <- MCDepth
  Whole <- MCWhole
  Pattern <- MCPattern
SPECIFICATION AuthoringSpec
INVARIANT KindsHonoured
CHECK_DEADLOCK FALSE
