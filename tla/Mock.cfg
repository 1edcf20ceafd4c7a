SPECIFICATION FairSpec
CONSTANTS
  r1 = r1
  r2 = r2
  r3 = r3
  NoOne = NoOne
  Requests = {r1, r2, r3}
  Incoming <- MCIncoming
  Interactions <- MCInteractions
  Misses <- MCMisses
  Live = TRUE
  Hurried = FALSE
CHECK_DEADLOCK FALSE
INVARIANTS TypeOK ExitedComplete ReportsNamedTool
PROPERTIES SinkSpec EveryRequestAnswered ExitsAfterClient
