CONSTANT
  Pact <- MCPact
SPECIFICATION FairSpec
INVARIANTS ReportCoversPact FreshServer SuccessIsEarned
PROPERTY ComesToReport
CHECK_DEADLOCK FALSE
