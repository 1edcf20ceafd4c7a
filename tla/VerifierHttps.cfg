SPECIFICATION Spec
CONSTANTS
  v1 = v1
  v2 = v2
  Unset = Unset
  Illegal <- MCIllegal
  Runs = {v1, v2}
  Servers <- HttpsServers
  Pact <- MCPact
  Driver <- MCDriver
  Initial <- MCInitial
  Ports = {1, 2}
CHECK_DEADLOCK FALSE
INVARIANTS UrlIsKept
