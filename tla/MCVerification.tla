--------------------------- MODULE MCVerification ---------------------------
(* A pact with a tool call, an http interaction, a list, a call whose      *)
(* request has no name, and one that is expected to fail, under different  *)
(* provider states.                                                        *)
EXTENDS Verification

Mcp(operation, states, expects) ==
  [mcp |-> TRUE, operation |-> operation, request |-> "valid",
   states |-> states, expects |-> expects]
MCPact == << Mcp("tools/call", "empty", "success"),
             [Mcp("tools/call", "none", "success") EXCEPT !.mcp = FALSE],
             Mcp("tools/list", "none", "success"),
             [Mcp("tools/call", "none", "success") EXCEPT !.request = "invalid"],
             Mcp("prompts/get", "full", "error") >>
=============================================================================
