--------------------------- MODULE MCMockProcess ---------------------------
(* Small instances of MockProcess: a pact with a call of one tool, whose   *)
(* response the protocol's result type cannot hold, and two of another.    *)
EXTENDS MockProcess

Call(name, args, ok) ==
  [operation |-> "tools/call", request |-> [name |-> name, args |-> args],
   convertible |-> ok]

MCInteractions ==
  << Call("time", {}, FALSE), Call("weather", {"city"}, TRUE),
     Call("weather", {"city", "unit"}, TRUE) >>

(* An argument named by the interaction and absent from the call is a      *)
(* mismatch; the name is compared first and decides alone.                 *)
MCMisses(i, incoming) ==
  IF i.request.name # incoming.request.name
  THEN {NamePath} ELSE i.request.args \ incoming.request.args

CONSTANTS r1, r2, r3
Ask(operation, name, args) ==
  [operation |-> operation, request |-> [name |-> name, args |-> args]]
MCIncoming ==
  r1 :> Ask("tools/call", "weather", {"city"})
  @@ r2 :> Ask("tools/call", "weather", {})
  @@ r3 :> Ask("tools/list", "", {})
=============================================================================
