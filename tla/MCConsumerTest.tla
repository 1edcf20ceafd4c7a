--------------------------- MODULE MCConsumerTest --------------------------
(* Small instances of ConsumerTest: a pact that declares two tool calls,   *)
(* the response of one of which does not convert, and a test that sends    *)
(* any of these and one that matches neither.                              *)
EXTENDS ConsumerTest

Tool(name, args, ok) ==
  [operation |-> "tools/call", request |-> [name |-> name, args |-> args],
   convertible |-> ok]

MCInteractions == << Tool("weather", {"city"}, TRUE), Tool("time", {}, FALSE) >>

MCMisses(i, incoming) ==
  IF i.request.name # incoming.request.name
  THEN {NamePath} ELSE i.request.args \ incoming.request.args

CONSTANTS r1, r2, r3
Ask(name, args) ==
  [operation |-> "tools/call", request |-> [name |-> name, args |-> args]]
MCIncoming ==
  r1 :> Ask("weather", {"city"}) @@ r2 :> Ask("weather", {})
  @@ r3 :> Ask("time", {})
=============================================================================
