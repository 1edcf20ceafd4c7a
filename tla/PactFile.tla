------------------------------ MODULE PactFile ------------------------------
(***************************************************************************)
(* The pact file between the tests that write it, the mock that serves it  *)
(* and the verifier that addresses its interactions: descriptions given by *)
(* the builder, keys and transports stamped by the adapter                 *)
(* (adapters/ts/pact-mcp/src/consumer.ts), reading and look-up by key in   *)
(* the engine (rust/pact-mcp-plugin/src/server.rs), and what the mock      *)
(* advertises of it (module MockListing).                                  *)
(*                                                                         *)
(* Tests run one after the other and share the file of a consumer and a    *)
(* provider; a test may run again.  pact-js writes the file once per       *)
(* interaction and merges what is there by unique key; the adapter         *)
(* rewrites it once after the loop.                                        *)
(***************************************************************************)
EXTENDS MockListing, FiniteSetsExt

CONSTANTS
  Tests,        \* tests: [transport, steps], a step being [operation, subject,
                \* content, items], without items unless it is a list
  Foreign,      \* interactions that other pact tests add: [content, shape,
                \* subject, items], what the mock reads of them
  MaxTests      \* bound on the tests run

ASSUME TestsAssumption ==
  /\ MaxTests \in Nat
  /\ \A t \in Tests :
       /\ t.transport \in {"stdio", "http"}
       /\ t.steps \in Seq(Range(t.steps)) /\ Len(t.steps) > 0
       /\ \A s \in Range(t.steps) :
            /\ s.operation \in Range(ListOf) \cup Range(CallOf)
            /\ s.operation \in Range(CallOf) => s.subject # NoName
            /\ s.items \in Seq(Range(s.items))
            /\ \A item \in Range(s.items) : item.convertible \in BOOLEAN
  /\ \A x \in Foreign :
       /\ x.shape \in {"http", "message", "listing"}
       /\ x.items \in Seq(Range(x.items))
       /\ \A item \in Range(x.items) : item.convertible \in BOOLEAN

VARIABLES
  file,         \* the interactions in the file, in order
  test,         \* the test that is authoring, or NoTest
  written,      \* how many of its interactions are in the file
  ran           \* tests started

vars == <<file, test, written, ran>>

None == "none"
NoTest == [transport |-> None, steps |-> <<>>]
NoKey == [none |-> {}]
Sha(d) == [sha |-> d]
Hash(i) == [hash |-> <<i.description, i.content>>]
Named(d) == [name |-> d]

(* pact_models: the explicit key, or an opaque hash of the interaction. *)
UniqueKey(i) == IF i.key = NoKey THEN Hash(i) ELSE i.key

(* The description of the n-th declaration of a test: only a tools/call    *)
(* says how many tools/call were declared before it.                       *)
Description(steps, n) ==
  LET calls == {m \in 1..(n-1) : steps[m].operation = "tools/call"}
      nth   == IF steps[n].operation = "tools/call" THEN Cardinality(calls) ELSE 0
  IN <<steps[n].operation, steps[n].subject, nth>>

(* What pact-js writes for a step: ConfigureInteraction has put operation  *)
(* and transport into the plugin's configuration.                          *)
Interaction(t, n) ==
  LET s == t.steps[n]
  IN [description |-> Description(t.steps, n), content |-> s.content,
      shape |-> "message", plugin |-> "mcp", configured |-> s.operation,
      subject |-> s.subject, items |-> s.items, hint |-> t.transport,
      key |-> NoKey, transport |-> None]

(* Interactions of other tests: http ones, and messages of other plugins,  *)
(* one kind of which has tools in its response.  A message may have a name *)
(* in its request.  Their plugins configure no operation of MCP.           *)
ForeignInteraction(x) ==
  [description |-> <<x.shape, x.content, 0>>, content |-> x.content,
   shape |-> x.shape, plugin |-> IF x.shape = "http" THEN None ELSE "other",
   configured |-> None, subject |-> x.subject, items |-> x.items, hint |-> None,
   key |-> NoKey, transport |-> None]

(* pact-core: an interaction replaces the one of its unique key. *)
Merge(f, i) ==
  LET same == {n \in DOMAIN f : UniqueKey(f[n]) = UniqueKey(i)}
  IN IF same = {} THEN Append(f, i)
     ELSE [n \in DOMAIN f |-> IF n \in same THEN i ELSE f[n]]

-----------------------------------------------------------------------------
(* interaction_from_value: anything with the contents of a message is read *)
(* as an mcp interaction; without a configured operation it is a call, or  *)
(* a list if its response looks like one.                                  *)
Readable(i) == i.shape # "http"
Operation(i) ==
  CASE i.configured # None -> i.configured
    [] i.configured = None /\ i.shape = "listing" -> "tools/list"
    [] OTHER -> "tools/call"

(* MockServer::from_pact_json: what cannot be read is left out. *)
Served(f) ==
  LET Parse(parsed, i) ==
        IF Readable(i)
        THEN Append(parsed, [operation |-> Operation(i), subject |-> i.subject,
                             items |-> i.items])
        ELSE parsed
  IN Pass(<<>>, f, Parse)

(* Mutant: the first interaction is taken also where there are others. *)
LookupFirst(f, key) ==
  LET matched == {n \in DOMAIN f : f[n].key = key \/ Named(f[n].description) = key}
  IN IF matched # {} THEN {Min(matched)}
     ELSE IF Len(f) > 0 THEN {1}
     ELSE {}

(* extract_interaction_value: an only interaction needs no key. *)
Lookup(f, key) ==
  LET matched == {n \in DOMAIN f : f[n].key = key \/ Named(f[n].description) = key}
  IN IF matched # {} THEN {Min(matched)}
     ELSE IF Len(f) = 1 THEN {1}
     ELSE {}

(* extract_interaction: what prepare_interaction_for_verification and      *)
(* verify_interaction go on with; they return an error if there is none.   *)
Extract(f, key) == {n \in Lookup(f, key) : Readable(f[n])}

(* interaction_transport: the stamp, or else the hint, or else stdio. *)
InteractionTransport(i) ==
  IF i.transport = "mcp-http" \/ (i.transport = None /\ i.hint = "http")
  THEN "http" ELSE "stdio"

-----------------------------------------------------------------------------
Init == file = <<>> /\ test = NoTest /\ written = 0 /\ ran = 0

(* executeTest of a builder whose declarations are complete. *)
StartTest(t) ==
  /\ test = NoTest /\ ran < MaxTests
  /\ test' = t /\ written' = 0 /\ ran' = ran + 1
  /\ UNCHANGED file

WriteInteraction ==
  /\ written < Len(test.steps)
  /\ written' = written + 1
  /\ file' = Merge(file, Interaction(test, written'))
  /\ UNCHANGED <<test, ran>>

(* An iteration of the loop throws: what is in the file stays unstamped. *)
AuthoringFails ==
  /\ written < Len(test.steps)
  /\ test' = NoTest /\ written' = 0
  /\ UNCHANGED <<file, ran>>

Mark(i) ==
  [i EXCEPT !.transport = IF test.transport = "http" THEN "mcp-http" ELSE "mcp-stdio",
            !.key = IF @ = NoKey THEN Sha(i.description) ELSE @]

(* Mutant: only the interactions of the test that ran are stamped. *)
StampLast ==
  /\ test # NoTest /\ written = Len(test.steps)
  /\ file' = [n \in DOMAIN file |->
                IF file[n].plugin # None /\ n = Len(file) THEN Mark(file[n])
                ELSE file[n]]
  /\ test' = NoTest /\ written' = 0
  /\ UNCHANGED ran

(* stampPact, on every interaction of a plugin in the file: a transport,   *)
(* and a key where there is none.                                          *)
StampPact ==
  /\ test # NoTest /\ written = Len(test.steps)
  /\ file' = [n \in DOMAIN file |->
                IF file[n].plugin # None THEN Mark(file[n]) ELSE file[n]]
  /\ test' = NoTest /\ written' = 0
  /\ UNCHANGED ran

(* Another library's test of the same consumer and provider. *)
WriteForeign(x) ==
  /\ test = NoTest
  /\ file' = Merge(file, ForeignInteraction(x))
  /\ UNCHANGED <<test, written, ran>>

Next ==
  \/ \E t \in Tests : StartTest(t)
  \/ WriteInteraction \/ AuthoringFails \/ StampPact
  \/ \E x \in Foreign : WriteForeign(x)

Spec == Init /\ [][Next]_vars
-----------------------------------------------------------------------------
McpIn(f) == {n \in DOMAIN f : f[n].plugin = "mcp"}

(* No two declarations of a description, in whatever tests, expect         *)
(* different things.  Nothing in the adapter sees to that.                 *)
DescribedApart ==
  \A t, u \in Tests : \A m \in DOMAIN t.steps, n \in DOMAIN u.steps :
    Description(t.steps, m) = Description(u.steps, n)
      => t.steps[m].content = u.steps[n].content

(* What the verifier addresses by its unique key is what the engine        *)
(* replays and compares, or nothing: never another expectation.            *)
(* (It holds of tests that are DescribedApart.)                            *)
LookupIsOwn ==
  \A n \in McpIn(file) : \A m \in Extract(file, UniqueKey(file[n])) :
    file[m].content = file[n].content

(* Once a test is through, one server verifies the whole file: what the    *)
(* engine finds under the unique key of any mcp interaction in it, those   *)
(* included that an earlier test left behind when it failed, can be read   *)
(* and asks for the transport of this test, although earlier tests, failed *)
(* or not, may have used the other one ("stamp both here", stampPact).     *)
OneServerSuffices ==
  [][StampPact => \A n \in McpIn(file') :
                    LET found == Extract(file', UniqueKey(file'[n]))
                    IN /\ found # {}
                       /\ \A m \in found :
                            InteractionTransport(file'[m]) = test.transport]_vars

(* A client that looks before it calls finds everything the pact expects   *)
(* it to call, read or get, whatever else is in the file.                  *)
Kinds == DOMAIN ListOf
CalledIsListed ==
  \A kind \in Kinds : \A n \in McpIn(file) : file[n].configured = CallOf[kind] =>
    file[n].subject \in Names(Advertised(Served(file), kind))

(* What an interaction, of whatever library, says of what is to be listed: *)
(* the items it declares, or an item made up of the name it calls.         *)
DeclaredBy(i) == {item \in ToSet(i.items) : item.convertible}
ListsOf(i, kind) ==
  CASE Operation(i) = ListOf[kind] ->
         {[name |-> item.name, body |-> item.body] : item \in DeclaredBy(i)}
    [] Operation(i) = CallOf[kind] /\ i.subject # NoName ->
         {[name |-> i.subject, body |-> Synthesized]}
    [] OTHER -> {}

(* What is declared is listed under its name, as declared there or as an   *)
(* interaction before it in the file says: never as a later one says.  An  *)
(* earlier call, and an earlier message of another plugin, do take the     *)
(* name (DeclaredAsDeclared, OnlyMcpAdvertised).                           *)
DeclaredIsListed ==
  \A kind \in Kinds : \A n \in McpIn(file) : file[n].configured = ListOf[kind] =>
    \A item \in DeclaredBy(file[n]) :
      \E k \in 1..n : /\ Readable(file[k])
                      /\ \E e \in ListsOf(file[k], kind) :
                           /\ e.name = item.name
                           /\ e \in ToSet(Advertised(Served(file), kind))

(* "any tools/list interaction's tools" (mock.rs:124): what is declared is *)
(* listed as an mcp interaction declares it.                               *)
DeclaredAsDeclared ==
  \A kind \in Kinds : \A n \in McpIn(file) : file[n].configured = ListOf[kind] =>
    \A item \in DeclaredBy(file[n]) :
      \E k \in McpIn(file) : /\ file[k].configured = ListOf[kind]
                             /\ \E e \in ListsOf(file[k], kind) :
                                  /\ e.name = item.name
                                  /\ e \in ToSet(Advertised(Served(file), kind))

(* "keeping only the mcp plugin interactions" (mock.rs:82): what is listed *)
(* is declared, called, read or got in an mcp interaction.                 *)
OnlyMcpAdvertised ==
  \A kind \in Kinds :
    ToSet(Advertised(Served(file), kind))
      \subseteq UNION {ListsOf(file[n], kind) : n \in McpIn(file)}
=============================================================================
