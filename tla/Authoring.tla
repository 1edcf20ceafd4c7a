------------------------------ MODULE Authoring ------------------------------
(***************************************************************************)
(* One interaction from the consumer's test to the verdict on a payload:   *)
(* the matcher helpers write it as inline definitions (matchers.ts), the   *)
(* engine's ConfigureInteraction splits it into two parts of example body  *)
(* and rules, with a configuration for both, or refuses it (config.rs,     *)
(* server.rs), the adapter stamps the pact file (consumer.ts) and the      *)
(* engine compares a payload with what was persisted (module Matching).    *)
(*                                                                         *)
(* A part is written as a template: a JSON value whose leaves may be       *)
(* matchers.  A number is kept with its spelling, as serde_json compares   *)
(* it: 5 and 5.0 differ.  JavaScript knows one spelling, 5.                *)
(***************************************************************************)
EXTENDS Matching

CONSTANTS
  Contents,    \* what is passed to withPluginContents: a record with some of
               \* operation, request and response (templates) and transport,
               \* or one such record under mcp
  Payloads,    \* what is compared with a part
  Whole,       \* the numbers JavaScript writes without a fraction
  Pattern      \* the strings that the pattern of a regex matches

VARIABLES
  authored,    \* the contents
  stage,       \* how far it got
  reply        \* what is persisted of it: the parts and their configuration

interaction == <<authored, stage, reply>>
comparison  == <<question, misses, answered>>

Sides == {"request", "response"}
None == "none"
-----------------------------------------------------------------------------
Number(n, float) == Num([of |-> n, float |-> float])
JsNumber(n) == Number(n, n \notin Whole)
IsNum(v) == Kind(v) = {"num"}

(* What looks like a definition and cannot be parsed, or refers to another *)
(* one.                                                                    *)
Unsupported == {"malformed", "reference"}

(* matchers.ts: only a string example makes a "type" matcher. *)
Like(example) ==
  Definition(CASE IsNum(example) -> "number"
               [] Kind(example) = {"bool"} -> "boolean"
               [] OTHER -> "type", example)

(* config.rs, example_value: a "number" example is parsed as a float, the  *)
(* others keep their value.                                                *)
ExampleValue(m) ==
  IF m.matcher = "number" THEN Number(m.example.num.of, TRUE) ELSE m.example

(* What becomes of a leaf: a protobuf Struct knows doubles only; walk      *)
(* strips a matcher to its example value; "plain" keeps the value a matcher*)
(* was written with, and "js" respells a number.                           *)
Walked(t, how) ==
  CASE how = "double" /\ IsNum(t) -> Number(t.num.of, TRUE)
    [] how = "strip" /\ IsDefinition(t) -> ExampleValue(t)
    [] how = "plain" /\ IsDefinition(t) -> t.example
    [] how = "js" /\ IsNum(t) -> JsNumber(t.num.of)
    [] OTHER -> t

(* config.rs, walk: objects and arrays keep their form. *)
Walk(how) ==
  LET walk[t \in Values] ==
        CASE IsObj(t) -> Obj([k \in DOMAIN t.obj |-> walk[t.obj[k]]])
          [] IsArr(t) -> Arr([i \in DOMAIN t.arr |-> walk[t.arr[i]]])
          [] OTHER -> Walked(t, how)
  IN walk

(* ... and record_matcher files a matcher under the path walked to, by key *)
(* and by index.                                                           *)
MatchersIn(t) ==
  {[path |-> leaf.path, kind |-> leaf.value.matcher] :
     leaf \in {l \in Leaves[t] : IsDefinition(l.value)}}

(* Mutant: a rule only says that there is a matcher. *)
RulesOfAnyKind(t) ==
  [path \in {m.path : m \in MatchersIn(t)} |-> <<"type">>]

(* Mutant: rules are rooted at the field below the root. *)
RulesOfTail(t) ==
  LET found == {[m EXCEPT !.path = Tail(@)] : m \in MatchersIn(t)}
  IN [path \in {m.path : m \in found} |->
        <<(CHOOSE m \in found : m.path = path).kind>>]

RulesOf(t) ==
  LET found == MatchersIn(t)
  IN [path \in {m.path : m \in found} |->
        <<(CHOOSE m \in found : m.path = path).kind>>]

(* server.rs, struct_to_value: the contents arrive as a protobuf Struct. *)
StructToValue(t) == Walk("double")[t]

(* config.rs, build_part *)
BuildPart(template) ==
  LET raw == StructToValue(template)
  IN [body |-> Walk("strip")[raw], rules |-> RulesOf(raw)]

(* The full fragment, or what is under its mcp. *)
Mcp(contents) == IF "mcp" \in DOMAIN contents THEN contents.mcp ELSE contents

(* ConfigureError: a field that is missing, an operation that is not known *)
(* and, in either part, a matcher that cannot be used.                     *)
Refused(mcp) ==
  \/ \E field \in {"operation"} \cup Sides : field \notin DOMAIN mcp
  \/ mcp.operation \notin Operations
  \/ \E side \in Sides : \E m \in MatchersIn(mcp[side]) : m.kind \in Unsupported

(* interaction_config_struct *)
ConfigOf(mcp) ==
  [operation |-> mcp.operation,
   transport |-> IF "transport" \in DOMAIN mcp THEN mcp.transport ELSE None]

(* Mutant: the pact file is stamped without a JavaScript rewrite. *)
NoRewrite(v) == v

(* consumer.ts, stampPact: the pact goes through JSON.parse and            *)
(* JSON.stringify.                                                         *)
JsRewrite(v) == Walk("js")[v]

-----------------------------------------------------------------------------
(* The payload the consumer wrote as its example, as a JavaScript server   *)
(* would send it.                                                          *)
ExampleOf(t) == JsRewrite(Walk("plain")[t])

(* What may be passed to a matcher helper, in JavaScript. *)
FitsHelper(m) ==
  /\ m.matcher # None
  /\ CASE m.matcher \in {"number", "integer"} ->
            /\ IsNum(m.example) /\ m.example = JsNumber(m.example.num.of)
            /\ m.matcher = "integer" => m.example.num.of \in Whole
       [] m.matcher = "boolean" -> m.example \in [bool : BOOLEAN]
       [] OTHER -> m.example \in [str : STRING]

(* Contents are written in JavaScript; and what is made of them is at hand.*)
Written == UNION {{mcp[side] : side \in Sides \cap DOMAIN mcp} :
                    mcp \in {Mcp(contents) : contents \in Contents}}
ASSUME AuthoringAssumption ==
  /\ Payloads \subseteq Values
  /\ \A t \in Written :
       /\ t \in Values /\ JsRewrite(t) = t
       /\ \A leaf \in Leaves[t] : IsDefinition(leaf.value) => FitsHelper(leaf.value)
       /\ {StructToValue(t), BuildPart(t).body, Walk("plain")[t],
           ExampleOf(t)} \subseteq Values

-----------------------------------------------------------------------------
Nothing == [parts |-> None, config |-> None]
NoQuestion == [side |-> None]

AuthoringInit ==
  /\ authored \in Contents
  /\ stage = "authored"
  /\ reply = Nothing
  /\ question = NoQuestion /\ misses = {} /\ answered = FALSE

Stage(from, to) == stage = from /\ stage' = to /\ UNCHANGED authored

(* The reply has an error and no part, or both parts.  pact-js rejects     *)
(* what comes with an error, and writes the rest into the pact file.       *)
ConfigureInteraction ==
  LET mcp == Mcp(authored)
  IN /\ Stage("authored", IF Refused(mcp) THEN "refused" ELSE "configured")
     /\ reply' = IF Refused(mcp) THEN Nothing
                 ELSE [parts |-> [side \in Sides |-> BuildPart(mcp[side])],
                       config |-> ConfigOf(mcp)]
     /\ UNCHANGED comparison

Stamped(part) == [part EXCEPT !.body = JsRewrite(@)]

StampPact ==
  /\ Stage("configured", "stamped")
  /\ reply' = [reply EXCEPT !.parts = [side \in Sides |-> Stamped(@[side])]]
  /\ UNCHANGED comparison

(* A payload is compared with a part, by the plugin or by the mock: the    *)
(* operation comes from the configuration, expected value and rules from   *)
(* the part.                                                               *)
QuestionOf(side, value) ==
  [op |-> reply.config.operation, side |-> side,
   expected |-> reply.parts[side].body, actual |-> value,
   rules |-> reply.parts[side].rules]

CompareContents(side, value) ==
  /\ Stage("stamped", "asked")
  /\ question' = QuestionOf(side, value)
  /\ UNCHANGED <<reply, misses, answered>>

AuthoringNext ==
  \/ ConfigureInteraction \/ StampPact
  \/ \E side \in Sides, value \in Payloads : CompareContents(side, value)
  \/ \E side \in Sides : Answer(side) /\ UNCHANGED interaction

AuthoringSpec == AuthoringInit /\ [][AuthoringNext]_<<interaction, comparison>>

-----------------------------------------------------------------------------
(* Contents with usable examples: both parts are formed as MCP has it, no  *)
(* block without a plain type, and a call has its arguments.               *)
Usable(mcp) ==
  \A side \in Sides :
    LET t == mcp[side]
        e == ExampleOf(t)
    IN /\ Formed(mcp.operation, side, e) /\ Exemplary(mcp.operation, side, e)
       /\ \A i \in DOMAIN Items(t, "content") : IsStr(Get(Items(t, "content")[i], "type"))

(* A consumer's own example satisfies both parts of what is persisted of   *)
(* its interaction, whatever matchers it is written with: the pact can be  *)
(* verified, and its mock asked, by the very values it was written with.   *)
(* (It holds of contents that are Usable.)                                 *)
ExampleAccepted ==
  stage = "stamped" =>
    \A side \in Sides :
      Outcome(QuestionOf(side, ExampleOf(Mcp(authored)[side]))) = {}

(* What a matcher asks of a value, in the words of matchers.ts.            *)
Asks(m, v) ==
  CASE m.matcher = "type"      -> SameJsonType(m.example, v)
    [] m.matcher = "number"    -> IsNum(v)
    [] m.matcher = "integer"   -> IsNum(v) /\ v.num.of \in Whole
    [] m.matcher = "boolean"   -> Kind(v) = {"bool"}
    [] m.matcher = "regex"     -> IsStr(v) /\ v.str \in Pattern
    [] m.matcher = "not-empty" -> IsStr(v) /\ v.str # ""
    [] OTHER                   -> v = m.example

(* Examples are instances of their own matchers; regex() and notEmpty() do *)
(* not look.                                                               *)
Instances(t) ==
  \A leaf \in Leaves[t] : IsDefinition(leaf.value) => Asks(leaf.value, leaf.value.example)

(* A template may be read as it is "written", as its matchers are "applied"*)
(* by the engine, only "type" of them for what it is, or for its "example".*)
(* A literal asks for itself, an empty object or array for nothing.        *)
Satisfies(reading, leaf, v) ==
  IF ~IsDefinition(leaf) THEN IsObj(leaf) \/ IsArr(leaf) \/ v = leaf
  ELSE IF reading = "written" \/ (reading = "applied" /\ leaf.matcher = "type")
       THEN Asks(leaf, v)
       ELSE v = leaf.example

Conforms(reading, t, a) ==
  \A leaf \in Leaves[t] :
    LET v == Along(a, leaf.path)[Len(leaf.path)]
    IN v # Absent /\ Satisfies(reading, leaf.value, v)

ConformsAt(reading, t, a, key) == Conforms(reading, Get(t, key), Get(a, key))

(* Of a block, what its type says; an image's data is any, unless it is    *)
(* written with a matcher.                                                 *)
ConformsBlock(reading, t, a) ==
  LET type == Text(t, "type")
      at(key) == ConformsAt(reading, t, a, key)
  IN /\ type = Text(a, "type")
     /\ type = "text" => at("text")
     /\ type = "image" =>
          /\ at("mimeType")
          /\ IF IsDefinition(Get(t, "data")) THEN at("data")
             ELSE SameJsonType(Get(t, "data"), Get(a, "data"))
     /\ type = "resource" =>
          ConformsAt(reading, Get(t, "resource"), Get(a, "resource"), "uri")

ConformsResult(reading, t, a) ==
  LET blocks == Items(t, "content")
      sent == Items(a, "content")
  IN /\ Flag(ExampleOf(t), "isError") = Flag(a, "isError")
     /\ Len(blocks) <= Len(sent)
     /\ \A i \in DOMAIN blocks : ConformsBlock(reading, blocks[i], sent[i])
     /\ Has(t, "structuredContent") => ConformsAt(reading, t, a, "structuredContent")

ConformsItem(reading, op, t, a) ==
  IF op = "tools/list"
  THEN /\ ConformsAt(reading, t, a, "name")
       /\ Has(t, "inputSchema") => ConformsAt(reading, t, a, "inputSchema")
  ELSE Conforms(reading, t, a)

(* Items of a list conform if each finds its like. *)
ConformsList(reading, op, t, a) ==
  \A item \in ListedIn(op, t) :
    \E found \in ListedIn(op, a) : ConformsItem(reading, op, item, found)

(* No matcher is applied to the items of a list.                           *)
ForItems(reading) == IF reading = "applied" THEN "example" ELSE reading

(* The tool of a call and isError are always those of the example.         *)
ConformsTo(reading, op, side, t, a) ==
  CASE op = "tools/call" /\ side = "request" ->
         /\ Text(ExampleOf(t), "name") = Text(a, "name")
         /\ ConformsAt(reading, t, a, "arguments")
    [] op = "tools/call" /\ side = "response" -> ConformsResult(reading, t, a)
    [] ListOf(op) # <<>> /\ side = "response" ->
         ConformsList(ForItems(reading), op, t, a)
    [] OTHER -> Conforms(reading, t, a)

(* The comparison of the question, and what is asked for in a reading.     *)
(* Errors are left out, whose message may be any.                          *)
Asked == Mcp(authored)[question.side]
Judged ==
  answered /\ (question.side = "request" \/ (~Shape(Asked) /\ ~Shape(question.actual)))
Conforming(reading) ==
  ConformsTo(reading, Mcp(authored).operation, question.side, Asked, question.actual)

Listed == question.side = "response" /\ ListOf(Mcp(authored).operation) # <<>>
KeysApart ==
  LET items == Items(question.actual, ListOf(Mcp(authored).operation)[1])
      key   == ListOf(Mcp(authored).operation)[2]
  IN \A i, j \in DOMAIN items : Get(items[i], key) = Get(items[j], key) => i = j

(* What is accepted is what the consumer wrote: a payload that is accepted *)
(* has, at every place, what the matcher or the literal there asks for in  *)
(* the words of matchers.ts, whatever became of the matcher on the way.    *)
(* (It holds of contents that are Usable, with Instances for examples.)    *)
AuthoredMeans == Judged /\ misses = {} => Conforming("written")

(* End to end a matcher "type" is applied where it was written, all others *)
(* stand for their example, and in the items of a list all do: exactly what*)
(* conforms to that is accepted.  An item is compared with the first of its*)
(* key, so that a list must have each key once to be accepted for sure.    *)
(* (It holds of contents that are Usable.)                                 *)
MatchersApplied ==
  Judged => /\ misses = {} => Conforming("applied")
            /\ Conforming("applied") /\ (Listed => KeysApart) => misses = {}

(* "Match any number (integer or decimal)", "any value of the same JSON    *)
(* type", "any integer", "any boolean", "any non-empty string"             *)
(* (matchers.ts:31): outside lists, what is written is accepted.           *)
KindsHonoured == Judged /\ ~Listed /\ Conforming("written") => misses = {}

(* "compare inputSchema by structure using the consumer's matchers"        *)
(* (matching-semantics.md:39): with no matcher but "type" in them, tools   *)
(* that have what is written are accepted.                                 *)
SchemasHonoured ==
  Judged /\ Listed /\ Mcp(authored).operation = "tools/list" =>
    ((\A m \in MatchersIn(Asked) : m.kind = "type") /\ Conforming("written") /\ KeysApart
       => misses = {})
=============================================================================
