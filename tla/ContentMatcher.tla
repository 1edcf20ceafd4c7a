--------------------------- MODULE ContentMatcher ---------------------------
(***************************************************************************)
(* The content matcher (rust/pact-mcp-plugin/src/content/mod.rs): how an   *)
(* actual MCP payload is compared with the one an interaction expects, per *)
(* operation, and the paths at which it reports a mismatch.                *)
(*                                                                         *)
(* A JSON value is a record with one field that names its type, so that    *)
(* values of different types may be compared.  A path is a sequence of     *)
(* steps: a key, an index, or the item of a list that has a given key.     *)
(* The rendering of paths as strings and the wording of mismatches are     *)
(* left out.                                                               *)
(***************************************************************************)
EXTENDS Naturals, Sequences, FiniteSets

CONSTANT
  Depth        \* how deep each JSON value at hand is nested, a function

-----------------------------------------------------------------------------
Str(s)  == [str |-> s]
Num(n)  == [num |-> n]
Bool(b) == [bool |-> b]
Null    == [null |-> {}]
Arr(s)  == [arr |-> s]
Obj(f)  == [obj |-> f]
(* A string that is a matcher definition, kept apart from other strings.   *)
Definition(kind, example) == [matcher |-> kind, example |-> example]

Kind(v) == DOMAIN v
IsObj(v) == Kind(v) = {"obj"}
IsArr(v) == Kind(v) = {"arr"}
IsStr(v) == Kind(v) = {"str"}
IsDefinition(v) == Kind(v) = {"matcher", "example"}

Has(v, key) == IsObj(v) /\ key \in DOMAIN v.obj
(* .get(key).cloned().unwrap_or(Null), and its as_array and as_str forms *)
Get(v, key) == IF Has(v, key) THEN v.obj[key] ELSE Null
Items(v, key) == LET w == Get(v, key) IN IF IsArr(w) THEN w.arr ELSE <<>>
Text(v, key) == LET w == Get(v, key) IN IF IsStr(w) THEN w.str ELSE ""
Flag(v, key) == Get(v, key) = Bool(TRUE)

Key(k) == [key |-> k]
Index(i) == [index |-> i]
Item(list, field, k) == [list |-> list, field |-> field, item |-> k]
ASSUME NamesAssumption ==
  {"", "arguments", "code", "content", "data", "error", "inputSchema", "isError",
   "message", "mimeType", "name", "prompts", "resource", "resources",
   "structuredContent", "text", "tools", "type", "uri"} \subseteq STRING
Steps == [key : STRING] \cup [index : Nat]
         \cup [list : STRING, field : STRING, item : STRING]
Paths == Seq(Steps)

Parts(v) == CASE IsObj(v) -> {v.obj[k] : k \in DOMAIN v.obj}
              [] IsArr(v) -> {v.arr[i] : i \in DOMAIN v.arr}
              [] OTHER    -> {}

IsJson(v) ==
  \/ v \in [str : STRING] \/ v \in [bool : BOOLEAN] \/ v = Null
  \/ Kind(v) = {"num"} /\ v = Num(v.num)
  \/ IsDefinition(v) /\ v = Definition(v.matcher, v.example)
  \/ IsArr(v) /\ v = Arr(v.arr) /\ v.arr \in Seq(Parts(v))
  \/ /\ IsObj(v) /\ v = Obj(v.obj) /\ DOMAIN v.obj \subseteq STRING
     /\ v.obj \in [DOMAIN v.obj -> Parts(v)]

(* A value is a finite tree: what it holds is a value, and less deep.      *)
Nesting(depth) ==
  /\ depth \in [DOMAIN depth -> Nat] /\ Null \in DOMAIN depth
  /\ \A v \in DOMAIN depth : IsJson(v) /\ \A w \in Parts(v) :
                               w \in DOMAIN depth /\ depth[w] < depth[v]

ASSUME DepthAssumption == Nesting(Depth)
Values == DOMAIN Depth

Operations == {"tools/call", "tools/list", "resources/read", "resources/list",
               "prompts/get", "prompts/list"}

-----------------------------------------------------------------------------
(* rules maps a path to the kinds of its matchers; only the first counts. *)
MatchType(rules, path) ==
  IF path \in DOMAIN rules /\ rules[path] # <<>> THEN rules[path][1] ELSE "none"

NoRules == [path \in {} |-> <<>>]

SameJsonType(e, a) == Kind(e) = Kind(a)

(* Mutant: a value ruled by type must differ. *)
ValuesMatchSwapped(path, e, a, rules) ==
  IF MatchType(rules, path) = "type" THEN e # a ELSE e = a

ValuesMatch(path, e, a, rules) ==
  IF MatchType(rules, path) = "type" THEN SameJsonType(e, a) ELSE e = a

(* image data and error.message: by type unless ruled. *)
RuledOrSameType(path, e, a, rules) ==
  IF MatchType(rules, path) # "none"
  THEN ValuesMatch(path, e, a, rules) ELSE SameJsonType(e, a)

Miss(path, ok) == IF ok THEN {} ELSE {path}

Comparisons == [path : Paths, expected : Values, actual : Values]
Comparison(path, e, a) == [path |-> path, expected |-> e, actual |-> a]

(* compare_structured: what is expected is walked, what is actual looked   *)
(* up.                                                                     *)
Structured(rules) ==
  LET compare[c \in Comparisons] ==
        LET e == c.expected
            a == c.actual
        IN CASE IsObj(e) ->
                  UNION {LET child == Append(c.path, Key(k))
                         IN IF Has(a, k)
                            THEN compare[Comparison(child, e.obj[k], a.obj[k])]
                            ELSE {child} : k \in DOMAIN e.obj}
             [] IsArr(e) ->
                  UNION {LET child == Append(c.path, Index(i))
                         IN IF IsArr(a) /\ i \in DOMAIN a.arr
                            THEN compare[Comparison(child, e.arr[i], a.arr[i])]
                            ELSE {child} : i \in DOMAIN e.arr}
             [] OTHER -> Miss(c.path, ValuesMatch(c.path, e, a, rules))
  IN compare

CompareStructured(path, e, a, rules) == Structured(rules)[Comparison(path, e, a)]

-----------------------------------------------------------------------------
Shape(v) == Has(v, "error")

CompareError(e, a, rules) ==
  LET ee == Get(e, "error")
      ae == Get(a, "error")
      at(k) == <<Key("error"), Key(k)>>
  IN Miss(at("code"), Get(ee, "code") = Get(ae, "code"))
     \cup Miss(at("message"),
               RuledOrSameType(at("message"), Get(ee, "message"),
                               Get(ae, "message"), rules))
     \cup IF Has(ee, "data")
          THEN CompareStructured(at("data"), ee.obj["data"],
                                 Get(ae, "data"), rules)
          ELSE {}

(* What both shapes have in common: a success is never compared with an    *)
(* error, an error only as an error.                                       *)
Shaped(e, a, rules, success) ==
  IF Shape(e) # Shape(a) THEN {<<>>}
  ELSE IF Shape(e) THEN CompareError(e, a, rules)
  ELSE success

CompareContentBlock(i, e, a, rules) ==
  LET base == <<Key("content"), Index(i)>>
      at(k) == Append(base, Key(k))
      same(k) == Miss(at(k), ValuesMatch(at(k), Get(e, k), Get(a, k), rules))
      type == Text(e, "type")
      uri == <<Key("content"), Index(i), Key("resource"), Key("uri")>>
  IN IF ~ValuesMatch(at("type"), Str(type), Str(Text(a, "type")), rules)
     THEN {at("type")}
     ELSE CASE type = "text" -> same("text")
            [] type = "image" ->
                 same("mimeType")
                 \cup Miss(at("data"), RuledOrSameType(at("data"),
                             Get(e, "data"), Get(a, "data"), rules))
            [] type = "resource" ->
                 Miss(uri, ValuesMatch(uri, Get(Get(e, "resource"), "uri"),
                             Get(Get(a, "resource"), "uri"), rules))
            [] OTHER -> {at("type")}

(* Mutant: the number of blocks must be the same. *)
CompareContentLength(e, a, rules) ==
  LET es == Items(e, "content")
      as == Items(a, "content")
  IN IF Len(as) # Len(es) THEN {<<Key("content")>>}
     ELSE UNION {CompareContentBlock(i, es[i], as[i], rules) : i \in DOMAIN es}

CompareContent(e, a, rules) ==
  LET es == Items(e, "content")
      as == Items(a, "content")
  IN IF Len(as) < Len(es) THEN {<<Key("content")>>}
     ELSE UNION {CompareContentBlock(i, es[i], as[i], rules) : i \in DOMAIN es}

CompareToolsCall(e, a, rules) ==
  Shaped(e, a, rules,
    CompareContent(e, a, rules)
    \cup Miss(<<Key("isError")>>, Flag(e, "isError") = Flag(a, "isError"))
    \cup IF Has(e, "structuredContent")
         THEN CompareStructured(<<Key("structuredContent")>>,
                e.obj["structuredContent"], Get(a, "structuredContent"), rules)
         ELSE {})

CompareStructuralResult(e, a, rules) ==
  Shaped(e, a, rules, CompareStructured(<<>>, e, a, rules))

(* Mutant: the item is looked for at one position only. *)
FoundFirst(items, field, k) ==
  {j \in DOMAIN items \cap {1} : Get(items[j], field) = Str(k)}

(* The first item of a list whose key field is the string k. *)
Found(items, field, k) ==
  LET same == {j \in DOMAIN items : Get(items[j], field) = Str(k)}
  IN {j \in same : \A l \in same : j <= l}

(* Every expected item must be found by its key and then pass a test. *)
CompareItems(e, a, list, field, Test(_, _, _)) ==
  LET es == Items(e, list)
      as == Items(a, list)
  IN UNION {LET k == Text(es[i], field)
                path == <<Item(list, field, k)>>
                found == Found(as, field, k)
            IN IF found = {} THEN {path}
               ELSE UNION {Test(path, es[i], as[j]) : j \in found}
              : i \in DOMAIN es}

(* Where the items of a list operation are, and the field they go by. *)
ListOf(op) ==
  CASE op = "tools/list" -> <<"tools", "name">>
    [] op = "resources/list" -> <<"resources", "uri">>
    [] op = "prompts/list" -> <<"prompts", "name">>
    [] OTHER -> <<>>

CompareSubsetList(e, a, rules, list, field) ==
  LET Entire(path, ei, ai) == CompareStructured(path, ei, ai, rules)
  IN CompareItems(e, a, list, field, Entire)

(* Of a tool only the schema is compared, and without the rules. *)
CompareToolsList(e, a, rules) ==
  LET Schema(path, ei, ai) ==
        IF Has(ei, "inputSchema")
        THEN CompareStructured(Append(path, Key("inputSchema")),
               ei.obj["inputSchema"], Get(ai, "inputSchema"), NoRules)
        ELSE {}
  IN CompareItems(e, a, "tools", "name", Schema)

CompareResponse(op, e, a, rules) ==
  CASE op = "tools/call" -> CompareToolsCall(e, a, rules)
    [] op = "tools/list" -> CompareToolsList(e, a, rules)
    [] op \in {"resources/read", "prompts/get"} ->
         CompareStructuralResult(e, a, rules)
    [] op = "resources/list" ->
         CompareSubsetList(e, a, rules, "resources", "uri")
    [] op = "prompts/list" ->
         CompareSubsetList(e, a, rules, "prompts", "name")

(* The mock's side: a wrong tool name is decisive, and the arguments are   *)
(* compared only under it.                                                 *)
MatchToolsCallRequest(e, a, rules) ==
  IF Text(e, "name") # Text(a, "name") THEN {<<Key("name")>>}
  ELSE CompareStructured(<<Key("arguments")>>, Get(e, "arguments"),
                         Get(a, "arguments"), rules)

(* Mutant: the rules of the interaction are not passed on. *)
MatchUnruled(e, a, rules) == CompareStructured(<<>>, e, a, NoRules)

MatchStructuralRequest(e, a, rules) == CompareStructured(<<>>, e, a, rules)

MatchRequest(op, e, a, rules) ==
  IF op = "tools/call" THEN MatchToolsCallRequest(e, a, rules)
  ELSE MatchStructuralRequest(e, a, rules)

Outcome(q) ==
  IF q.side = "response"
  THEN CompareResponse(q.op, q.expected, q.actual, q.rules)
  ELSE MatchRequest(q.op, q.expected, q.actual, q.rules)
=============================================================================
