------------------------------ MODULE Matching ------------------------------
(***************************************************************************)
(* Comparisons by the content matcher, one at a time: a question is        *)
(* answered with the paths that mismatch; and what a consumer relies on    *)
(* whatever is compared (module ContentMatcher says how).                  *)
(***************************************************************************)
EXTENDS ContentMatcher

CONSTANT
  Questions    \* what is compared: [op, side, expected, actual, rules]

VARIABLES question, misses, answered

vars == <<question, misses, answered>>

ASSUME QuestionsAssumption ==
  \A q \in Questions :
    q \in [op : Operations, side : {"request", "response"},
          expected : Values, actual : Values, rules : {q.rules}]

-----------------------------------------------------------------------------
Init == question \in Questions /\ misses = {} /\ answered = FALSE

Answer(side) ==
  /\ ~answered /\ question.side = side
  /\ misses' = Outcome(question)
  /\ answered' = TRUE
  /\ UNCHANGED question

Next == Answer("response") \/ Answer("request")

Spec == Init /\ [][Next]_vars
-----------------------------------------------------------------------------
Ask(q, field, v) == Outcome([q EXCEPT ![field] = v])

(* Rules by type, none of them for what says how a block is compared.      *)
ByType(rules) ==
  \A path \in DOMAIN rules :
    /\ MatchType(rules, path) \in {"none", "type"}
    /\ ~(Len(path) = 3 /\ path[1] = Key("content") /\ path[3] = Key("type"))

(* Rules that match by type only relax: a comparison that passes without   *)
(* them passes with them.  (It holds of rules that are ByType.)            *)
TypeRulesRelax == answered => misses \subseteq Ask(question, "rules", NoRules)

(* What extends b has all b has, and maybe more keys or trailing items.    *)
Pair(a, b) == [more |-> a, less |-> b]
Extension[p \in [more : Values, less : Values]] ==
  LET a == p.more
      b == p.less
  IN \/ a = b
     \/ /\ IsObj(a) /\ IsObj(b)
        /\ \A k \in DOMAIN b.obj : Has(a, k) /\ Extension[Pair(a.obj[k], b.obj[k])]
     \/ /\ IsArr(a) /\ IsArr(b) /\ Len(b.arr) <= Len(a.arr)
        /\ \A i \in DOMAIN b.arr : Extension[Pair(a.arr[i], b.arr[i])]
Extends(a, b) == Extension[Pair(a, b)]

ListedIn(op, v) ==
  {Items(v, ListOf(op)[1])[i] : i \in DOMAIN Items(v, ListOf(op)[1])}

(* Payloads as MCP has them: an error is an object, a call names its tool, *)
(* and what is listed has its key ...                                      *)
Formed(op, side, v) ==
  /\ Has(v, "error") => IsObj(Get(v, "error"))
  /\ op = "tools/call" /\ side = "request" => IsStr(Get(v, "name"))
  /\ ListOf(op) # <<>> /\ side = "response" =>
       \A item \in ListedIn(op, v) : IsStr(Get(item, ListOf(op)[2]))

FormedBlock(b) ==
  \/ Text(b, "type") = "text" /\ IsStr(Get(b, "text"))
  \/ Text(b, "type") = "image" /\ IsStr(Get(b, "mimeType")) /\ IsStr(Get(b, "data"))
  \/ Text(b, "type") = "resource" /\ IsStr(Get(Get(b, "resource"), "uri"))

Object(v, key) == Has(v, key) => IsObj(Get(v, key))

(* ... and examples of them: a call with its arguments, blocks of a kind   *)
(* that the matcher knows, nothing listed twice.                           *)
Exemplary(op, side, v) ==
  /\ op = "tools/call" /\ side = "request" => IsObj(Get(v, "arguments"))
  /\ op = "tools/call" /\ side = "response" =>
       /\ Object(v, "structuredContent")
       /\ \A i \in DOMAIN Items(v, "content") : FormedBlock(Items(v, "content")[i])
  /\ ListOf(op) # <<>> /\ side = "response" =>
       LET items == Items(v, ListOf(op)[1])
       IN /\ \A i, j \in DOMAIN items :
               Get(items[i], ListOf(op)[2]) = Get(items[j], ListOf(op)[2]) => i = j
          /\ op = "tools/list" => \A item \in ListedIn(op, v) : Object(item, "inputSchema")

WellPosed(q) ==
  /\ Formed(q.op, q.side, q.expected) /\ Formed(q.op, q.side, q.actual)
  /\ Exemplary(q.op, q.side, q.expected)

(* The interaction's own example is accepted, under every set of rules:    *)
(* what the mock answers is what the verifier demands; and what the        *)
(* consumer did not specify is ignored: a payload that only adds to the    *)
(* example, or to another one that was accepted (neither an error nor      *)
(* isError), is accepted too.  (It holds of questions that are WellPosed.) *)
Actuals == {q.actual : q \in Questions}
ExtrasIgnored ==
  answered =>
    \A accepted \in {question.expected}
                      \cup (IF misses = {} THEN {question.actual} ELSE {}) :
      \A a \in Actuals \cup {question.expected} :
        (/\ Extends(a, accepted)
         /\ \A k \in {"error", "isError"} : Get(accepted, k) = Get(a, k))
          => Ask(question, "actual", a) = {}

Permuted(s, t) ==
  /\ Len(s) = Len(t)
  /\ \A x \in {s[i] : i \in DOMAIN s} \cup {t[i] : i \in DOMAIN t} :
       Cardinality({i \in DOMAIN s : s[i] = x})
         = Cardinality({i \in DOMAIN t : t[i] = x})

(* The order in which a server lists its tools, resources or prompts does  *)
(* not matter, as long as it lists each once.                              *)
ListOrderIrrelevant ==
  (answered /\ question.side = "response" /\ ListOf(question.op) # <<>>) =>
    LET list == ListOf(question.op)[1]
        key  == ListOf(question.op)[2]
        mine == Items(question.actual, list)
    IN \A a \in Actuals :
         (/\ Permuted(mine, Items(a, list))
          /\ \A i, j \in DOMAIN mine :
               Get(mine[i], key) = Get(mine[j], key) => i = j)
           => misses = Ask(question, "actual", a)

(* The reference reading of a structural comparison: the leaves of what is *)
(* expected, where each is looked up, and how far the path exists.         *)
Below(step, leaf) == [path |-> <<step>> \o leaf.path, value |-> leaf.value]
Leaves[e \in Values] ==
  CASE IsObj(e) /\ DOMAIN e.obj # {} ->
         UNION {{Below(Key(k), leaf) : leaf \in Leaves[e.obj[k]]} : k \in DOMAIN e.obj}
    [] IsArr(e) /\ e.arr # <<>> ->
         UNION {{Below(Index(i), leaf) : leaf \in Leaves[e.arr[i]]} : i \in DOMAIN e.arr}
    [] OTHER -> {[path |-> <<>>, value |-> e]}

Absent == [absent |-> {}]
StepInto(v, step) ==
  CASE DOMAIN step = {"key"} /\ IsObj(v) ->
         IF step.key \in DOMAIN v.obj THEN v.obj[step.key] ELSE Absent
    [] DOMAIN step = {"index"} /\ IsArr(v) ->
         IF step.index \in DOMAIN v.arr THEN v.arr[step.index] ELSE Absent
    [] OTHER -> Absent

(* What is found in v after each step of a path. *)
Along(v, path) ==
  LET at[n \in 0..Len(path)] == IF n = 0 THEN v ELSE StepInto(at[n-1], path[n])
  IN at

(* start: the path at which e and a are compared. *)
Complaint(start, leaf, a, rules) ==
  LET found == Along(a, leaf.path)
      path == start \o leaf.path
      open == IsObj(leaf.value) \/ IsArr(leaf.value)
  IN {start \o SubSeq(leaf.path, 1, n) :
        n \in {m \in 1..Len(leaf.path) : found[m] = Absent /\ found[m-1] # Absent}}
     \cup Miss(path, \/ open \/ found[Len(leaf.path)] = Absent
                    \/ ValuesMatch(path, leaf.value, found[Len(leaf.path)], rules))

Complaints(start, e, a, rules) ==
  UNION {Complaint(start, leaf, a, rules) : leaf \in Leaves[e]}

(* A structural comparison complains exactly about the expected leaves     *)
(* that are absent (at the shortest path that is) or different: nothing is *)
(* skipped below a mismatch and nothing is reported twice or elsewhere.    *)
(* An expected object or array without members is an open leaf: whatever   *)
(* is in its place is accepted, a string included (StructuredIsCompatible).*)
Structural(q) ==
  \/ q.side = "request" /\ q.op # "tools/call"
  \/ /\ q.side = "response" /\ q.op \in {"resources/read", "prompts/get"}
     /\ ~Shape(q.expected) /\ ~Shape(q.actual)
StructuredIsLeafwise ==
  (answered /\ Structural(question)) =>
    misses = Complaints(<<>>, question.expected, question.actual, question.rules)

(* What is expected is there, of the same type at every leaf.              *)
Compatible(e, a) ==
  \A leaf \in Leaves[e] :
    LET v == Along(a, leaf.path)[Len(leaf.path)]
    IN v # Absent /\ SameJsonType(leaf.value, v)

(* "keys present in `expected` must be present and type-compatible         *)
(* (recursively) in `actual`" (content/mod.rs:432).                        *)
StructuredIsCompatible ==
  (answered /\ Structural(question) /\ misses = {}) =>
    Compatible(question.expected, question.actual)

(* "For each matched tool, compare inputSchema by structure [...] keys the *)
(* consumer specified must be present and type-compatible"                 *)
(* (matching-semantics.md:39): nothing more is asked of a listed tool.     *)
SchemasByType ==
  (/\ answered /\ question.op = "tools/list" /\ question.side = "response"
   /\ \A tool \in ListedIn("tools/list", question.expected) :
        LET alike == {found \in ListedIn("tools/list", question.actual) :
                        Get(found, "name") = Get(tool, "name")}
        IN /\ alike # {}
           /\ Has(tool, "inputSchema") =>
                \A found \in alike :
                  Compatible(Get(tool, "inputSchema"), Get(found, "inputSchema")))
    => misses = {}

=============================================================================
