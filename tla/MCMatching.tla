----------------------------- MODULE MCMatching -----------------------------
(* Small vocabularies of payloads, per operation, for TLC. *)
EXTENDS Matching, TLC, FiniteSetsExt

ListsOver(n, vals) == UNION {[1..m -> vals] : m \in 0..n}
ObjsOver(keys, vals) == {Obj(f) : f \in UNION {[K -> vals] : K \in SUBSET keys}}
Only(k, v) == Obj([x \in {k} |-> v])
EmptyObj == Obj([x \in {} |-> Null])

Ruled(paths) == [p \in paths |-> <<"type">>]
Ask4(op, side, es, as, rs) ==
  [op : {op}, side : {side}, expected : es, actual : as, rules : rs]

-----------------------------------------------------------------------------
(* resources/read, prompts/get and their requests: any JSON of depth two. *)
Leaf == {Str("a"), Num("1"), EmptyObj}
Deep == Leaf \cup {Str("b")} \cup ObjsOver({"k", "l"}, Leaf)
             \cup {Arr(s) : s \in ListsOver(2, Leaf)}
Bodies == {Only("k", v) : v \in Deep} \cup ObjsOver({"k", "l"}, {Str("a"), Num("1")})
BodyRules == {NoRules, Ruled({<<Key("k")>>, <<Key("k"), Key("l")>>,
                              <<Key("k"), Index(1)>>})}
StructuralQuestions ==
  Ask4("resources/read", "response", Bodies, Bodies, BodyRules)
  \cup Ask4("prompts/get", "request", Bodies, Bodies, BodyRules)

-----------------------------------------------------------------------------
(* tools/call requests and results. *)
Calls ==
  {Obj([name |-> Str(n), arguments |-> x]) :
     n \in {"t", "u"}, x \in {EmptyObj, Only("k", Str("a")), Only("k", Str("b")),
                              Obj([k |-> Str("a"), l |-> Num("1")])}}
CallQuestions ==
  Ask4("tools/call", "request", Calls, Calls,
       {NoRules, Ruled({<<Key("arguments"), Key("k")>>})})

TextBlock(t) == Obj([type |-> Str("text"), text |-> t])
ImageBlock(d) == Obj([type |-> Str("image"), mimeType |-> Str("png"), data |-> d])
ResourceBlock(u) ==
  Obj([type |-> Str("resource"), resource |-> Only("uri", Str(u))])
Blocks == {TextBlock(Str("a")), ImageBlock(Str("x")), ResourceBlock("u")}
OtherBlocks == Blocks \cup {TextBlock(Str("b")), ImageBlock(Str("y")), ResourceBlock("v")}
Success(blocks, extra) == Obj([content |-> Arr(blocks)] @@ extra)
Extras == {[k \in {} |-> Null], [isError |-> Bool(TRUE)],
           [structuredContent |-> Only("k", Str("a"))],
           [structuredContent |-> Obj([k |-> Str("b"), l |-> Num("1")])]}
Failure(code, message, data) ==
  Only("error", Obj([code |-> Num(code), message |-> Str(message)] @@ data))
Failures == {Failure(c, m, d) : c \in {"1", "2"}, m \in {"m", "n"},
               d \in {[k \in {} |-> Null], [data |-> Only("k", Str("a"))],
                      [data |-> Only("k", Str("b"))]}}
ResultRules == {NoRules,
  Ruled({<<Key("content"), Index(1), Key("text")>>,
         <<Key("content"), Index(1), Key("data")>>,
         <<Key("structuredContent"), Key("k")>>, <<Key("error"), Key("message")>>})}
ResultQuestions ==
  Ask4("tools/call", "response",
       {Success(b, x) : b \in ListsOver(2, Blocks), x \in Extras} \cup Failures,
       {Success(<<b>>, x) : b \in OtherBlocks, x \in Extras}
         \cup {Success(b, [k \in {} |-> Null]) : b \in ListsOver(2, OtherBlocks)} \cup Failures,
       ResultRules)

-----------------------------------------------------------------------------
(* The three list operations. *)
ListedTools == {Obj([name |-> Str(n)] @@ x) : n \in {"t", "u"},
                  x \in {[k \in {} |-> Null], [inputSchema |-> Only("k", Str("a"))],
                         [inputSchema |-> Only("k", Str("b"))]}}
Once(items, key) == {s \in ListsOver(2, items) :
  \A i, j \in DOMAIN s : Get(s[i], key) = Get(s[j], key) => i = j}
ToolQuestions ==
  Ask4("tools/list", "response", {Only("tools", Arr(s)) : s \in Once(ListedTools, "name")},
       {Only("tools", Arr(s)) : s \in ListsOver(2, ListedTools)}, {NoRules})
ListedBy(key) == {Obj((key :> Str(n)) @@ x) : n \in {"t", "u"},
                    x \in {[k \in {} |-> Null], [title |-> Str("a")], [title |-> Str("b")]}}
ItemQuestions(op, list, key) ==
  Ask4(op, "response", {Only(list, Arr(s)) : s \in Once(ListedBy(key), key)},
       {Only(list, Arr(s)) : s \in ListsOver(2, ListedBy(key))},
       {NoRules, Ruled({<<Item(list, key, "t"), Key("title")>>})})

ListQuestions ==
  ToolQuestions \cup ItemQuestions("resources/list", "resources", "uri")
                \cup ItemQuestions("prompts/list", "prompts", "name")
MCQuestions == StructuralQuestions \cup CallQuestions \cup ResultQuestions \cup ListQuestions

-----------------------------------------------------------------------------
(* Everything that is in them, and how deep it is nested. *)
RECURSIVE AllIn(_)
AllIn(v) == {v} \cup UNION {AllIn(w) : w \in Parts(v)}
Asked == {q.expected : q \in MCQuestions} \cup {q.actual : q \in MCQuestions}
RECURSIVE DepthOf(_)
DepthOf(v) == IF Parts(v) = {} THEN 0
              ELSE 1 + Max({DepthOf(w) : w \in Parts(v)})
MCDepth == [v \in {Null} \cup UNION {AllIn(q) : q \in Asked} |-> DepthOf(v)]

(* What the theorems about them suppose. *)
ASSUME \A q \in MCQuestions : WellPosed(q) /\ ByType(q.rules)
=============================================================================
