----------------------------- MODULE MCAuthoring -----------------------------
(* Small contents and payloads, for TLC. *)
EXTENDS Authoring, TLC, FiniteSetsExt

Five == JsNumber("5")
Half == JsNumber("2.5")
Literals == {Str("a"), Five, Bool(TRUE)}
AnyMatcher == {Like(v) : v \in Literals \cup {Half}}
  \cup {Definition("integer", Five), Definition("regex", Str("a")),
        Definition("not-empty", Str("a"))}

Only(k, v) == Obj([x \in {k} |-> v])
(* A leaf alone, beside another, nested, and in an array. *)
Trees(leaves) ==
  {Only("k", v) : v \in leaves}
  \cup {Obj([k |-> v, l |-> w]) : v, w \in leaves}
  \cup {Only("k", Only("l", v)) : v \in leaves}
  \cup {Only("k", Arr(<<v, w>>)) : v, w \in leaves}

Empty == Obj([x \in {} |-> Null])
Listing(v) == Only("tools", Arr(<<Obj([name |-> Str("t"), inputSchema |-> Only("k", v)])>>))
Reading(v) == Only("resources", Arr(<<Obj([uri |-> Str("u"), name |-> v])>>))
CallOf(v) == Obj([name |-> Str("t"), arguments |-> Only("k", v)])
(* Results of a call: of each kind of block, and with structured content.  *)
TextBlock(v) == Obj([type |-> Str("text"), text |-> v])
ImageBlock(v) == Obj([type |-> Str("image"), mimeType |-> Str("a"), data |-> v])
LinkBlock(v) == Obj([type |-> Str("resource"), resource |-> Only("uri", v)])
Blocks(v) == {TextBlock(v), ImageBlock(v), LinkBlock(v)}
Results(leaves) ==
  {Only("content", Arr(<<b>>)) : b \in UNION {Blocks(v) : v \in leaves}}
  \cup {Obj([content |-> Arr(<<>>), structuredContent |-> Only("k", v)]) : v \in leaves}
  \cup {Obj([content |-> Arr(<<b, TextBlock(Str("a"))>>), isError |-> Bool(TRUE)]) :
          b \in UNION {Blocks(v) : v \in leaves}}


Interactions(op, requests, responses) ==
  [operation : {op}, request : requests, response : responses, transport : {"stdio"}]
Templates == Literals \cup AnyMatcher
Texts == {v \in Templates : IsDefinition(v) => v.example = Str("a")} \ {Five, Bool(TRUE)}
Failed(v) == Obj([content |-> Arr(<<>>), isError |-> v])
Plain == Only("k", Str("a"))
Call == CallOf(Str("a"))
UsableContents ==
  Interactions("resources/read", {Plain}, Trees(Templates))
  \cup Interactions("prompts/get", Trees(Templates), {Plain})
  \cup Interactions("tools/call", {CallOf(v) : v \in Templates}, {Empty})
  \cup Interactions("tools/call", {Call}, Results(Texts) \cup {Failed(v) : v \in Templates})
  \cup Interactions("tools/list", {Empty}, {Listing(v) : v \in Templates})
  \cup Interactions("resources/list", {Empty}, {Reading(v) : v \in Templates})

(* Contents that are refused, and one that is wrapped and has no hint. *)
Broken == {Only("k", Only("l", Definition(kind, Str("a")))) : kind \in Unsupported}
Odd ==
  Interactions("prompts/summon", {Empty}, {Empty})
  \cup Interactions("tools/call", Broken, {Empty})
  \cup Interactions("prompts/get", {Empty}, Broken)
  \cup {[operation |-> "tools/list", request |-> Empty],
        [operation |-> "tools/list", response |-> Empty],
        [request |-> Empty, response |-> Empty],
        [mcp |-> [operation |-> "prompts/get", request |-> Plain, response |-> Plain]]}
MCContents == UsableContents \cup Odd

Sent == {Str("a"), Str("b"), Str(""), Five, Half, JsNumber("7"), Bool(TRUE), Bool(FALSE), Null}
MCPayloads == Trees(Sent) \cup {Only("k", Arr(<<v>>)) : v \in Sent}
  \cup {CallOf(v) : v \in Sent} \cup {Listing(v) : v \in Sent}
  \cup {Reading(v) : v \in Sent} \cup Results({Str("a"), Str("b"), Five, Null})
  \cup {Failed(v) : v \in Sent}
MCWhole == {"5", "7"}
MCPattern == {"a"}
MCQuestions == {}

-----------------------------------------------------------------------------
(* What is compared, all that is in it, and how deep it is nested. *)
RECURSIVE AllIn(_)
AllIn(v) == {v} \cup UNION {AllIn(w) : w \in Parts(v)}
RECURSIVE DepthOf(_)
DepthOf(v) == IF Parts(v) = {} THEN 0
              ELSE 1 + Max({DepthOf(w) : w \in Parts(v)})
RECURSIVE Made(_, _)
Made(t, how) ==
  CASE IsObj(t) -> Obj([k \in DOMAIN t.obj |-> Made(t.obj[k], how)])
    [] IsArr(t) -> Arr([i \in DOMAIN t.arr |-> Made(t.arr[i], how)])
    [] OTHER -> Walked(t, how)

MadeOf(t) ==
  LET raw == Made(t, "double")
      body == Made(raw, "strip")
      plain == Made(t, "plain")
  IN {t, raw, body, Made(body, "js"), plain, Made(plain, "js")}
Compared == MCPayloads \cup {Null} \cup UNION {MadeOf(t) : t \in Written}
MCDepth == [v \in UNION {AllIn(w) : w \in Compared} |-> DepthOf(v)]

(* What the theorems about them suppose. *)
ASSUME \A contents \in MCContents : LET mcp == Mcp(contents)
                                    IN \/ Refused(mcp)
                                       \/ /\ Usable(mcp)
                                          /\ \A side \in Sides : Instances(mcp[side])
=============================================================================
