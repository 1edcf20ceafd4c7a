----------------------------- MODULE MCPactFile -----------------------------
(* Small tests over both transports, for TLC. *)
EXTENDS PactFile, TLC

Step(operation, subject, content, items) ==
  [operation |-> operation, subject |-> subject, content |-> content, items |-> items]
Call(tool, c) == Step("tools/call", tool, c, <<>>)
Read(uri, c)  == Step("resources/read", uri, c, <<>>)
Item(name, body, convertible) ==
  [name |-> name, body |-> body, convertible |-> convertible]
List(items) == Step("tools/list", NoName, "list", items)

Stdio(steps) == [transport |-> "stdio", steps |-> steps]
Http(steps)  == [transport |-> "http", steps |-> steps]

(* Tests of different tools and resources: one calls two tools, the list   *)
(* declares one tool that is called, one that is not and one that does not *)
(* convert, and a name twice.                                              *)
MCTests ==
  { Stdio(<<Call("t", "a"), Call("t", "b"), Read("u", "a")>>),
    Http(<<Read("v", "b"), Call("s", "a")>>),
    Stdio(<<Call("s", "a"), Call("t", "b")>>),
    Http(<<List(<<Item("t", "x", TRUE), Item("w", "x", TRUE), Item("w", "y", TRUE),
                  Item("q", "x", FALSE)>>)>>) }
(* Other libraries' interactions: an http one, and messages of other       *)
(* plugins, one of which has a request that names a tool of the tests and  *)
(* one a response that declares another.                                   *)
Other(content, shape, subject, items) ==
  [content |-> content, shape |-> shape, subject |-> subject, items |-> items]
MCForeign ==
  { Other("a", "http", NoName, <<>>), Other("a", "message", "t", <<>>),
    Other("a", "listing", NoName, <<Item("w", "z", TRUE)>>) }

ASSUME Tests = MCTests => DescribedApart

(* Two tests of one tool, with different arguments. *)
SameTool == {Stdio(<<Call("t", "a")>>), Stdio(<<Call("t", "b")>>)}
=============================================================================
