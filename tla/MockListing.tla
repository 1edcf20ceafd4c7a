----------------------------- MODULE MockListing -----------------------------
(***************************************************************************)
(* What the mock advertises (rust/pact-mcp-plugin/src/mock.rs,             *)
(* advertised_tools, advertised_resources, advertised_prompts): one pass   *)
(* over the interactions of its pact, which takes the items of every list  *)
(* interaction as they were declared and makes up a minimal item for every *)
(* name that is called, read or got.  A name is taken once.                *)
(*                                                                         *)
(* An interaction is a record with an operation and a subject, the name    *)
(* that is called, and, for a list, items [name, body, convertible].       *)
(* External: whether an item converts to the protocol's type.              *)
(***************************************************************************)
EXTENDS Naturals, SequencesExt

ListOf == [tools |-> "tools/list", resources |-> "resources/list",
           prompts |-> "prompts/list"]
CallOf == [tools |-> "tools/call", resources |-> "resources/read",
           prompts |-> "prompts/get"]

NoName == "no name"
Synthesized == "synthesized"

Names(entries) == {entries[i].name : i \in DOMAIN entries}

Take(entries, name, body) ==
  IF name \in Names(entries) THEN entries
  ELSE Append(entries, [name |-> name, body |-> body])

(* One pass over a sequence, from left to right. *)
Pass(first, s, Step(_, _)) ==
  LET after[n \in 0..Len(s)] == IF n = 0 THEN first ELSE Step(after[n-1], s[n])
  IN after[Len(s)]

(* Mutant: the items of a list replace what is listed. *)
DeclaredLast(listed, i) ==
  LET Replace(entries, item) ==
        IF item.convertible THEN Take(<<>>, item.name, item.body) ELSE entries
  IN Pass(listed, i.items, Replace)

(* A list interaction: its items, those that do not convert left out. *)
Add(entries, item) ==
  IF item.convertible THEN Take(entries, item.name, item.body) ELSE entries
Declared(listed, i) == Pass(listed, i.items, Add)

(* Mutant: an item is made up only while nothing is listed. *)
CalledFirst(listed, i) ==
  IF i.subject = NoName \/ listed # <<>> THEN listed
  ELSE Take(listed, i.subject, Synthesized)

(* A call, read or get that names something. *)
Called(listed, i) ==
  IF i.subject = NoName THEN listed ELSE Take(listed, i.subject, Synthesized)

Advertised(pact, kind) ==
  LET List(listed, i) ==
        CASE i.operation = ListOf[kind] -> Declared(listed, i)
          [] i.operation = CallOf[kind] -> Called(listed, i)
          [] OTHER -> listed
  IN Pass(<<>>, pact, List)
=============================================================================
