--------------------------- MODULE MockSelection ---------------------------
(***************************************************************************)
(* How the mock engine answers one MCP request: which configured           *)
(* interaction it selects, the MockResult it puts on record and the reply  *)
(* it returns (rust/pact-mcp-plugin/src/mock.rs, handle_structural,        *)
(* handle_call, response_to_call_result and the list handlers).            *)
(*                                                                         *)
(* Comparing two JSON documents is abstracted to Misses(i, incoming), the  *)
(* set of paths at which the request of interaction i and the incoming     *)
(* request disagree; module Matching says how that set is computed.        *)
(***************************************************************************)
EXTENDS Naturals, Sequences, FiniteSetsExt

CONSTANTS
  Interactions,   \* sequence of [operation, request, convertible] records
  Misses(_, _)    \* mismatch paths of an interaction against a request

CallLike == {"tools/call", "resources/read", "prompts/get"}
ListLike == {"tools/list", "resources/list", "prompts/list"}

ASSUME InteractionsAssumption ==
  /\ Interactions \in Seq({Interactions[i] : i \in DOMAIN Interactions})
  /\ \A i \in DOMAIN Interactions :
       /\ Interactions[i].operation \in CallLike \cup ListLike
       /\ Interactions[i].convertible \in BOOLEAN

NamePath == "$.name"

(* The interactions of the incoming request's operation, by position. *)
Candidates(incoming) ==
  {i \in DOMAIN Interactions : Interactions[i].operation = incoming.operation}

MissesOf(i, incoming) == Misses(Interactions[i], incoming)

Hits(incoming) == {i \in Candidates(incoming) : MissesOf(i, incoming) = {}}

(* Mutant: the first candidate is kept, also for tools/call. *)
ReportedFirst(incoming) == Min(Candidates(incoming))

(* The candidate whose mismatches are reported when nothing matches.       *)
(* handle_structural keeps the first; handle_call lets every later one     *)
(* with a miss other than the name displace the one it holds.              *)
Reported(incoming) ==
  LET first    == Min(Candidates(incoming))
      replaces == {i \in Candidates(incoming) :
                     MissesOf(i, incoming) \ {NamePath} # {}}
  IN IF incoming.operation = "tools/call"
     THEN Max({first} \cup replaces)
     ELSE first

ReportedMisses(incoming) ==
  IF Candidates(incoming) = {} THEN {}
  ELSE MissesOf(Reported(incoming), incoming)

(* A MockResult, without the wording of its error. *)
MockResult(error, mismatches) == [error |-> error, mismatches |-> mismatches]
CleanResult == MockResult(FALSE, {})
IsClean(result) == ~result.error /\ result.mismatches = {}

(* What goes on record.  A list request is recorded without a check. *)
RecordOf(incoming) ==
  IF incoming.operation \in ListLike \/ Hits(incoming) # {}
  THEN CleanResult
  ELSE MockResult(TRUE, ReportedMisses(incoming))

(* What the client gets.  The first match wins; its configured response is *)
(* converted to the protocol's result type only after it was recorded.     *)
ReplyOf(incoming) ==
  CASE incoming.operation \in ListLike -> "ok"
    [] incoming.operation \in CallLike /\ Hits(incoming) = {} ->
         "invalid_params"
    [] OTHER -> IF Interactions[Min(Hits(incoming))].convertible
                THEN "ok" ELSE "internal_error"
=============================================================================
