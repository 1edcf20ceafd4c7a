---------------------------- MODULE Verification ----------------------------
(***************************************************************************)
(* The engine's own verification of a pact against a real MCP server       *)
(* (rust/pact-mcp-plugin/src/cli.rs, run_verify; verify.rs; transport/):   *)
(* interaction by interaction, connect, perform the request, close, and    *)
(* compare what came back.                                                 *)
(*                                                                         *)
(* External: the server, which may refuse, fail or answer as it likes, and *)
(* rmcp, which ends the process of a client that is closed or dropped.  No *)
(* call has a timeout.  Whether a response fits what an interaction        *)
(* expects is left to module Matching, how credentials are resolved to     *)
(* module Credentials.                                                     *)
(***************************************************************************)
EXTENDS Naturals, SequencesExt

CONSTANT
  Pact     \* the interactions of the pact: [mcp, operation, request, states, expects]

ListLike == {"tools/list", "resources/list", "prompts/list"}

ASSUME PactAssumption ==
  /\ Pact \in Seq({Pact[i] : i \in DOMAIN Pact})
  /\ \A i \in DOMAIN Pact : Pact[i].expects \in {"success", "error"}

VARIABLES
  options,  \* whether there are --url and --command; how --auth resolves
  target,   \* "stdio" (a command to spawn) or "http" (a server that runs)
  index,    \* the interaction at hand
  stage,    \* where verify_interaction_stdio or _http is
  server,   \* the server: the states it was started with, what it served
  reply,    \* what it answered
  report,   \* results
  earned    \* history: the interactions whose answer fitted

vars == <<options, target, index, stage, server, reply, report, earned>>

Off == [states |-> "none", served |-> <<>>]
NoReply == [shape |-> "none", fits |-> FALSE]

Init ==
  /\ options \in [url : BOOLEAN, command : BOOLEAN, auth : {"none", "good", "bad"}]
  /\ target = "none"
  /\ index = 1 /\ stage = "start"
  /\ server = Off /\ reply = NoReply /\ report = <<>> /\ earned = {}

Busy(at) == index \in DOMAIN Pact /\ Pact[index].mcp /\ stage = at

(* Mutant: an interaction that failed is passed over. *)
ReportOnlyMatches(success) ==
  /\ report' = IF success
               THEN Append(report, [index |-> index, success |-> success])
               ELSE report
  /\ index' = index + 1 /\ stage' = "next" /\ reply' = NoReply

(* Mutant: the first failure ends the loop. *)
ReportAndStop(success) ==
  /\ report' = Append(report, [index |-> index, success |-> success])
  /\ index' = IF success THEN index + 1 ELSE index
  /\ stage' = IF success THEN "next" ELSE "stopped"
  /\ reply' = NoReply

(* results.push, and on to the next interaction. *)
Report(success) ==
  /\ report' = Append(report, [index |-> index, success |-> success])
  /\ index' = index + 1 /\ stage' = "next" /\ reply' = NoReply

(* The client goes away, and a server that was spawned for it. *)
LetGo == server' = IF target = "http" THEN server ELSE Off

-----------------------------------------------------------------------------
(* The arguments: a url is preferred, and its credentials are resolved     *)
(* once, for all interactions.                                             *)
Usable == IF options.url THEN options.auth # "bad" ELSE options.command

Begin ==
  /\ stage = "start" /\ Usable
  /\ target' = IF options.url THEN "http" ELSE "stdio"
  /\ stage' = "next"
  /\ UNCHANGED <<options, index, server, reply, report, earned>>

(* Credentials that do not resolve, or neither a url nor a command: the    *)
(* run ends without a report.                                              *)
Abort ==
  /\ stage = "start" /\ ~Usable
  /\ stage' = "aborted"
  /\ UNCHANGED <<options, target, index, server, reply, report, earned>>

(* Not an mcp interaction. *)
Skip ==
  /\ stage = "next" /\ index \in DOMAIN Pact /\ ~Pact[index].mcp
  /\ index' = index + 1
  /\ UNCHANGED <<options, target, stage, server, reply, report, earned>>

(* Mutant: a server that still runs is used again. *)
ConnectReuses ==
  /\ Busy("next")
  /\ server' = IF target = "http" \/ index > 1 THEN server
               ELSE [states |-> Pact[index].states, served |-> <<>>]
  /\ stage' = "connected"
  /\ UNCHANGED <<options, target, index, reply, report, earned>>

(* Spawn with the interaction's provider states in the environment, or     *)
(* reach the url, where states cannot go; then the handshake.              *)
Connect ==
  /\ Busy("next")
  /\ server' = IF target = "http" THEN server
               ELSE [states |-> Pact[index].states, served |-> <<>>]
  /\ stage' = "connected"
  /\ UNCHANGED <<options, target, index, reply, report, earned>>

ConnectFails ==
  /\ Busy("next")
  /\ Report(FALSE) /\ LetGo
  /\ UNCHANGED <<options, target, earned>>

(* The server answers with a result, or with a protocol error, which the   *)
(* list operations take for a failed request.                              *)
Answered(shape) == ~(shape = "error" /\ Pact[index].operation \in ListLike)

Perform ==
  /\ Busy("connected") /\ Pact[index].request = "valid"
  /\ \E shape \in {"success", "error"}, fits \in BOOLEAN :
       /\ Answered(shape)
       /\ reply' = [shape |-> shape, fits |-> fits]
       /\ earned' = IF fits /\ shape = Pact[index].expects
                    THEN earned \cup {index} ELSE earned
  /\ server' = [server EXCEPT !.served = Append(@, index)]
  /\ stage' = "performed"
  /\ UNCHANGED <<options, target, index, report>>

(* A request that is not valid for its operation, a failed transport, or a *)
(* list that was refused: nothing is closed, the client is dropped.        *)
PerformFails ==
  /\ Busy("connected")
  /\ Report(FALSE) /\ LetGo
  /\ UNCHANGED <<options, target, earned>>

Close ==
  /\ Busy("performed")
  /\ stage' = "closed" /\ LetGo
  /\ UNCHANGED <<options, target, index, reply, report, earned>>

(* What came back is not looked at when the client does not close. *)
CloseFails ==
  /\ Busy("performed")
  /\ Report(FALSE) /\ LetGo
  /\ UNCHANGED <<options, target, earned>>

(* compare_response: shapes that differ never match. *)
Compare ==
  /\ Busy("closed")
  /\ Report(reply.fits /\ reply.shape = Pact[index].expects)
  /\ UNCHANGED <<options, target, server, earned>>

(* The report is printed. *)
Done == stage = "next" /\ index = Len(Pact) + 1
Success == \A i \in DOMAIN report : report[i].success

Next ==
  \/ Begin \/ Abort \/ Skip \/ Connect \/ ConnectFails \/ Perform \/ PerformFails
  \/ Close \/ CloseFails \/ Compare

Spec == Init /\ [][Next]_vars

(* The run goes on as long as the server answers. *)
FairSpec == Spec /\ WF_vars(Next)
-----------------------------------------------------------------------------
(* Every variable stays in its range. *)
TypeOK ==
  /\ options \in [url : BOOLEAN, command : BOOLEAN, auth : {"none", "good", "bad"}]
  /\ target \in {"none", "stdio", "http"}
  /\ index \in 1..(Len(Pact) + 1)
  /\ stage \in {"start", "aborted", "next", "connected", "performed", "closed"}
  /\ reply \in [shape : {"none", "success", "error"}, fits : BOOLEAN]
  /\ report \in Seq([index : DOMAIN Pact, success : BOOLEAN])
  /\ server \in [states : {"none"} \cup {Pact[i].states : i \in DOMAIN Pact},
                 served : Seq(DOMAIN Pact)]
  /\ earned \subseteq DOMAIN Pact

(* The report has one result for every mcp interaction that was passed, in *)
(* the order of the pact, whatever failed on the way.                      *)
ReportCoversPact ==
  /\ \A j \in 1..(index - 1) :
       Pact[j].mcp <=> \E i \in DOMAIN report : report[i].index = j
  /\ \A i, k \in DOMAIN report : i < k => report[i].index < report[k].index

(* "One spawn per interaction, so states cannot leak across interactions": *)
(* what is compared was answered by a server that was started with the     *)
(* states of the interaction and had served nothing before.                *)
FreshServer ==
  (target = "stdio" /\ Busy("performed")) =>
    server = [states |-> Pact[index].states, served |-> <<index>>]

(* A run that reports success has had a fitting answer to the request of   *)
(* every mcp interaction of the pact.                                      *)
SuccessIsEarned ==
  Done /\ Success => earned = {i \in DOMAIN Pact : Pact[i].mcp}

(* A run whose arguments say what to verify comes to its report, if the    *)
(* server keeps answering.                                                 *)
ComesToReport == Usable => <>Done
=============================================================================
