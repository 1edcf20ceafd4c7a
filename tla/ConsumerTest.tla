---------------------------- MODULE ConsumerTest ---------------------------
(***************************************************************************)
(* A consumer test of the TypeScript adapter (adapters/ts/pact-mcp/src/    *)
(* consumer.ts, executeTest, runHttpMock, assertMockClean) together with   *)
(* the mock process it runs (module MockProcess): author and stamp the     *)
(* pact, start the mock, run the user's test against it, close, and judge  *)
(* the results file.                                                       *)
(*                                                                         *)
(* External: pact-js's authoring, the MCP SDK's transports and the user's  *)
(* test, which may send any of Requests and return or throw when it likes. *)
(***************************************************************************)
EXTENDS MockProcess

ASSUME ConsumerAssumption == Live   \* the adapter always asks for results

VARIABLES
  transport,  \* mockTransport of the declarations: "stdio" or "http"
  step,       \* where executeTest is
  authored,   \* interactions written to the pact so far
  stamped,    \* the pact was post-processed
  started,    \* the mock process was spawned
  outcome,    \* of the user's test
  heard,      \* requests answered while the test ran
  exitEvent   \* the "exit" event of the child process

adapterVars ==
  <<transport, step, authored, stamped, started, outcome, heard, exitEvent>>
allVars == <<vars, adapterVars>>

TestInit ==
  /\ Init
  /\ transport \in {"stdio", "http"}
  /\ step = "authoring" /\ authored = 0 /\ stamped = FALSE /\ started = FALSE
  /\ outcome = "none" /\ heard = {} /\ exitEvent = "none"

Goto(from, to) == step = from /\ step' = to
Stdio == transport = "stdio"
Http == transport = "http"

-----------------------------------------------------------------------------
(* One pact-js executeTest per declared interaction; each merges one more  *)
(* into the pact file, or rejects and leaves the file as it is.            *)
Author ==
  /\ step = "authoring" /\ authored < Len(Interactions)
  /\ \/ authored' = authored + 1 /\ UNCHANGED step
     \/ step' = "rejected" /\ UNCHANGED authored
  /\ UNCHANGED <<vars, transport, stamped, started, outcome, heard, exitEvent>>

(* Mutant: stamping does not wait for the last interaction. *)
StampEarly ==
  /\ \/ Goto("authoring", IF Http THEN "starting" ELSE "testing")
        /\ stamped' = TRUE
     \/ Goto("authoring", "rejected") /\ UNCHANGED stamped
  /\ UNCHANGED <<vars, transport, authored, started, outcome, heard, exitEvent>>

(* stampPact, unless pact-js wrote no file. *)
Stamp ==
  /\ authored = Len(Interactions)
  /\ \/ Goto("authoring", IF Http THEN "starting" ELSE "testing")
        /\ stamped' = TRUE
     \/ Goto("authoring", "rejected") /\ UNCHANGED stamped
  /\ UNCHANGED <<vars, transport, authored, started, outcome, heard, exitEvent>>

(* http: the adapter spawns the mock and waits for the line with its url.  *)
SpawnHttp ==
  /\ Http /\ Goto("starting", "url") /\ started' = TRUE
  /\ UNCHANGED <<vars, transport, authored, stamped, outcome, heard, exitEvent>>

Url ==
  /\ alive /\ Goto("url", "testing")
  /\ UNCHANGED <<vars, transport, authored, stamped, started, outcome, heard, exitEvent>>

(* Ten seconds without one, or a spawn error: reject.  The process, if it  *)
(* runs, is left running.                                                  *)
UrlTimeout ==
  /\ Goto("url", "rejected") /\ outcome' = "no url"
  /\ UNCHANGED <<vars, transport, authored, stamped, started, heard, exitEvent>>

(* stdio: the test's client spawns the mock when it connects. *)
Connect ==
  /\ Stdio /\ step = "testing" /\ ~started /\ started' = TRUE
  /\ UNCHANGED <<vars, transport, step, authored, stamped, outcome, heard, exitEvent>>

(* The user's test. *)
Call(r) ==
  /\ step = "testing" /\ started
  /\ Send(r)
  /\ UNCHANGED adapterVars

TestEnds ==
  /\ Hurried \/ Quiet \/ ~alive
  /\ Goto("testing", "closing")
  /\ outcome' \in {"returned", "threw"}
  /\ UNCHANGED <<vars, transport, authored, stamped, started, heard, exitEvent>>

-----------------------------------------------------------------------------
(* After the test, in its "finally": the client's transport closes, which  *)
(* for stdio ends the mock's stdin, ...                                    *)
Settle == IF outcome = "threw" THEN "rejected" ELSE "asserting"

(* Mutant: the transport is not closed after a test that threw. *)
CloseOnSuccess ==
  /\ Stdio /\ Goto("closing", "closed")
  /\ IF started /\ alive /\ outcome = "returned"
     THEN ClientLeaves ELSE UNCHANGED vars
  /\ UNCHANGED <<transport, authored, stamped, started, outcome, heard, exitEvent>>

CloseStdio ==
  /\ Stdio /\ Goto("closing", "closed")
  /\ IF started /\ alive THEN ClientLeaves ELSE UNCHANGED vars
  /\ UNCHANGED <<transport, authored, stamped, started, outcome, heard, exitEvent>>

(* ... and gives the process a bounded time to exit, not a guarantee.      *)
ClosedStdio ==
  /\ Stdio /\ Goto("closed", Settle)
  /\ UNCHANGED <<vars, transport, authored, stamped, started, outcome, heard, exitEvent>>

(* Mutant: the exit is awaited without ending stdin. *)
EndStdinForgotten ==
  /\ Http /\ Goto("closing", "waiting")
  /\ UNCHANGED <<vars, transport, authored, stamped, started, outcome, heard, exitEvent>>

(* Mutant: the results are judged without waiting for the exit. *)
EndStdinNoWait ==
  /\ Http /\ Goto("closing", Settle)
  /\ IF alive THEN ClientLeaves ELSE UNCHANGED vars
  /\ UNCHANGED <<transport, authored, stamped, started, outcome, heard, exitEvent>>

(* http: the adapter ends stdin itself, only then listens for the exit of  *)
(* the process, and waits for it without a limit.                          *)
EndStdin ==
  /\ Http /\ Goto("closing", "waiting")
  /\ IF alive THEN ClientLeaves ELSE UNCHANGED vars
  /\ UNCHANGED <<transport, authored, stamped, started, outcome, heard, exitEvent>>

(* Node emits "exit" once; with no listener it is lost. *)
ExitEvent ==
  /\ Http /\ started /\ (phase = "exited" \/ ~alive) /\ exitEvent = "none"
  /\ exitEvent' = "emitted"
  /\ step' = IF step = "waiting" THEN Settle ELSE step
  /\ UNCHANGED <<vars, transport, authored, stamped, started, outcome, heard>>

(* Mutant: a file that does not parse counts as clean. *)
AssertLenient ==
  /\ Goto("asserting",
          IF \A i \in DOMAIN file.seq :
               IsClean(RecordOf(Incoming[file.seq[i]]))
          THEN "resolved" ELSE "rejected")
  /\ UNCHANGED <<vars, transport, authored, stamped, started, outcome, heard, exitEvent>>

(* assertMockClean: no file is clean, one that does not parse throws. *)
AssertMockClean ==
  /\ Goto("asserting",
          IF \/ file.kind = "absent"
             \/ /\ file.kind = "json"
                /\ \A i \in DOMAIN file.seq :
                     IsClean(RecordOf(Incoming[file.seq[i]]))
          THEN "resolved" ELSE "rejected")
  /\ UNCHANGED <<vars, transport, authored, stamped, started, outcome, heard, exitEvent>>

-----------------------------------------------------------------------------
(* A step of the mock process that the adapter takes no part in. *)
Hear(r) ==
  /\ Answer(r)
  /\ heard' = IF step = "testing" THEN heard \cup {r} ELSE heard
  /\ UNCHANGED <<transport, step, authored, stamped, started, outcome, exitEvent>>

MockRuns(r) == (Push(r) \/ WriteResults(r)) /\ UNCHANGED adapterVars
MockFlushes == (FinalFlush \/ Exit) /\ UNCHANGED adapterVars
MockKilled == started /\ Kill /\ UNCHANGED adapterVars

Adapter ==
  \/ Author \/ Stamp \/ SpawnHttp \/ Url \/ UrlTimeout \/ Connect
  \/ CloseStdio \/ ClosedStdio \/ EndStdin \/ ExitEvent
  \/ AssertMockClean

TestNext ==
  \/ Adapter \/ TestEnds \/ MockFlushes \/ MockKilled
  \/ \E r \in Requests : Call(r) \/ Hear(r) \/ MockRuns(r)

(* Promises and child process events are delivered; the mock's tasks run.  *)
(* Nothing forces the user's test to end.                                  *)
TestSpec ==
  /\ TestInit /\ [][TestNext]_allVars
  /\ WF_allVars(Adapter) /\ WF_allVars(MockFlushes)
  /\ \A r \in Requests : WF_allVars(Hear(r) \/ MockRuns(r))

-----------------------------------------------------------------------------
(* When a test passes, it was never told of a mismatch and had no failure  *)
(* on record for any answer it heard, as far as writing these results had  *)
(* succeeded by then: even when it left other requests in flight, a later  *)
(* write failed, the final flush raced them or the mock was killed.        *)
Passes == step' = "resolved" /\ step # "resolved"
PassMeansHeardClean ==
  [][Passes => \A i \in 1..shown :
       results[i] \in heard =>
         /\ ReplyOf(Incoming[results[i]]) # "invalid_params"
         /\ IsClean(RecordOf(Incoming[results[i]]))]_allVars

(* "Results are flushed to this file after EVERY recorded request, so a    *)
(* consumer can read them reliably": a test that passes heard no failure.  *)
(* It does not hold: a file that could not be opened is not reported.      *)
PassMeansClean ==
  step = "resolved" => \A r \in heard : IsClean(RecordOf(Incoming[r]))

(* executeTest "throws if any interaction was not matched".  It does not   *)
(* hold: what the test never asked for leaves no result.                   *)
UnmatchedThrows ==
  step = "resolved" =>
    \A i \in DOMAIN Interactions : \E r \in heard : i \in Hits(Incoming[r])

(* A mock only ever serves a pact with every declared interaction in it,   *)
(* stamped for its transport.                                              *)
MockServesWholePact ==
  started => authored = Len(Interactions) /\ stamped

(* http: a test that returned, with a mock that was not killed and exited  *)
(* with 0, after it had heard the answer to all it asked, is judged by the *)
(* record and by nothing else: it is rejected if some result is a failure, *)
(* and passes if none is.  So one that asked for nothing passes, against   *)
(* UnmatchedThrows: what was declared and not called is not missed.        *)
JudgedByRecord ==
  (/\ Http /\ step \in {"resolved", "rejected"} /\ outcome = "returned"
   /\ alive /\ exitCode = 0
   /\ \A r \in Requests : pc[r] = "idle" \/ r \in heard)
    => (step = "rejected"
          <=> \E k \in DOMAIN results : ~IsClean(RecordOf(Incoming[results[k]])))

(* Once the test has ended, executeTest settles, if the mock lives to exit *)
(* by itself.                                                              *)
TestSettles ==
  step = "closing" ~> (step \in {"resolved", "rejected"} \/ ~alive)

(* A mock does not outlive the test that used it, unless its url was not   *)
(* read in time.                                                           *)
NoMockLeft ==
  (step \in {"resolved", "rejected"} /\ started)
    ~> (phase = "exited" \/ ~alive \/ outcome = "no url")
=============================================================================
