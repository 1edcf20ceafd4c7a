---------------------------- MODULE MockProcess ----------------------------
(***************************************************************************)
(* The mock engine as a process (mock.rs and main.rs, run_mock): handler   *)
(* tasks that record what they were asked in a shared list and flush it to *)
(* the --results file, and the main task that waits for the client to      *)
(* leave, flushes once more and exits.                                     *)
(*                                                                         *)
(* Handlers run on the threads of a tokio pool.  Each appends to the list  *)
(* and rewrites the file while it holds the results mutex; std::fs::write  *)
(* first truncates the file and then writes it, so a file is Empty in      *)
(* between.  The final flush of the main task copies the list under the    *)
(* mutex and rewrites the file without it.  Opening the file or writing to *)
(* it may fail: a handler drops the error and answers all the same, the    *)
(* main task makes it the exit code of the process.                        *)
(*                                                                         *)
(* A result on the list is represented by the request it is about:         *)
(* RecordOf(Incoming[r]) is its MockResult.                                *)
(***************************************************************************)
EXTENDS MockSelection, SequencesExt

CONSTANTS
  Requests,   \* the requests clients send
  Incoming,   \* what each of them asks: [operation, ...]
  NoOne,      \* not a request
  Live,       \* TRUE: a results path was given (--results)
  Hurried     \* TRUE: the client may leave while a request is unanswered

ASSUME LiveAssumption == Live \in BOOLEAN /\ Hurried \in BOOLEAN
ASSUME NoOneAssumption == NoOne \notin Requests

VARIABLES
  pc,         \* where each request is
  lock,       \* holder of the results mutex
  results,    \* MockServer.results
  file,       \* the results file
  phase,      \* where run_mock is
  snapshot,   \* run_mock's copy of the results
  alive,      \* FALSE once the process was killed
  exitCode,   \* what the process returns
  shown       \* history: how many results a write that succeeded has had

vars == <<pc, lock, results, file, phase, snapshot, alive, exitCode, shown>>
handlerVars == <<pc, lock, results>>
fileVars == <<file, shown>>
mainVars == <<phase, snapshot, alive, exitCode>>

Json(s)  == [kind |-> "json", seq |-> s]
Absent   == [kind |-> "absent", seq |-> <<>>]
Empty    == [kind |-> "empty", seq |-> <<>>]
Corrupt  == [kind |-> "corrupt", seq |-> <<>>]

Phases == {"serving", "leaving", "flushing", "writing", "exiting", "exited"}
Stages == {"idle", "sent", "pushed", "truncated", "recorded", "answered"}

(* Mutant: the file is opened to append. *)
WriteAppended(old, s) == {Json(old.seq \o s)}

(* Writing document s at offset 0 of what the file holds: the tail of a    *)
(* longer document stays behind it, and the whole no longer parses.  What  *)
(* does not parse may be longer than s or not.                             *)
WriteOver(old, s) ==
  CASE old.kind = "corrupt" -> {Corrupt, Json(s)}
    [] old.kind = "json" /\ Len(s) < Len(old.seq) -> {Corrupt}
    [] OTHER -> {Json(s)}

(* A write that fails has written nothing, or a part of its document.      *)
WriteFailed(old) == {old, Corrupt}

Init ==
  /\ pc = [r \in Requests |-> "idle"]
  /\ lock = NoOne
  /\ results = <<>>
  /\ file = Absent
  /\ phase = "serving"
  /\ snapshot = <<>>
  /\ alive = TRUE
  /\ exitCode = 0
  /\ shown = 0

Move(r, from, to) == pc[r] = from /\ pc' = [pc EXCEPT ![r] = to]

(* Until the runtime is gone a handler task that was spawned may run. *)
Running == alive /\ phase # "exited"

-----------------------------------------------------------------------------
(* A client sends a request while the mock still listens. *)
Send(r) ==
  /\ alive /\ phase = "serving"
  /\ Move(r, "idle", "sent")
  /\ UNCHANGED <<lock, results, fileVars, mainVars>>

(* Mutant: the mutex is released after the push, before the flush. *)
PushUnlocked(r) ==
  /\ Running /\ lock = NoOne
  /\ Move(r, "sent", IF Live THEN "pushed" ELSE "recorded")
  /\ results' = Append(results, r)
  /\ UNCHANGED <<lock, fileVars, mainVars>>

(* Mutant: an error is returned without a record. *)
PushOnlyHits(r) ==
  /\ Running /\ lock = NoOne
  /\ Move(r, "sent", IF Live THEN "pushed" ELSE "recorded")
  /\ results' = IF IsClean(RecordOf(Incoming[r])) THEN Append(results, r) ELSE results
  /\ lock' = IF Live THEN r ELSE NoOne
  /\ UNCHANGED <<fileVars, mainVars>>

(* record: take the mutex and push; without a results path it is released  *)
(* at once, with one the file is flushed under it.                         *)
Push(r) ==
  /\ Running /\ lock = NoOne
  /\ Move(r, "sent", IF Live THEN "pushed" ELSE "recorded")
  /\ results' = Append(results, r)
  /\ lock' = IF Live THEN r ELSE NoOne
  /\ UNCHANGED <<fileVars, mainVars>>

(* write_results, first half: std::fs::write creates or truncates. *)
Truncate(r) ==
  /\ Running
  /\ Move(r, "pushed", "truncated")
  /\ file' = Empty
  /\ UNCHANGED <<lock, results, shown, mainVars>>

(* The file cannot be opened: the error is dropped, and so is the mutex.   *)
TruncateFails(r) ==
  /\ Running
  /\ Move(r, "pushed", "recorded")
  /\ lock' = NoOne
  /\ UNCHANGED <<results, fileVars, mainVars>>

(* Mutant: the mutex is never released. *)
FlushKeepsLock(r) ==
  /\ Running
  /\ Move(r, "truncated", "recorded")
  /\ file' \in WriteOver(file, results)
  /\ shown' = Len(results)
  /\ UNCHANGED <<lock, results, mainVars>>

(* write_results, second half; then record returns and drops the mutex. *)
Flush(r) ==
  /\ Running
  /\ Move(r, "truncated", "recorded")
  /\ file' \in WriteOver(file, results)
  /\ shown' = Len(results)
  /\ lock' = NoOne
  /\ UNCHANGED <<results, mainVars>>

(* The write fails after the file was truncated: the same.                 *)
FlushFails(r) ==
  /\ Running
  /\ Move(r, "truncated", "recorded")
  /\ file' \in WriteFailed(file)
  /\ lock' = NoOne
  /\ UNCHANGED <<results, shown, mainVars>>

(* The handler returns; the reply goes out while the process lives. *)
Answer(r) ==
  /\ Running
  /\ Move(r, "recorded", "answered")
  /\ UNCHANGED <<lock, results, fileVars, mainVars>>

-----------------------------------------------------------------------------
Quiet == \A r \in Requests : pc[r] \in {"idle", "answered"}

MainMove(from, to) == alive /\ phase = from /\ phase' = to

(* The client leaves: end of file on stdin (or of the stdio transport),    *)
(* and for http the shutdown token is cancelled.  Nothing waits for the    *)
(* handlers that still run.                                                *)
ClientLeaves ==
  /\ Hurried \/ Quiet
  /\ MainMove("serving", "leaving")
  /\ UNCHANGED <<handlerVars, fileVars, snapshot, alive, exitCode>>

(* Mutant: the final flush writes a copy that was taken at the start. *)
SnapshotEarly ==
  /\ lock = NoOne
  /\ MainMove("leaving", IF Live THEN "flushing" ELSE "exiting")
  /\ UNCHANGED <<snapshot, handlerVars, fileVars, alive, exitCode>>

(* Mutant: the list is taken, not copied. *)
SnapshotTakes ==
  /\ lock = NoOne
  /\ MainMove("leaving", IF Live THEN "flushing" ELSE "exiting")
  /\ snapshot' = IF Live THEN results ELSE snapshot
  /\ results' = IF Live THEN <<>> ELSE results
  /\ UNCHANGED <<pc, lock, fileVars, alive, exitCode>>

(* The final flush: copy under the mutex, ... *)
Snapshot ==
  /\ lock = NoOne
  /\ MainMove("leaving", IF Live THEN "flushing" ELSE "exiting")
  /\ snapshot' = IF Live THEN results ELSE snapshot
  /\ UNCHANGED <<handlerVars, fileVars, alive, exitCode>>

(* ... then truncate ... *)
FinalTruncate ==
  /\ MainMove("flushing", "writing")
  /\ file' = Empty
  /\ UNCHANGED <<handlerVars, shown, snapshot, alive, exitCode>>

(* ... and write without it. *)
FinalWrite ==
  /\ MainMove("writing", "exiting")
  /\ file' \in WriteOver(file, snapshot)
  /\ shown' = IF Len(snapshot) > shown THEN Len(snapshot) ELSE shown
  /\ UNCHANGED <<handlerVars, snapshot, alive, exitCode>>

(* Either of the two fails: run_mock returns the error, main exits with 1. *)
FinalFlushFails ==
  /\ \/ MainMove("flushing", "exiting") /\ UNCHANGED file
     \/ MainMove("writing", "exiting") /\ file' \in WriteFailed(file)
  /\ exitCode' = 1
  /\ UNCHANGED <<handlerVars, shown, snapshot, alive>>

(* main returned: dropping the runtime lets a handler that is on a thread  *)
(* finish what it does without awaiting, and starts no other.              *)
Exit ==
  /\ \A r \in Requests : pc[r] \notin {"pushed", "truncated"}
  /\ MainMove("exiting", "exited")
  /\ UNCHANGED <<handlerVars, fileVars, snapshot, alive, exitCode>>

(* The process is killed, between any two steps. *)
Kill ==
  /\ alive /\ phase # "exited"
  /\ alive' = FALSE
  /\ UNCHANGED <<handlerVars, fileVars, phase, snapshot, exitCode>>

-----------------------------------------------------------------------------
WriteResults(r) ==
  Truncate(r) \/ TruncateFails(r) \/ Flush(r) \/ FlushFails(r)
Handler(r) == Push(r) \/ WriteResults(r) \/ Answer(r)
FinalFlush == Snapshot \/ FinalTruncate \/ FinalWrite \/ FinalFlushFails
Main == ClientLeaves \/ FinalFlush \/ Exit

Next ==
  \/ \E r \in Requests : Send(r) \/ Handler(r)
  \/ Main
  \/ Kill

Spec == Init /\ [][Next]_vars

(* The runtime schedules every task that can run and the OS every thread;  *)
(* nothing forces a client to send, or to leave, and nothing a kill.       *)
Fairness ==
  /\ \A r \in Requests : WF_vars(Handler(r))
  /\ WF_vars(FinalFlush \/ Exit)

FairSpec == Spec /\ Fairness

-----------------------------------------------------------------------------
Files == [kind : {"absent", "empty", "corrupt", "json"}, seq : Seq(Requests)]

(* Every variable stays in its range; no more is shown than is on record.  *)
TypeOK ==
  /\ pc \in [Requests -> Stages]
  /\ lock \in Requests \cup {NoOne}
  /\ results \in Seq(Requests)
  /\ file \in Files
  /\ phase \in Phases
  /\ snapshot \in Seq(Requests)
  /\ alive \in BOOLEAN
  /\ exitCode \in {0, 1}
  /\ shown \in 0..Len(results)

(* The results mutex is held exactly by the handler that is between its    *)
(* push and the end of its flush, so at most one handler writes the file.  *)
MutexHeld ==
  \A r \in Requests : pc[r] \in {"pushed", "truncated"} <=> lock = r

(* A request is put on record exactly once, before its client can see the  *)
(* answer: record() runs before every return of a handler and on no other  *)
(* path.                                                                   *)
Handled == {r \in Requests : pc[r] \notin {"idle", "sent"}}
RecordedOnce ==
  /\ \A i, j \in DOMAIN results : results[i] = results[j] => i = j
  /\ Range(results) = Handled

(* "Results are flushed to this file after every recorded request": until  *)
(* the final flush starts, whenever no handler holds the mutex and the     *)
(* last write succeeded, the file holds exactly what was recorded, killed  *)
(* process or not.                                                         *)
FlushedWhenFree ==
  (/\ Live /\ lock = NoOne /\ phase \in {"serving", "leaving", "flushing"}
   /\ shown = Len(results))
    => file = IF results = <<>> THEN Absent ELSE Json(results)

(* What the file shows, when it parses, is what was recorded up to some    *)
(* moment: never a result out of order, twice, or that no one recorded --  *)
(* not even when the final flush races a handler.                          *)
FileIsAPast == file.kind = "json" => IsPrefix(file.seq, results)

(* A process that exits with 0 leaves every recorded result in the file,   *)
(* those included that a handler could not write.                          *)
ExitedComplete ==
  (Live /\ phase = "exited" /\ exitCode = 0) => file = Json(results)

(* A call that matches nothing is reported with the mismatches of an       *)
(* interaction for the tool it named, if the pact has one ("name-level     *)
(* misses excepted").                                                      *)
ReportsNamedTool ==
  \A r \in Handled :
    LET result == RecordOf(Incoming[r])
    IN result.error /\ Incoming[r].operation = "tools/call"
         => \/ result.mismatches \ {NamePath} # {}
            \/ \A i \in Candidates(Incoming[r]) :
                 MissesOf(i, Incoming[r]) = {NamePath}

(* Every request the process took is answered, unless the client leaves or *)
(* the process is killed first.                                            *)
EveryRequestAnswered ==
  \A r \in Requests :
    pc[r] = "sent" ~> (pc[r] = "answered" \/ phase # "serving" \/ ~alive)

(* Once its client has left, the process comes to its end. *)
ExitsAfterClient == phase = "leaving" ~> (phase = "exited" \/ ~alive)
-----------------------------------------------------------------------------
(* What a consumer of the results is promised, and where this process      *)
(* keeps it: a flush has ended, well or not, for everything on the list    *)
(* but the result whose handler holds the mutex.                           *)
Sink == INSTANCE ResultsSink
          WITH log   <- results,
               view  <- file,
               ended <- IF lock = NoOne THEN Len(results) ELSE Len(results) - 1,
               told  <- {r \in Requests : pc[r] = "answered"}

(* The process implements the promise, when every client waits for its     *)
(* answers before it leaves.                                               *)
SinkSpec == Sink!Spec
=============================================================================
