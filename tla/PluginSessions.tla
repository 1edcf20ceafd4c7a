--------------------------- MODULE PluginSessions --------------------------
(***************************************************************************)
(* The mock sessions of the plugin server (server.rs): StartMockServer,    *)
(* GetMockServerResults and ShutdownMockServer, called concurrently over   *)
(* gRPC, on the session table, the directories and results files of stdio  *)
(* mocks (separate processes) and the in-memory results of http mocks      *)
(* (tasks of the plugin itself).                                           *)
(*                                                                         *)
(* A mock appears here by what its consumer can see of it, as ResultsSink  *)
(* puts it: a growing list of results, a file that is empty while it is    *)
(* rewritten, complete once that is done and anything but complete when it *)
(* failed, answers only after that.  A result is TRUE when it is clean (no *)
(* error and no mismatch) and FALSE otherwise.  Writing the file may fail, *)
(* and so may removing it and its directory; both go unnoticed.            *)
(***************************************************************************)
EXTENDS Naturals, Sequences, FiniteSets

CONSTANTS
  Keys,         \* session keys (uuids), each used by one start at most
  Calls,        \* gRPC calls
  NoCall,       \* not a call
  MaxResults    \* bound: results a mock records in a behaviour

ASSUME SessionsAssumption == NoCall \notin Calls /\ MaxResults \in Nat

VARIABLES
  table,    \* McpPlugin.sessions: the kind of the session under each key
  holder,   \* call that holds the mutex of the table
  dir,      \* the temporary directory of a stdio session
  view,     \* the results file in it
  mock,     \* the mock behind a session
  busy,     \* the handler of it that holds its results mutex
  log,      \* the results it recorded
  written,  \* how many of them its last write that succeeded has shown
  told,     \* the positions in log whose request was answered
  calls     \* the gRPC calls

tableVars == <<table, holder>>
mockVars == <<mock, busy, log, written, told>>
vars == <<tableVars, dir, view, mockVars, calls>>

Absent  == [kind |-> "absent", seq |-> <<>>]
Empty   == [kind |-> "empty", seq |-> <<>>]
Corrupt == [kind |-> "corrupt", seq |-> <<>>]
Json(s) == [kind |-> "json", seq |-> s]

(* A directory that is there for a mock to write in. *)
Standing(k) == dir[k] \in {"made", "left"}

(* Where a call is, what it asks, what it has seen and what it answered;   *)
(* due: the results that were written, and their requests answered, before *)
(* the call was made.                                                      *)
Idle == [at |-> "idle", key |-> "none", kind |-> "none", due |-> {},
         seen |-> <<>>, status |-> "none"]

Init ==
  /\ table = [k \in Keys |-> "none"]
  /\ holder = NoCall
  /\ dir = [k \in Keys |-> "none"]
  /\ view = [k \in Keys |-> Absent]
  /\ mock = [k \in Keys |-> "none"]
  /\ busy = [k \in Keys |-> "free"]
  /\ log = [k \in Keys |-> <<>>]
  /\ written = [k \in Keys |-> 0]
  /\ told = [k \in Keys |-> {}]
  /\ calls = [c \in Calls |-> Idle]

Set(f, k, v) == f' = [f EXCEPT ![k] = v]
At(c, p) == calls[c].at = p
Reply(c, status, seen) ==
  Set(calls, c, [calls[c] EXCEPT !.at = "done", !.status = status,
                                 !.seen = seen])

(* ok of a reply: every result is clean. *)
AllClean(s) == \A i \in DOMAIN s : s[i]

-----------------------------------------------------------------------------
(* What runs behind a session.  The driver spawns the command of a stdio   *)
(* session, which reads the pact from its directory; an http mock serves   *)
(* from the start.                                                         *)
Spawn(k) ==
  /\ mock[k] = "offered" /\ Standing(k)
  /\ Set(mock, k, "serving")
  /\ UNCHANGED <<tableVars, dir, view, busy, log, written, told, calls>>

(* A handler takes the results mutex and pushes; in the plugin's own       *)
(* process there is no file to flush.                                      *)
MockPush(k) ==
  /\ mock[k] = "serving" /\ busy[k] = "free" /\ Len(log[k]) < MaxResults
  /\ \E clean \in BOOLEAN : Set(log, k, Append(log[k], clean))
  /\ IF dir[k] = "none"
     THEN Set(written, k, Len(log[k]) + 1) /\ UNCHANGED busy
     ELSE Set(busy, k, "pushed") /\ UNCHANGED written
  /\ UNCHANGED <<tableVars, dir, view, mock, told, calls>>

(* write_results opens the file, which empties it, and makes it again if a *)
(* shutdown removed it; ...                                                *)
MockTruncate(k) ==
  /\ mock[k] = "serving" /\ busy[k] = "pushed" /\ Standing(k)
  /\ Set(busy, k, "truncated")
  /\ Set(view, k, Empty)
  /\ UNCHANGED <<tableVars, dir, mock, log, written, told, calls>>

(* ... or cannot open it, and always so once the directory is gone.        *)
MockOpenFails(k) ==
  /\ mock[k] = "serving" /\ busy[k] = "pushed"
  /\ Set(busy, k, "free")
  /\ UNCHANGED <<tableVars, dir, view, mock, log, written, told, calls>>

(* Mutant: a flush writes one result less than there is. *)
MockFlushShort(k) ==
  /\ mock[k] = "serving" /\ busy[k] = "truncated" /\ view[k] # Absent
  /\ Set(busy, k, "free")
  /\ Set(view, k, Json(SubSeq(log[k], 1, Len(log[k]) - 1)))
  /\ Set(written, k, Len(log[k]))
  /\ UNCHANGED <<tableVars, dir, mock, log, told, calls>>

(* Then it writes the list, ... *)
MockFlush(k) ==
  /\ mock[k] = "serving" /\ busy[k] = "truncated" /\ view[k] # Absent
  /\ Set(busy, k, "free")
  /\ Set(view, k, Json(log[k]))
  /\ Set(written, k, Len(log[k]))
  /\ UNCHANGED <<tableVars, dir, mock, log, told, calls>>

(* ... or nothing or a part of it; a file removed since it was opened      *)
(* takes what is written with it.                                          *)
MockFlushFails(k) ==
  /\ mock[k] = "serving" /\ busy[k] = "truncated"
  /\ Set(busy, k, "free")
  /\ \E v \in {Empty, Corrupt} : Set(view, k, IF view[k] = Absent THEN Absent ELSE v)
  /\ UNCHANGED <<tableVars, dir, mock, log, written, told, calls>>

(* The request is answered however its result was written.                 *)
MockAnswer(k) ==
  /\ mock[k] = "serving"
  /\ \E i \in DOMAIN log[k] \ told[k] :
       /\ busy[k] = "free" \/ i < Len(log[k])
       /\ Set(told, k, told[k] \cup {i})
  /\ UNCHANGED <<tableVars, dir, view, mock, busy, log, written, calls>>

(* The process or the task ends, by itself or killed, at any moment. *)
MockEnd(k) ==
  /\ mock[k] \in {"offered", "serving"}
  /\ Set(mock, k, "ended")
  /\ UNCHANGED <<tableVars, dir, view, busy, log, written, told, calls>>

-----------------------------------------------------------------------------
(* start_mock_server under a fresh key.  It never waits between the        *)
(* creation of the mock and its entry in the table, and no one can name    *)
(* the key before the reply.                                               *)
Fresh(k) == mock[k] = "none" /\ dir[k] = "none"

Start(c, k, kind) ==
  /\ At(c, "idle") /\ Fresh(k) /\ holder = NoCall
  /\ Set(table, k, kind)
  /\ Set(dir, k, IF kind = "stdio" THEN "made" ELSE "none")
  /\ Set(mock, k, IF kind = "stdio" THEN "offered" ELSE "serving")
  /\ Set(calls, c, [Idle EXCEPT !.at = "done", !.key = k, !.status = "started"])
  /\ UNCHANGED <<holder, view, busy, log, written, told>>

(* A pact without mcp interactions (http only), or a directory or file     *)
(* that cannot be written: an error reply and no session; a directory      *)
(* whose pact file could not be written stays.                             *)
StartFails(c, k) ==
  /\ At(c, "idle") /\ Fresh(k)
  /\ \E left \in {"none", "orphan"} : Set(dir, k, left)
  /\ Set(mock, k, "ended")
  /\ Set(calls, c, [Idle EXCEPT !.at = "done", !.key = k, !.status = "error"])
  /\ UNCHANGED <<tableVars, view, busy, log, written, told>>

(* A call on a key that some start returned. *)
Ask(c, k, at) ==
  /\ At(c, "idle")
  /\ \E d \in Calls : calls[d].key = k /\ calls[d].status = "started"
  /\ Set(calls, c, [Idle EXCEPT !.at = at, !.key = k,
                                !.due = told[k] \cap (1 .. written[k])])
  /\ UNCHANGED <<tableVars, dir, view, mockVars>>

(* What a session's results are read from: the file, where one that is     *)
(* missing or does not parse counts as no result, or the list.             *)
Results(k, kind) == IF kind = "stdio" THEN view[k].seq ELSE log[k]

(* Mutant: the session is looked up, and read after the table is           *)
(* released.                                                               *)
GetUnlocked(c) ==
  /\ holder = NoCall /\ At(c, "get")
  /\ LET k == calls[c].key
     IN IF table[k] = "none"
        THEN Reply(c, "not_found", <<>>)
        ELSE Set(calls, c, [calls[c] EXCEPT !.at = "read", !.kind = table[k]])
  /\ UNCHANGED <<holder, table, dir, view, mockVars>>

(* get_mock_server_results keeps the table locked while it reads.          *)
GetLock(c) ==
  /\ holder = NoCall /\ At(c, "get")
  /\ LET k == calls[c].key
     IN IF table[k] = "none"
        THEN Reply(c, "not_found", <<>>) /\ holder' = NoCall
        ELSE /\ Set(calls, c, [calls[c] EXCEPT !.at = "read",
                                               !.kind = table[k]])
             /\ holder' = c
  /\ UNCHANGED <<table, dir, view, mockVars>>

(* Mutant: the reply leaves the table locked. *)
GetReadKeepsLock(c) ==
  /\ At(c, "read")
  /\ Reply(c, "results", Results(calls[c].key, calls[c].kind))
  /\ UNCHANGED <<holder, table, dir, view, mockVars>>

GetRead(c) ==
  /\ At(c, "read")
  /\ Reply(c, "results", Results(calls[c].key, calls[c].kind))
  /\ holder' = NoCall
  /\ UNCHANGED <<table, dir, view, mockVars>>

(* Mutant: shutdown looks the session up and leaves it in the table. *)
ShutdownLooksUp(c) ==
  /\ holder = NoCall /\ At(c, "shut")
  /\ Set(calls, c, [calls[c] EXCEPT !.at = "report",
                                    !.kind = table[calls[c].key]])
  /\ UNCHANGED <<table, holder, dir, view, mockVars>>

(* shutdown_mock_server takes the session out of the table, and lets go of *)
(* the table, before it reads the results; ...                             *)
ShutdownRemove(c) ==
  /\ holder = NoCall /\ At(c, "shut")
  /\ Set(table, calls[c].key, "none")
  /\ Set(calls, c, [calls[c] EXCEPT !.at = "report",
                                    !.kind = table[calls[c].key]])
  /\ UNCHANGED <<holder, dir, view, mockVars>>

(* ... an unknown key has no results, which are all clean; ...             *)
ShutdownRead(c) ==
  /\ At(c, "report")
  /\ LET k == calls[c].key
         kind == calls[c].kind
     IN Set(calls, c, [calls[c] EXCEPT
                         !.at = "clean",
                         !.seen = IF kind = "none" THEN <<>>
                                  ELSE Results(k, kind)])
  /\ UNCHANGED <<tableVars, dir, view, mockVars>>

(* Mutant: the directory is left behind. *)
ShutdownLeaves(c) ==
  /\ At(c, "clean")
  /\ Reply(c, "results", calls[c].seen)
  /\ UNCHANGED <<tableVars, dir, view, mockVars>>

(* ... and last cancels an http mock, which ends when it has drained, or   *)
(* removes what is in the directory of a stdio one, which may still run,   *)
ShutdownClean(c) ==
  /\ At(c, "clean")
  /\ IF calls[c].kind = "stdio"
     THEN /\ Set(view, calls[c].key, Absent)
          /\ Set(calls, c, [calls[c] EXCEPT !.at = "remove"])
     ELSE Reply(c, "results", calls[c].seen) /\ UNCHANGED view
  /\ UNCHANGED <<tableVars, dir, mockVars>>

(* and then the directory, if the mock has not made its file again.        *)
ShutdownRemoveDir(c) ==
  /\ At(c, "remove") /\ view[calls[c].key] = Absent
  /\ Set(dir, calls[c].key, "removed")
  /\ Reply(c, "results", calls[c].seen)
  /\ UNCHANGED <<tableVars, view, mockVars>>

(* Either removal may fail; the reply does not tell, and no one tries      *)
(* again.                                                                  *)
ShutdownGivesUp(c) ==
  /\ At(c, "clean") \/ At(c, "remove")
  /\ calls[c].kind = "stdio"
  /\ Set(dir, calls[c].key, "left")
  /\ Reply(c, "results", calls[c].seen)
  /\ UNCHANGED <<tableVars, view, mockVars>>

-----------------------------------------------------------------------------
Mock(k) == Spawn(k) \/ MockPush(k) \/ MockTruncate(k) \/ MockOpenFails(k)
             \/ MockFlush(k) \/ MockFlushFails(k) \/ MockAnswer(k) \/ MockEnd(k)
Begin(c) ==
  \E k \in Keys : \/ \E kind \in {"stdio", "http"} : Start(c, k, kind)
                  \/ StartFails(c, k)
                  \/ \E at \in {"get", "shut"} : Ask(c, k, at)
Serve(c) == GetLock(c) \/ GetRead(c) \/ ShutdownRemove(c) \/ ShutdownRead(c)
              \/ ShutdownClean(c) \/ ShutdownRemoveDir(c) \/ ShutdownGivesUp(c)

Next == (\E k \in Keys : Mock(k)) \/ (\E c \in Calls : Begin(c) \/ Serve(c))

Spec == Init /\ [][Next]_vars

(* The server's runtime runs every call it took; the mutex of the table is *)
(* held for a bounded number of steps by each of finitely many calls.      *)
FairSpec == Spec /\ \A c \in Calls : WF_vars(Serve(c))

-----------------------------------------------------------------------------
Kinds == {"none", "stdio", "http"}
Views == [kind : {"absent", "empty", "corrupt", "json"}, seq : Seq(BOOLEAN)]
Call ==
  [at : {"idle", "get", "read", "shut", "report", "clean", "remove", "done"},
   key : Keys \cup {"none"}, kind : Kinds, due : SUBSET Nat, seen : Seq(BOOLEAN),
   status : {"none", "started", "error", "not_found", "results"}]

(* Every variable stays in its range. *)
TypeOK ==
  /\ table \in [Keys -> Kinds]
  /\ holder \in Calls \cup {NoCall}
  /\ dir \in [Keys -> {"none", "made", "orphan", "left", "removed"}]
  /\ view \in [Keys -> Views]
  /\ mock \in [Keys -> {"none", "offered", "serving", "ended"}]
  /\ busy \in [Keys -> {"free", "pushed", "truncated"}]
  /\ log \in [Keys -> Seq(BOOLEAN)]
  /\ written \in [Keys -> Nat]
  /\ told \in [Keys -> SUBSET Nat]
  /\ calls \in [Calls -> Call]

(* A session is handed to one shutdown at most, however many race or are   *)
(* retried: the others find no session and have nothing to report or to    *)
(* remove.                                                                 *)
Closing(c, k) == /\ calls[c].at \in {"report", "clean", "remove"}
                 /\ calls[c].key = k /\ calls[c].kind # "none"
OneShutdownTakesSession ==
  \A c, d \in Calls, k \in Keys : Closing(c, k) /\ Closing(d, k) => c = d

(* The session a get is reading keeps its directory until the get is done: *)
(* a shutdown cannot take it out of the table, and so not remove the       *)
(* directory, meanwhile.                                                   *)
GetReadsStandingSession ==
  \A c \in Calls : calls[c].at = "read" =>
    /\ table[calls[c].key] = calls[c].kind
    /\ calls[c].kind = "stdio" => dir[calls[c].key] = "made"

(* Only a start that fails half-way ("orphan") and a removal that fails or *)
(* meets a mock still at work ("left") leave a directory behind: any other *)
(* that is there is there for a session in the table, or for the shutdown  *)
(* that took it out and will still remove it.                              *)
DirsAreOwned ==
  \A k \in Keys : dir[k] = "made" =>
    table[k] = "stdio" \/ \E c \in Calls : Closing(c, k)

(* A reply that says ok for a session it found leaves out no failure that  *)
(* was written, and whose request was answered, before the call was made.  *)
Found(c) == calls[c].status = "results" /\ calls[c].kind # "none"
HidesFailure(c) ==
  /\ Found(c) /\ AllClean(calls[c].seen)
  /\ \E i \in calls[c].due : ~log[calls[c].key][i]
OkMeansClean == \A c \in Calls : ~HidesFailure(c)

(* The one way to lose a failure is to meet the file of a stdio mock in    *)
(* the middle of a flush or after one that failed, and then all results    *)
(* are lost: an ok that lists a result, or is about an http mock, whose    *)
(* results are read under their mutex, is earned.                          *)
OkUnlessTorn ==
  \A c \in Calls : HidesFailure(c) => calls[c].kind = "stdio" /\ calls[c].seen = <<>>

(* Every call is answered. *)
EveryCallReturns ==
  \A c \in Calls : calls[c].at \in {"get", "shut"} ~> calls[c].at = "done"
=============================================================================
