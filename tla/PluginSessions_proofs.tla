------------------------ MODULE PluginSessions_proofs ------------------------
(***************************************************************************)
(* What the session table of the plugin promises its callers, for any      *)
(* number of sessions and calls.                                           *)
(***************************************************************************)
EXTENDS PluginSessions, TLAPS

(* A key that a call works on has been used, and a call has a status once  *)
(* it is done.                                                             *)
KeysUsed ==
  /\ \A c \in Calls :
       /\ calls[c].at # "idle" => calls[c].key \in Keys /\ mock[calls[c].key] # "none"
       /\ calls[c].status # "none" => At(c, "done")
  /\ \A k \in Keys : table[k] # "none" => mock[k] # "none"

(* A session in the table has its directory, if it is a stdio one. *)
TableHasDir == \A k \in Keys : table[k] = "stdio" => dir[k] = "made"

(* A shutdown that has a session took it out of the table, and one that    *)
(* removes a directory has a stdio session.                                *)
Removing == \A c \in Calls : At(c, "remove") => calls[c].kind = "stdio"
TakenOut == \A c \in Calls, k \in Keys : Closing(c, k) => table[k] = "none"

(* A get that reads holds the table, and the session it reads is in it. *)
ReaderHolds ==
  \A c \in Calls : At(c, "read") =>
    /\ holder = c
    /\ calls[c].kind # "none" /\ table[calls[c].key] = calls[c].kind

(* The directory of a session is there for its table entry or for the      *)
(* shutdown that took it.                                                  *)
Owned ==
  \A k \in Keys : dir[k] = "made" =>
    \/ table[k] = "stdio"
    \/ \E c \in Calls : Closing(c, k) /\ calls[c].kind = "stdio"

TableInv == KeysUsed /\ TableHasDir /\ Removing /\ TakenOut /\ ReaderHolds /\ Owned
              /\ OneShutdownTakesSession

-----------------------------------------------------------------------------
(* Sequence s shows the results of mock k at the positions in P. *)
Shows(s, k, P) == \A i \in P : i \in DOMAIN s /\ s[i] = log[k][i]

(* What was written is on record. *)
WrittenBefore == \A k \in Keys : 1 .. written[k] \subseteq DOMAIN log[k]

(* A results file with anything in it shows all that was ever written.     *)
FileShows ==
  \A k \in Keys :
    /\ busy[k] = "truncated" => view[k].seq = <<>>
    /\ view[k].seq # <<>> => Shows(view[k].seq, k, 1 .. written[k])

(* Nothing is read from a directory that is not there. *)
NoDirNoView == \A k \in Keys : ~Standing(k) => view[k] = Absent

(* What a call is due was written; what it has seen shows what it is due.  *)
DueWritten ==
  \A c \in Calls :
    calls[c].key \in Keys => calls[c].due \subseteq 1 .. written[calls[c].key]
SeenShowsDue ==
  \A c \in Calls :
    (/\ calls[c].at \in {"clean", "remove"} \/ calls[c].status = "results"
     /\ calls[c].kind # "none" /\ (calls[c].kind = "http" \/ calls[c].seen # <<>>))
      => Shows(calls[c].seen, calls[c].key, calls[c].due)

ShowInv == WrittenBefore /\ FileShows /\ NoDirNoView /\ DueWritten /\ SeenShowsDue
IInv == TypeOK /\ TableInv /\ ShowInv

-----------------------------------------------------------------------------
(* What a call becomes, field by field, and the other calls.               *)
Stages == {"idle", "get", "read", "shut", "report", "clean", "remove", "done"}
Statuses == {"none", "started", "error", "not_found", "results"}

IsCall(x, at, key, kind, due, seen, status) ==
  x.at = at /\ x.key = key /\ x.kind = kind /\ x.due = due /\ x.seen = seen
    /\ x.status = status
Becomes(c, at, key, kind, due, seen, status) ==
  /\ calls' \in [Calls -> Call]
  /\ IsCall(calls'[c], at, key, kind, due, seen, status)
  /\ \A d \in Calls \ {c} : calls'[d] = calls[d]

(* The fields of a call have their ranges.                                 *)
LEMMA CallFields ==
  ASSUME NEW x \in Call
  PROVE  /\ x.at \in Stages /\ x.key \in Keys \cup {"none"} /\ x.kind \in Kinds
         /\ x.due \in SUBSET Nat /\ x.seen \in Seq(BOOLEAN) /\ x.status \in Statuses
BY DEF Call, Stages, Statuses

(* An update of one call, for a call so made.                              *)
LEMMA Putting ==
  ASSUME calls \in [Calls -> Call], NEW c \in Calls, NEW x \in Call,
         calls' = [calls EXCEPT ![c] = x]
  PROVE  Becomes(c, x.at, x.key, x.kind, x.due, x.seen, x.status)
BY DEF Becomes, IsCall

(* A call that has asked nothing.                                          *)
LEMMA IdleCall == Idle \in Call /\ IsCall(Idle, "idle", "none", "none", {}, <<>>, "none")
BY DEF Call, Idle, Kinds, IsCall

(* A call that has asked, ...                                              *)
LEMMA Asked ==
  ASSUME NEW x \in Call, NEW at \in Stages, NEW key \in Keys, NEW due \in SUBSET Nat
  PROVE  LET y == [x EXCEPT !.at = at, !.key = key, !.due = due]
         IN y \in Call /\ IsCall(y, at, key, x.kind, due, x.seen, x.status)
BY DEF Call, Stages, IsCall

(* ... a start that is done, ...                                           *)
LEMMA Begun ==
  ASSUME NEW x \in Call, NEW at \in Stages, NEW key \in Keys, NEW status \in Statuses
  PROVE  LET y == [x EXCEPT !.at = at, !.key = key, !.status = status]
         IN y \in Call /\ IsCall(y, at, key, x.kind, x.due, x.seen, status)
BY DEF Call, Stages, Statuses, IsCall

(* ... a look-up, ...                                                      *)
LEMMA LookedUp ==
  ASSUME NEW x \in Call, NEW at \in Stages, NEW kind \in Kinds
  PROVE  LET y == [x EXCEPT !.at = at, !.kind = kind]
         IN y \in Call /\ IsCall(y, at, x.key, kind, x.due, x.seen, x.status)
BY DEF Call, Stages, Kinds, IsCall

(* ... a reading, ...                                                      *)
LEMMA HasSeen ==
  ASSUME NEW x \in Call, NEW at \in Stages, NEW seen \in Seq(BOOLEAN)
  PROVE  LET y == [x EXCEPT !.at = at, !.seen = seen]
         IN y \in Call /\ IsCall(y, at, x.key, x.kind, x.due, seen, x.status)
BY DEF Call, Stages, IsCall

(* ... another stage ...                                                   *)
LEMMA Moved ==
  ASSUME NEW x \in Call, NEW at \in Stages
  PROVE  LET y == [x EXCEPT !.at = at]
         IN y \in Call /\ IsCall(y, at, x.key, x.kind, x.due, x.seen, x.status)
BY DEF Call, Stages, IsCall

(* ... and a reply.                                                        *)
LEMMA Replied ==
  ASSUME NEW x \in Call, NEW status \in Statuses, NEW seen \in Seq(BOOLEAN)
  PROVE  LET y == [x EXCEPT !.at = "done", !.status = status, !.seen = seen]
         IN y \in Call /\ IsCall(y, "done", x.key, x.kind, x.due, seen, status)
BY DEF Call, Statuses, IsCall

(* What a call may read is a list of results. *)
LEMMA ResultsType ==
  ASSUME TypeOK, NEW k \in Keys, NEW kind
  PROVE  Results(k, kind) \in Seq(BOOLEAN)
BY DEF TypeOK, Results, Views

(* What each action does to the calls.  A start is done at once; ... *)
LEMMA StartCall ==
  ASSUME TypeOK, NEW c \in Calls, NEW k \in Keys, NEW kind, Start(c, k, kind)
  PROVE  calls[c].at = "idle" /\ Becomes(c, "done", k, "none", {}, <<>>, "started")
<1> DEFINE y == [Idle EXCEPT !.at = "done", !.key = k, !.status = "started"]
<1>1. y \in Call /\ IsCall(y, "done", k, "none", {}, <<>>, "started")
  <2>1. "started" \in Statuses /\ "done" \in Stages
    BY DEF Statuses, Stages
  <2>2. Idle \in Call
    BY IdleCall
  <2>3. y \in Call /\ IsCall(y, "done", k, Idle.kind, Idle.due, Idle.seen, "started")
    BY <2>1, <2>2, Begun
  <2>4. Idle.kind = "none" /\ Idle.due = {} /\ Idle.seen = <<>>
    BY IdleCall DEF IsCall
  <2> QED
    BY <2>3, <2>4
<1>2. calls[c].at = "idle" /\ calls' = [calls EXCEPT ![c] = y]
  BY DEF Start, Set, At
<1>3. calls \in [Calls -> Call]
  BY DEF TypeOK
<1> HIDE DEF y
<1> QED
  BY <1>1, <1>2, <1>3, Putting DEF IsCall

(* A start that fails is done at once too.                                 *)
LEMMA StartFailsCall ==
  ASSUME TypeOK, NEW c \in Calls, NEW k \in Keys, StartFails(c, k)
  PROVE  calls[c].at = "idle" /\ Becomes(c, "done", k, "none", {}, <<>>, "error")
<1> DEFINE y == [Idle EXCEPT !.at = "done", !.key = k, !.status = "error"]
<1>1. y \in Call /\ IsCall(y, "done", k, "none", {}, <<>>, "error")
  <2>1. "error" \in Statuses /\ "done" \in Stages
    BY DEF Statuses, Stages
  <2>2. Idle \in Call
    BY IdleCall
  <2>3. y \in Call /\ IsCall(y, "done", k, Idle.kind, Idle.due, Idle.seen, "error")
    BY <2>1, <2>2, Begun
  <2>4. Idle.kind = "none" /\ Idle.due = {} /\ Idle.seen = <<>>
    BY IdleCall DEF IsCall
  <2> QED
    BY <2>3, <2>4
<1>2. calls[c].at = "idle" /\ calls' = [calls EXCEPT ![c] = y]
  BY DEF StartFails, Set, At
<1>3. calls \in [Calls -> Call]
  BY DEF TypeOK
<1> HIDE DEF y
<1> QED
  BY <1>1, <1>2, <1>3, Putting DEF IsCall

(* A question is due what was told and written.                            *)
Due(k) == told[k] \cap (1 .. written[k])

LEMMA AskCall ==
  ASSUME TypeOK, NEW c \in Calls, NEW k \in Keys, NEW at \in {"get", "shut"},
         Ask(c, k, at)
  PROVE  calls[c].at = "idle" /\ Becomes(c, at, k, "none", Due(k), <<>>, "none")
<1> DEFINE y == [Idle EXCEPT !.at = at, !.key = k, !.due = Due(k)]
<1>1. Due(k) \in SUBSET Nat
  BY DEF TypeOK, Due
<1>2. y \in Call /\ IsCall(y, at, k, "none", Due(k), <<>>, "none")
  <2>1. at \in Stages
    BY DEF Stages
  <2>2. Idle \in Call
    BY IdleCall
  <2>3. y \in Call /\ IsCall(y, at, k, Idle.kind, Due(k), Idle.seen, Idle.status)
    BY <1>1, <2>1, <2>2, Asked
  <2>4. Idle.kind = "none" /\ Idle.status = "none" /\ Idle.seen = <<>>
    BY IdleCall DEF IsCall
  <2> QED
    BY <2>3, <2>4
<1>3. calls[c].at = "idle" /\ calls' = [calls EXCEPT ![c] = y]
  BY DEF Ask, Set, At, Due
<1>4. calls \in [Calls -> Call]
  BY DEF TypeOK
<1> HIDE DEF y
<1> QED
  BY <1>2, <1>3, <1>4, Putting DEF IsCall

(* A look-up remembers the kind of the session. *)
LEMMA LookUpCall ==
  ASSUME TypeOK, NEW c \in Calls, NEW at \in Stages, calls[c].key \in Keys,
         Set(calls, c, [calls[c] EXCEPT !.at = at, !.kind = table[calls[c].key]])
  PROVE  Becomes(c, at, calls[c].key, table[calls[c].key], calls[c].due,
                 calls[c].seen, calls[c].status)
<1> DEFINE y == [calls[c] EXCEPT !.at = at, !.kind = table[calls[c].key]]
<1>1. calls \in [Calls -> Call] /\ calls[c] \in Call /\ table[calls[c].key] \in Kinds
  BY DEF TypeOK
<1>2. /\ y \in Call
      /\ IsCall(y, at, calls[c].key, table[calls[c].key], calls[c].due,
                calls[c].seen, calls[c].status)
  BY <1>1, LookedUp
<1>3. calls' = [calls EXCEPT ![c] = y]
  BY DEF Set
<1> HIDE DEF y
<1> QED
  BY <1>1, <1>2, <1>3, Putting DEF IsCall

(* A get finds no session, or locks the table and remembers the session.   *)
LEMMA GetLockCall ==
  ASSUME TypeOK, NEW c \in Calls, calls[c].key \in Keys, GetLock(c)
  PROVE  /\ calls[c].at = "get" /\ holder = NoCall
         /\ \/ /\ table[calls[c].key] = "none" /\ holder' = NoCall
               /\ Becomes(c, "done", calls[c].key, calls[c].kind, calls[c].due,
                          <<>>, "not_found")
            \/ /\ table[calls[c].key] # "none" /\ holder' = c
               /\ Becomes(c, "read", calls[c].key, table[calls[c].key], calls[c].due,
                          calls[c].seen, calls[c].status)
<1>1. calls \in [Calls -> Call]
  BY DEF TypeOK
<1>2. calls[c].at = "get" /\ holder = NoCall
  BY DEF GetLock, At
<1>3. CASE table[calls[c].key] = "none"
  <2> DEFINE y == [calls[c] EXCEPT !.at = "done", !.status = "not_found",
                                   !.seen = <<>>]
  <2>1. calls' = [calls EXCEPT ![c] = y] /\ holder' = NoCall
    BY <1>3 DEF GetLock, Reply, Set
  <2>2. <<>> \in Seq(BOOLEAN) /\ "not_found" \in Statuses /\ calls[c] \in Call
    BY <1>1 DEF Statuses
  <2>3. /\ y \in Call
        /\ IsCall(y, "done", calls[c].key, calls[c].kind, calls[c].due, <<>>,
                  "not_found")
    BY <2>2, Replied
  <2> HIDE DEF y
  <2> QED
    BY <1>1, <1>2, <1>3, <2>1, <2>3, Putting DEF IsCall
<1>4. CASE table[calls[c].key] # "none"
  <2>1. Set(calls, c, [calls[c] EXCEPT !.at = "read", !.kind = table[calls[c].key]])
          /\ holder' = c
    BY <1>4 DEF GetLock
  <2>2. "read" \in Stages
    BY DEF Stages
  <2> QED
    BY <1>2, <1>4, <2>1, <2>2, LookUpCall
<1> QED
  BY <1>3, <1>4

(* A get replies with the results it reads.                                *)
LEMMA GetReadCall ==
  ASSUME TypeOK, NEW c \in Calls, calls[c].key \in Keys, GetRead(c)
  PROVE  /\ calls[c].at = "read"
         /\ Becomes(c, "done", calls[c].key, calls[c].kind, calls[c].due,
                    Results(calls[c].key, calls[c].kind), "results")
<1> DEFINE y == [calls[c] EXCEPT !.at = "done", !.status = "results",
                                 !.seen = Results(calls[c].key, calls[c].kind)]
<1>1. calls \in [Calls -> Call] /\ calls[c] \in Call
  BY DEF TypeOK
<1>2. calls[c].at = "read" /\ calls' = [calls EXCEPT ![c] = y]
  BY DEF GetRead, Reply, Set, At
<1>3. Results(calls[c].key, calls[c].kind) \in Seq(BOOLEAN)
  BY ResultsType
<1>4. "results" \in Statuses
  BY DEF Statuses
<1>5. /\ y \in Call
      /\ IsCall(y, "done", calls[c].key, calls[c].kind, calls[c].due,
                Results(calls[c].key, calls[c].kind), "results")
  BY <1>1, <1>3, <1>4, Replied
<1> HIDE DEF y
<1> QED
  BY <1>1, <1>2, <1>5, Putting DEF IsCall

(* A shutdown remembers the session that it takes.                         *)
LEMMA ShutdownRemoveCall ==
  ASSUME TypeOK, NEW c \in Calls, calls[c].key \in Keys, ShutdownRemove(c)
  PROVE  /\ calls[c].at = "shut" /\ holder = NoCall
         /\ Becomes(c, "report", calls[c].key, table[calls[c].key], calls[c].due,
                    calls[c].seen, calls[c].status)
<1>1. "report" \in Stages
  BY DEF Stages
<1>2. /\ calls[c].at = "shut" /\ holder = NoCall
      /\ Set(calls, c, [calls[c] EXCEPT !.at = "report", !.kind = table[calls[c].key]])
  BY DEF ShutdownRemove, At
<1> QED
  BY <1>1, <1>2, LookUpCall

(* What a shutdown reads: nothing, without a session. *)
Read(c) == IF calls[c].kind = "none" THEN <<>> ELSE Results(calls[c].key, calls[c].kind)

(* It reads without a lock, ...                                            *)
LEMMA ShutdownReadCall ==
  ASSUME TypeOK, NEW c \in Calls, calls[c].key \in Keys, ShutdownRead(c)
  PROVE  /\ calls[c].at = "report"
         /\ Becomes(c, "clean", calls[c].key, calls[c].kind, calls[c].due,
                    Read(c), calls[c].status)
<1> DEFINE y == [calls[c] EXCEPT !.at = "clean", !.seen = Read(c)]
<1>1. calls \in [Calls -> Call] /\ calls[c] \in Call
  BY DEF TypeOK
<1>2. Read(c) \in Seq(BOOLEAN)
  <2>1. Results(calls[c].key, calls[c].kind) \in Seq(BOOLEAN)
    BY ResultsType
  <2>2. <<>> \in Seq(BOOLEAN)
    OBVIOUS
  <2> QED
    BY <2>1, <2>2 DEF Read
<1>3. "clean" \in Stages
  BY DEF Stages
<1>4. calls[c].at = "report" /\ calls' = [calls EXCEPT ![c] = y]
  BY DEF ShutdownRead, Set, At, Read
<1>5. /\ y \in Call
      /\ IsCall(y, "clean", calls[c].key, calls[c].kind, calls[c].due,
                Read(c), calls[c].status)
  BY <1>1, <1>2, <1>3, HasSeen
<1> HIDE DEF y
<1> QED
  BY <1>1, <1>4, <1>5, Putting DEF IsCall

(* ... and replies with what it read, ...                                  *)
LEMMA ReportCall ==
  ASSUME TypeOK, NEW c \in Calls, Reply(c, "results", calls[c].seen)
  PROVE  Becomes(c, "done", calls[c].key, calls[c].kind, calls[c].due,
                 calls[c].seen, "results")
<1> DEFINE y == [calls[c] EXCEPT !.at = "done", !.status = "results",
                                 !.seen = calls[c].seen]
<1>1. calls \in [Calls -> Call] /\ calls[c] \in Call
  BY DEF TypeOK
<1>2. calls' = [calls EXCEPT ![c] = y]
  BY DEF Reply, Set
<1>3. calls[c].seen \in Seq(BOOLEAN)
  BY <1>1, CallFields
<1>4. "results" \in Statuses
  BY DEF Statuses
<1>5. /\ y \in Call
      /\ IsCall(y, "done", calls[c].key, calls[c].kind, calls[c].due,
                calls[c].seen, "results")
  BY <1>1, <1>3, <1>4, Replied
<1> HIDE DEF y
<1> QED
  BY <1>1, <1>2, <1>5, Putting DEF IsCall

(* ... at once or when it has emptied the directory of a stdio session.    *)
LEMMA ShutdownCleanCall ==
  ASSUME TypeOK, NEW c \in Calls, ShutdownClean(c)
  PROVE  /\ calls[c].at = "clean"
         /\ \/ /\ calls[c].kind = "stdio"
               /\ Becomes(c, "remove", calls[c].key, calls[c].kind, calls[c].due,
                          calls[c].seen, calls[c].status)
            \/ /\ calls[c].kind # "stdio"
               /\ Becomes(c, "done", calls[c].key, calls[c].kind, calls[c].due,
                          calls[c].seen, "results")
<1>1. calls \in [Calls -> Call] /\ calls[c] \in Call
  BY DEF TypeOK
<1>2. calls[c].at = "clean"
  BY DEF ShutdownClean, At
<1>3. CASE calls[c].kind = "stdio"
  <2> DEFINE y == [calls[c] EXCEPT !.at = "remove"]
  <2>1. calls' = [calls EXCEPT ![c] = y]
    BY <1>3 DEF ShutdownClean, Set
  <2>2. "remove" \in Stages
    BY DEF Stages
  <2>3. /\ y \in Call
        /\ IsCall(y, "remove", calls[c].key, calls[c].kind, calls[c].due,
                  calls[c].seen, calls[c].status)
    BY <1>1, <2>2, Moved
  <2> HIDE DEF y
  <2> QED
    BY <1>1, <1>2, <1>3, <2>1, <2>3, Putting DEF IsCall
<1>4. CASE calls[c].kind # "stdio"
  BY <1>2, <1>4, ReportCall DEF ShutdownClean
<1> QED
  BY <1>3, <1>4

(* Nothing has happened at first. *)
LEMMA InitIInv == Init => IInv
<1> SUFFICES ASSUME Init PROVE IInv
  OBVIOUS
<1>1. TypeOK
  BY IdleCall DEF Init, TypeOK, Kinds, Views, Absent
<1>2. TableInv
  BY SessionsAssumption DEF Init, TableInv, KeysUsed, TableHasDir, TakenOut, Closing,
     Removing, ReaderHolds, Owned, OneShutdownTakesSession, Idle, At
<1>3. ShowInv
  BY DEF Init, ShowInv, WrittenBefore, FileShows, NoDirNoView, DueWritten, SeenShowsDue,
     Absent, Idle, At
<1> QED
  BY <1>1, <1>2, <1>3 DEF IInv

(* Every step of a mock and of a call keeps the variables in their ranges. *)
LEMMA TypeStep == TypeOK /\ KeysUsed /\ [Next]_vars => TypeOK'
<1> SUFFICES ASSUME TypeOK, KeysUsed, [Next]_vars PROVE TypeOK'
  OBVIOUS
<1>1. ASSUME NEW k \in Keys, Mock(k) PROVE TypeOK'
  <2> USE DEF TypeOK, Kinds, tableVars, mockVars, Set, At
  <2>1. CASE Spawn(k)
    BY <2>1 DEF Spawn
  <2>2. CASE MockPush(k)
    <3>1. Len(log[k]) + 1 \in Nat /\ \A x \in BOOLEAN : Append(log[k], x) \in Seq(BOOLEAN)
      OBVIOUS
    <3>2. log' \in [Keys -> Seq(BOOLEAN)]
            /\ UNCHANGED <<tableVars, dir, view, mock, told, calls>>
      BY <2>2, <3>1 DEF MockPush
    <3>3. written' \in [Keys -> Nat] /\ busy' \in [Keys -> {"free", "pushed", "truncated"}]
      BY <2>2, <3>1 DEF MockPush
    <3> QED
      BY <3>2, <3>3
  <2>3. CASE MockTruncate(k)
    BY <2>3 DEF MockTruncate, Views, Empty
  <2>7. CASE MockOpenFails(k)
    BY <2>7 DEF MockOpenFails
  <2>8. CASE MockFlushFails(k)
    <3>1. {Absent, Empty, Corrupt} \subseteq Views
      BY DEF Views, Absent, Empty, Corrupt
    <3> QED
      BY <2>8, <3>1 DEF MockFlushFails
  <2>4. CASE MockFlush(k)
    BY <2>4 DEF MockFlush, Views, Json
  <2>5. CASE MockAnswer(k)
    BY <2>5 DEF MockAnswer
  <2>6. CASE MockEnd(k)
    BY <2>6 DEF MockEnd
  <2> QED
    BY <1>1, <2>1, <2>2, <2>3, <2>4, <2>5, <2>6, <2>7, <2>8 DEF Mock
<1>2. ASSUME NEW c \in Calls, NEW k \in Keys, NEW kind \in {"stdio", "http"}, 
             Start(c, k, kind) PROVE TypeOK'
  <2>2. calls' \in [Calls -> Call]
    BY <1>2, StartCall DEF Becomes
  <2> QED
    BY <1>2, <2>2 DEF Start, TypeOK, Kinds, tableVars, mockVars, Set
<1>3. ASSUME NEW c \in Calls, NEW k \in Keys, StartFails(c, k) PROVE TypeOK'
  <2>2. calls' \in [Calls -> Call]
    BY <1>3, StartFailsCall DEF Becomes
  <2> QED
    BY <1>3, <2>2 DEF StartFails, TypeOK, Kinds, tableVars, mockVars, Set
<1>4. ASSUME NEW c \in Calls, NEW k \in Keys, NEW at \in {"get", "shut"}, 
             Ask(c, k, at) PROVE TypeOK'
  <2>2. calls' \in [Calls -> Call]
    BY <1>4, AskCall DEF Becomes
  <2> QED
    BY <1>4, <2>2 DEF Ask, TypeOK, Kinds, tableVars, mockVars, Set
<1>5. ASSUME NEW c \in Calls, GetLock(c) PROVE TypeOK'
  <2>1. calls[c].key \in Keys
    BY <1>5 DEF KeysUsed, GetLock, At
  <2>2. calls' \in [Calls -> Call]
    BY <1>5, <2>1, GetLockCall DEF Becomes
  <2> QED
    BY <1>5, <2>2, <2>1 DEF GetLock, TypeOK, Kinds, tableVars, mockVars, Set
<1>6. ASSUME NEW c \in Calls, GetRead(c) PROVE TypeOK'
  <2>1. calls[c].key \in Keys
    BY <1>6 DEF KeysUsed, GetRead, At
  <2>2. calls' \in [Calls -> Call]
    BY <1>6, <2>1, GetReadCall DEF Becomes
  <2> QED
    BY <1>6, <2>2, <2>1 DEF GetRead, TypeOK, Kinds, tableVars, mockVars, Set, Reply
<1>7. ASSUME NEW c \in Calls, ShutdownRemove(c) PROVE TypeOK'
  <2>1. calls[c].key \in Keys
    BY <1>7 DEF KeysUsed, ShutdownRemove, At
  <2>2. calls' \in [Calls -> Call]
    BY <1>7, <2>1, ShutdownRemoveCall DEF Becomes
  <2> QED
    BY <1>7, <2>2, <2>1 DEF ShutdownRemove, TypeOK, Kinds, tableVars, mockVars, Set
<1>8. ASSUME NEW c \in Calls, ShutdownRead(c) PROVE TypeOK'
  <2>1. calls[c].key \in Keys
    BY <1>8 DEF KeysUsed, ShutdownRead, At
  <2>2. calls' \in [Calls -> Call]
    BY <1>8, <2>1, ShutdownReadCall DEF Becomes
  <2> QED
    BY <1>8, <2>2, <2>1 DEF ShutdownRead, TypeOK, Kinds, tableVars, mockVars, Set
<1>9. ASSUME NEW c \in Calls, ShutdownClean(c) PROVE TypeOK'
  <2>1. calls[c].key \in Keys
    BY <1>9 DEF KeysUsed, ShutdownClean, At
  <2>2. calls' \in [Calls -> Call]
    BY <1>9, <2>1, ShutdownCleanCall DEF Becomes
  <2>4. Absent \in Views
    BY DEF Absent, Views
  <2>5. view' \in [Keys -> Views]
    BY <1>9, <2>1, <2>4 DEF ShutdownClean, TypeOK, Set
  <2> QED
    BY <1>9, <2>2, <2>5 DEF ShutdownClean, TypeOK, tableVars, mockVars
<1>11. ASSUME NEW c \in Calls, ShutdownRemoveDir(c) PROVE TypeOK'
  <2>1. calls' \in [Calls -> Call]
    BY <1>11, ReportCall DEF Becomes, ShutdownRemoveDir
  <2>2. dir' \in [Keys -> {"none", "made", "orphan", "left", "removed"}]
    BY <1>11 DEF ShutdownRemoveDir, TypeOK, Set
  <2> QED
    BY <1>11, <2>1, <2>2 DEF ShutdownRemoveDir, TypeOK, tableVars, mockVars
<1>12. ASSUME NEW c \in Calls, ShutdownGivesUp(c) PROVE TypeOK'
  <2>1. calls' \in [Calls -> Call]
    BY <1>12, ReportCall DEF Becomes, ShutdownGivesUp
  <2>2. dir' \in [Keys -> {"none", "made", "orphan", "left", "removed"}]
    BY <1>12 DEF ShutdownGivesUp, TypeOK, Set
  <2> QED
    BY <1>12, <2>1, <2>2 DEF ShutdownGivesUp, TypeOK, tableVars, mockVars
<1>10. CASE UNCHANGED vars
  BY <1>10 DEF vars, tableVars, mockVars, TypeOK
<1> QED
  BY <1>1, <1>2, <1>3, <1>4, <1>5, <1>6, <1>7, <1>8, <1>9, <1>10, <1>11,
     <1>12 DEF Next, Begin, Serve

-----------------------------------------------------------------------------
(* Every step keeps what ties the table, the mocks and the directories to  *)
(* the calls at work on them.                                              *)
LEMMA TableStep == TypeOK /\ TableInv /\ [Next]_vars => TableInv'
<1> SUFFICES ASSUME TypeOK, TableInv, [Next]_vars PROVE TableInv'
  OBVIOUS
<1>t. /\ KeysUsed /\ TableHasDir /\ Removing /\ Owned /\ TakenOut /\ ReaderHolds
      /\ OneShutdownTakesSession
  BY DEF TableInv
<1>1. ASSUME NEW k \in Keys, Mock(k) PROVE TableInv'
  <2>1. UNCHANGED <<table, holder, dir, calls>>
    BY <1>1 DEF Mock, Spawn, MockPush, MockTruncate, MockOpenFails, MockFlush,
                MockFlushFails, MockAnswer, MockEnd, tableVars
  <2>2. \A j \in Keys : mock[j] # "none" => mock'[j] # "none"
    BY <1>1 DEF TypeOK, Set, Mock, Spawn, MockPush, MockTruncate, MockOpenFails,
       MockFlush, MockFlushFails, MockAnswer, MockEnd
  <2>3. KeysUsed'
    BY <1>t, <2>1, <2>2 DEF KeysUsed, At
  <2> QED
    BY <1>t, <2>1, <2>3 DEF TableInv, TableHasDir, Removing, Owned, TakenOut, ReaderHolds,
       OneShutdownTakesSession, Closing, At
<1>2. ASSUME NEW c \in Calls, NEW k \in Keys, NEW kind \in {"stdio", "http"}, 
             Start(c, k, kind) PROVE TableInv'
  <2>1. /\ calls[c].at = "idle"
        /\ calls'[c].at = "done" /\ calls'[c].key = k
        /\ calls'[c].kind = "none"
        /\ \A d \in Calls \ {c} : calls'[d] = calls[d]
    BY <1>2, StartCall DEF Becomes, IsCall
  <2>2. /\ table[k] = "none" /\ mock[k] = "none" /\ dir[k] = "none"
        /\ table'[k] = kind /\ \A j \in Keys \ {k} : table'[j] = table[j]
        /\ dir'[k] = (IF kind = "stdio" THEN "made" ELSE "none") /\ \A j \in Keys \ {k} : dir'[j] = dir[j]
        /\ mock'[k] # "none" /\ \A j \in Keys \ {k} : mock'[j] = mock[j]
        /\ holder = NoCall /\ holder' = NoCall
    BY <1>2, <1>t DEF Start, TypeOK, Set, Fresh, KeysUsed, tableVars, mockVars
  <2>3. KeysUsed'
    BY <1>t, <2>1, <2>2 DEF KeysUsed, At
  <2>4. TableHasDir'
    BY <1>t, <2>1, <2>2 DEF TableHasDir, TakenOut, Closing
  <2>5. Owned'
    BY <1>t, <2>1, <2>2 DEF Owned, Closing
  <2>6. TakenOut'
    BY <1>t, <2>1, <2>2 DEF TakenOut, Closing, KeysUsed
  <2>7. OneShutdownTakesSession'
    BY <1>t, <2>1, <2>2 DEF OneShutdownTakesSession, TakenOut, Closing, KeysUsed
  <2>8. ReaderHolds'
    BY <1>t, <2>1, <2>2, SessionsAssumption DEF ReaderHolds, At, TakenOut, Closing, KeysUsed
  <2>9. Removing'
    BY <1>t, <2>1, <2>2 DEF Removing, At
  <2> QED
    BY <2>3, <2>4, <2>5, <2>6, <2>7, <2>8, <2>9 DEF TableInv
<1>3. ASSUME NEW c \in Calls, NEW k \in Keys, StartFails(c, k) PROVE TableInv'
  <2>1. /\ calls[c].at = "idle"
        /\ calls'[c].at = "done" /\ calls'[c].key = k
        /\ calls'[c].kind = "none"
        /\ \A d \in Calls \ {c} : calls'[d] = calls[d]
    BY <1>3, StartFailsCall DEF Becomes, IsCall
  <2>2. /\ table[k] = "none" /\ mock[k] = "none"
        /\ dir'[k] # "made" /\ \A j \in Keys \ {k} : dir'[j] = dir[j]
        /\ mock'[k] # "none" /\ \A j \in Keys \ {k} : mock'[j] = mock[j]
        /\ UNCHANGED <<table, holder>>
    BY <1>3, <1>t DEF StartFails, TypeOK, Set, Fresh, KeysUsed, tableVars, mockVars
  <2>3. KeysUsed'
    BY <1>t, <2>1, <2>2 DEF KeysUsed, At
  <2>4. TableHasDir'
    BY <1>t, <2>1, <2>2 DEF TableHasDir, TakenOut, Closing
  <2>5. Owned'
    BY <1>t, <2>1, <2>2 DEF Owned, Closing
  <2>6. TakenOut'
    BY <1>t, <2>1, <2>2 DEF TakenOut, Closing, KeysUsed
  <2>7. OneShutdownTakesSession'
    BY <1>t, <2>1, <2>2 DEF OneShutdownTakesSession, TakenOut, Closing, KeysUsed
  <2>8. ReaderHolds'
    BY <1>t, <2>1, <2>2, SessionsAssumption DEF ReaderHolds, At, TakenOut, Closing, KeysUsed
  <2>9. Removing'
    BY <1>t, <2>1, <2>2 DEF Removing, At
  <2> QED
    BY <2>3, <2>4, <2>5, <2>6, <2>7, <2>8, <2>9 DEF TableInv
<1>4. ASSUME NEW c \in Calls, NEW k \in Keys, NEW at \in {"get", "shut"}, 
             Ask(c, k, at) PROVE TableInv'
  <2>1. /\ calls[c].at = "idle"
        /\ calls'[c].at = at /\ calls'[c].key = k
        /\ calls'[c].kind = "none" /\ calls'[c].status = "none"
        /\ \A d \in Calls \ {c} : calls'[d] = calls[d]
    BY <1>4, AskCall DEF Becomes, IsCall
  <2>2. /\ mock[k] # "none"
        /\ UNCHANGED <<table, holder, dir, mock>>
    BY <1>4, <1>t DEF Ask, TypeOK, Set, tableVars, mockVars, KeysUsed, At
  <2>3. KeysUsed'
    BY <1>t, <2>1, <2>2 DEF KeysUsed, At
  <2>4. TableHasDir'
    BY <1>t, <2>1, <2>2 DEF TableHasDir, TakenOut, Closing
  <2>5. Owned'
    BY <1>t, <2>1, <2>2 DEF Owned, Closing
  <2>6. TakenOut'
    BY <1>t, <2>1, <2>2 DEF TakenOut, Closing, KeysUsed
  <2>7. OneShutdownTakesSession'
    BY <1>t, <2>1, <2>2 DEF OneShutdownTakesSession, TakenOut, Closing, KeysUsed
  <2>8. ReaderHolds'
    BY <1>t, <2>1, <2>2, SessionsAssumption DEF ReaderHolds, At, TakenOut, Closing, KeysUsed
  <2>9. Removing'
    BY <1>t, <2>1, <2>2 DEF Removing, At
  <2> QED
    BY <2>3, <2>4, <2>5, <2>6, <2>7, <2>8, <2>9 DEF TableInv
<1>5. ASSUME NEW c \in Calls, GetLock(c) PROVE TableInv'
  <2>0. calls[c].key \in Keys
    BY <1>5, <1>t DEF KeysUsed, GetLock, At
  <2>1. /\ calls[c].at = "get"
        /\ calls[c].key \in Keys /\ calls'[c].key = calls[c].key
        /\ \/ calls'[c].at = "done" /\ holder' = NoCall
           \/ /\ calls'[c].at = "read" /\ calls'[c].status = calls[c].status
              /\ calls'[c].kind # "none" /\ calls'[c].kind = table[calls[c].key]
              /\ holder' = c
        /\ \A d \in Calls \ {c} : calls'[d] = calls[d]
    BY <1>5, <2>0, GetLockCall DEF Becomes, IsCall
  <2>2. /\ holder = NoCall
        /\ UNCHANGED <<table, dir, mock>>
    BY <1>5, <2>0 DEF GetLock, TypeOK, Set, tableVars, mockVars
  <2>3. KeysUsed'
    BY <1>t, <2>1, <2>2 DEF KeysUsed, At
  <2>4. TableHasDir'
    BY <1>t, <2>1, <2>2 DEF TableHasDir, TakenOut, Closing
  <2>5. Owned'
    BY <1>t, <2>1, <2>2 DEF Owned, Closing
  <2>6. TakenOut'
    BY <1>t, <2>1, <2>2 DEF TakenOut, Closing, KeysUsed
  <2>7. OneShutdownTakesSession'
    BY <1>t, <2>1, <2>2 DEF OneShutdownTakesSession, TakenOut, Closing, KeysUsed
  <2>8. ReaderHolds'
    BY <1>t, <2>1, <2>2, SessionsAssumption DEF ReaderHolds, At, TakenOut, Closing, KeysUsed
  <2>9. Removing'
    BY <1>t, <2>1, <2>2 DEF Removing, At
  <2> QED
    BY <2>3, <2>4, <2>5, <2>6, <2>7, <2>8, <2>9 DEF TableInv
<1>6. ASSUME NEW c \in Calls, GetRead(c) PROVE TableInv'
  <2>0. calls[c].key \in Keys
    BY <1>6, <1>t DEF KeysUsed, GetRead, At
  <2>1. /\ calls[c].at = "read"
        /\ calls[c].key \in Keys /\ calls'[c].key = calls[c].key
        /\ calls'[c].at = "done"
        /\ \A d \in Calls \ {c} : calls'[d] = calls[d]
    BY <1>6, <2>0, GetReadCall DEF Becomes, IsCall
  <2>2. /\ holder' = NoCall
        /\ UNCHANGED <<table, dir, mock>>
    BY <1>6, <2>0 DEF GetRead, TypeOK, Set, tableVars, mockVars
  <2>3. KeysUsed'
    BY <1>t, <2>1, <2>2 DEF KeysUsed, At
  <2>4. TableHasDir'
    BY <1>t, <2>1, <2>2 DEF TableHasDir, TakenOut, Closing
  <2>5. Owned'
    BY <1>t, <2>1, <2>2 DEF Owned, Closing
  <2>6. TakenOut'
    BY <1>t, <2>1, <2>2 DEF TakenOut, Closing, KeysUsed
  <2>7. OneShutdownTakesSession'
    BY <1>t, <2>1, <2>2 DEF OneShutdownTakesSession, TakenOut, Closing, KeysUsed
  <2>8. ReaderHolds'
    BY <1>t, <2>1, <2>2, SessionsAssumption DEF ReaderHolds, At, TakenOut, Closing, KeysUsed
  <2>9. Removing'
    BY <1>t, <2>1, <2>2 DEF Removing, At
  <2> QED
    BY <2>3, <2>4, <2>5, <2>6, <2>7, <2>8, <2>9 DEF TableInv
<1>7. ASSUME NEW c \in Calls, ShutdownRemove(c) PROVE TableInv'
  <2>0. calls[c].key \in Keys
    BY <1>7, <1>t DEF KeysUsed, ShutdownRemove, At
  <2>1. /\ calls[c].at = "shut"
        /\ calls[c].key \in Keys /\ calls'[c].key = calls[c].key
        /\ calls'[c].at = "report" /\ calls'[c].status = calls[c].status
        /\ calls'[c].kind = table[calls[c].key]
        /\ \A d \in Calls \ {c} : calls'[d] = calls[d]
    BY <1>7, <2>0, ShutdownRemoveCall DEF Becomes, IsCall
  <2>2. /\ holder = NoCall
        /\ table'[calls[c].key] = "none" /\ \A j \in Keys \ {calls[c].key} : table'[j] = table[j]
        /\ UNCHANGED <<holder, dir, mock>>
    BY <1>7, <2>0 DEF ShutdownRemove, TypeOK, Set, tableVars, mockVars
  <2>3. KeysUsed'
    BY <1>t, <2>1, <2>2 DEF KeysUsed, At
  <2>4. TableHasDir'
    BY <1>t, <2>1, <2>2 DEF TableHasDir, TakenOut, Closing
  <2>5. Owned'
    BY <1>t, <2>1, <2>2 DEF Owned, Closing
  <2>6. TakenOut'
    BY <1>t, <2>1, <2>2 DEF TakenOut, Closing, KeysUsed
  <2>7. OneShutdownTakesSession'
    BY <1>t, <2>1, <2>2 DEF OneShutdownTakesSession, TakenOut, Closing, KeysUsed
  <2>8. ReaderHolds'
    BY <1>t, <2>1, <2>2, SessionsAssumption DEF ReaderHolds, At, TakenOut, Closing, KeysUsed
  <2>9. Removing'
    BY <1>t, <2>1, <2>2 DEF Removing, At
  <2> QED
    BY <2>3, <2>4, <2>5, <2>6, <2>7, <2>8, <2>9 DEF TableInv
<1>8. ASSUME NEW c \in Calls, ShutdownRead(c) PROVE TableInv'
  <2>0. calls[c].key \in Keys
    BY <1>8, <1>t DEF KeysUsed, ShutdownRead, At
  <2>1. /\ calls[c].at = "report"
        /\ calls[c].key \in Keys /\ calls'[c].key = calls[c].key
        /\ calls'[c].at = "clean" /\ calls'[c].status = calls[c].status
        /\ calls'[c].kind = calls[c].kind
        /\ \A d \in Calls \ {c} : calls'[d] = calls[d]
    BY <1>8, <2>0, ShutdownReadCall DEF Becomes, IsCall
  <2>2. /\ UNCHANGED <<table, holder, dir, mock>>
    BY <1>8, <2>0 DEF ShutdownRead, TypeOK, Set, tableVars, mockVars
  <2>3. KeysUsed'
    BY <1>t, <2>1, <2>2 DEF KeysUsed, At
  <2>4. TableHasDir'
    BY <1>t, <2>1, <2>2 DEF TableHasDir, TakenOut, Closing
  <2>5. Owned'
    BY <1>t, <2>1, <2>2 DEF Owned, Closing
  <2>6. TakenOut'
    BY <1>t, <2>1, <2>2 DEF TakenOut, Closing, KeysUsed
  <2>7. OneShutdownTakesSession'
    BY <1>t, <2>1, <2>2 DEF OneShutdownTakesSession, TakenOut, Closing, KeysUsed
  <2>8. ReaderHolds'
    BY <1>t, <2>1, <2>2, SessionsAssumption DEF ReaderHolds, At, TakenOut, Closing, KeysUsed
  <2>9. Removing'
    BY <1>t, <2>1, <2>2 DEF Removing, At
  <2> QED
    BY <2>3, <2>4, <2>5, <2>6, <2>7, <2>8, <2>9 DEF TableInv
<1>9. ASSUME NEW c \in Calls, ShutdownClean(c) PROVE TableInv'
  <2>0. calls[c].key \in Keys
    BY <1>9, <1>t DEF KeysUsed, ShutdownClean, At
  <2>1. /\ calls[c].at = "clean" /\ calls[c].key \in Keys
        /\ calls'[c].key = calls[c].key /\ calls'[c].kind = calls[c].kind
        /\ \/ /\ calls[c].kind = "stdio" /\ calls'[c].at = "remove"
              /\ calls'[c].status = calls[c].status
           \/ calls[c].kind # "stdio" /\ calls'[c].at = "done"
        /\ \A d \in Calls \ {c} : calls'[d] = calls[d]
    BY <1>9, <2>0, ShutdownCleanCall DEF Becomes, IsCall
  <2>2. UNCHANGED <<table, holder, dir, mock>>
    BY <1>9 DEF ShutdownClean, tableVars, mockVars
  <2>3. KeysUsed'
    BY <1>t, <2>1, <2>2 DEF KeysUsed, At
  <2>4. TableHasDir'
    BY <1>t, <2>1, <2>2 DEF TableHasDir, TakenOut, Closing
  <2>5. Owned'
    BY <1>t, <2>1, <2>2 DEF Owned, Closing
  <2>6. TakenOut'
    BY <1>t, <2>1, <2>2 DEF TakenOut, Closing, KeysUsed
  <2>7. OneShutdownTakesSession'
    BY <1>t, <2>1, <2>2 DEF OneShutdownTakesSession, TakenOut, Closing, KeysUsed
  <2>8. ReaderHolds'
    BY <1>t, <2>1, <2>2, SessionsAssumption DEF ReaderHolds, At, TakenOut, Closing, KeysUsed
  <2>9. Removing'
    BY <1>t, <2>1, <2>2 DEF Removing, At
  <2> QED
    BY <2>3, <2>4, <2>5, <2>6, <2>7, <2>8, <2>9 DEF TableInv
<1>11. ASSUME NEW c \in Calls, ShutdownRemoveDir(c) PROVE TableInv'
  <2>0. calls[c].key \in Keys
    BY <1>11, <1>t DEF KeysUsed, ShutdownRemoveDir, At
  <2>1. /\ calls[c].at = "remove" /\ calls[c].kind = "stdio" /\ calls[c].key \in Keys
        /\ calls'[c].key = calls[c].key /\ calls'[c].at = "done"
        /\ \A d \in Calls \ {c} : calls'[d] = calls[d]
    BY <1>11, <1>t, <2>0, ReportCall DEF Becomes, IsCall, ShutdownRemoveDir, At, Removing
  <2>2. /\ dir'[calls[c].key] = "removed"
        /\ \A j \in Keys \ {calls[c].key} : dir'[j] = dir[j]
        /\ UNCHANGED <<table, holder, mock>>
    BY <1>11, <2>0 DEF ShutdownRemoveDir, TypeOK, Set, tableVars, mockVars
  <2>3. KeysUsed'
    BY <1>t, <2>1, <2>2 DEF KeysUsed, At
  <2>4. TableHasDir'
    BY <1>t, <2>1, <2>2 DEF TableHasDir, TakenOut, Closing
  <2>5. Owned'
    BY <1>t, <2>1, <2>2 DEF Owned, Closing
  <2>6. TakenOut'
    BY <1>t, <2>1, <2>2 DEF TakenOut, Closing, KeysUsed
  <2>7. OneShutdownTakesSession'
    BY <1>t, <2>1, <2>2 DEF OneShutdownTakesSession, TakenOut, Closing, KeysUsed
  <2>8. ReaderHolds'
    BY <1>t, <2>1, <2>2, SessionsAssumption DEF ReaderHolds, At, TakenOut, Closing, KeysUsed
  <2>9. Removing'
    BY <1>t, <2>1, <2>2 DEF Removing, At
  <2> QED
    BY <2>3, <2>4, <2>5, <2>6, <2>7, <2>8, <2>9 DEF TableInv
<1>12. ASSUME NEW c \in Calls, ShutdownGivesUp(c) PROVE TableInv'
  <2>0. calls[c].key \in Keys
    BY <1>12, <1>t DEF KeysUsed, ShutdownGivesUp, At
  <2>1. /\ calls[c].at \in {"clean", "remove"} /\ calls[c].kind = "stdio" /\ calls[c].key \in Keys
        /\ calls'[c].key = calls[c].key /\ calls'[c].at = "done"
        /\ \A d \in Calls \ {c} : calls'[d] = calls[d]
    BY <1>12, <1>t, <2>0, ReportCall DEF Becomes, IsCall, ShutdownGivesUp, At, Removing
  <2>2. /\ dir'[calls[c].key] = "left"
        /\ \A j \in Keys \ {calls[c].key} : dir'[j] = dir[j]
        /\ UNCHANGED <<table, holder, mock>>
    BY <1>12, <2>0 DEF ShutdownGivesUp, TypeOK, Set, tableVars, mockVars
  <2>3. KeysUsed'
    BY <1>t, <2>1, <2>2 DEF KeysUsed, At
  <2>4. TableHasDir'
    BY <1>t, <2>1, <2>2 DEF TableHasDir, TakenOut, Closing
  <2>5. Owned'
    BY <1>t, <2>1, <2>2 DEF Owned, Closing
  <2>6. TakenOut'
    BY <1>t, <2>1, <2>2 DEF TakenOut, Closing, KeysUsed
  <2>7. OneShutdownTakesSession'
    BY <1>t, <2>1, <2>2 DEF OneShutdownTakesSession, TakenOut, Closing, KeysUsed
  <2>8. ReaderHolds'
    BY <1>t, <2>1, <2>2, SessionsAssumption DEF ReaderHolds, At, TakenOut, Closing, KeysUsed
  <2>9. Removing'
    BY <1>t, <2>1, <2>2 DEF Removing, At
  <2> QED
    BY <2>3, <2>4, <2>5, <2>6, <2>7, <2>8, <2>9 DEF TableInv
<1>10. CASE UNCHANGED vars
  BY <1>10 DEF vars, tableVars, mockVars, TableInv, KeysUsed, TableHasDir, Removing, Owned, TakenOut,
     ReaderHolds, OneShutdownTakesSession, Closing, At
<1> QED
  BY <1>1, <1>2, <1>3, <1>4, <1>5, <1>6, <1>7, <1>8, <1>9, <1>10, <1>11,
     <1>12 DEF Next, Begin, Serve

(* What is read of a session shows everything that was written, if it is   *)
(* not the file of a stdio session with nothing in it.                     *)
LEMMA ResultsShow ==
  ASSUME TypeOK, WrittenBefore, FileShows, NEW k \in Keys, NEW kind \in {"stdio", "http"},
         kind = "http" \/ Results(k, kind) # <<>>
  PROVE  Shows(Results(k, kind), k, 1 .. written[k])
BY DEF Results, FileShows, Shows, WrittenBefore

(* A mock only adds to its list and to what is written, so the calls keep  *)
(* what they have.                                                         *)
LEMMA MockShows ==
  ASSUME TypeOK, KeysUsed, WrittenBefore, DueWritten, SeenShowsDue, UNCHANGED calls,
         \A j \in Keys : /\ 1 .. written[j] \subseteq 1 .. written'[j]
                         /\ \A i \in DOMAIN log[j] : log'[j][i] = log[j][i]
  PROVE  DueWritten' /\ SeenShowsDue'
<1>1. DueWritten'
  BY DEF DueWritten
<1>2. SeenShowsDue'
  <2> SUFFICES ASSUME NEW c \in Calls,
                      calls[c].at \in {"clean", "remove"} \/ calls[c].status = "results",
                      calls[c].kind # "none",
                      calls[c].kind = "http" \/ calls[c].seen # <<>>,
                      NEW i \in calls[c].due
               PROVE  /\ i \in DOMAIN calls[c].seen
                      /\ calls[c].seen[i] = log'[calls[c].key][i]
    BY DEF SeenShowsDue, Shows
  <2>1. calls[c].at # "idle"
    BY DEF KeysUsed, At
  <2>2. calls[c].key \in Keys
    BY <2>1 DEF KeysUsed
  <2>3. i \in DOMAIN log[calls[c].key]
    BY <2>2 DEF DueWritten, WrittenBefore
  <2>4. i \in DOMAIN calls[c].seen /\ calls[c].seen[i] = log[calls[c].key][i]
    BY DEF SeenShowsDue, Shows
  <2> QED
    BY <2>2, <2>3, <2>4
<1> QED
  BY <1>1, <1>2

(* Every step keeps what the lists, the files and the answers have to do   *)
(* with each other.                                                        *)
LEMMA ShowStep == IInv /\ [Next]_vars => ShowInv'
<1> SUFFICES ASSUME IInv, [Next]_vars PROVE ShowInv'
  OBVIOUS
<1>t. /\ TypeOK /\ KeysUsed /\ WrittenBefore /\ FileShows /\ NoDirNoView /\ DueWritten
      /\ SeenShowsDue /\ Removing
  BY DEF IInv, TableInv, ShowInv
<1>l. \A k \in Keys : /\ log[k] \in Seq(BOOLEAN) /\ view[k].seq \in Seq(BOOLEAN)
                      /\ written[k] \in Nat
  BY <1>t DEF TypeOK, Views
<1>1. ASSUME NEW k \in Keys, Spawn(k) \/ MockEnd(k) \/ MockAnswer(k) PROVE ShowInv'
  <2>1. UNCHANGED <<dir, view, log, written, calls>>
    BY <1>1, <1>t DEF Spawn, MockEnd, MockAnswer, TypeOK, Set
  <2>2. UNCHANGED <<busy>>
    BY <1>1 DEF Spawn, MockEnd, MockAnswer
  <2>3. WrittenBefore'
    BY <1>t, <1>l, <2>1, <2>2 DEF WrittenBefore
  <2>4. FileShows'
    BY <1>t, <1>l, <2>1, <2>2 DEF FileShows, NoDirNoView, Shows, Standing,
       WrittenBefore, Absent
  <2>5. NoDirNoView'
    BY <1>t, <1>l, <2>1, <2>2 DEF NoDirNoView, Standing
  <2>6. DueWritten' /\ SeenShowsDue'
    BY <1>t, <1>l, <2>1, <2>2, MockShows
  <2> QED
    BY <2>3, <2>4, <2>5, <2>6 DEF ShowInv
<1>2. ASSUME NEW k \in Keys, MockPush(k) PROVE ShowInv'
  <2>a. /\ \E x \in BOOLEAN : log'[k] = Append(log[k], x)
        /\ \A j \in Keys \ {k} : log'[j] = log[j] /\ busy'[j] = busy[j]
                                   /\ written'[j] = written[j]
        /\ \/ dir[k] = "none" /\ written'[k] = Len(log[k]) + 1 /\ busy'[k] = busy[k]
           \/ busy'[k] = "pushed" /\ written'[k] = written[k]
    BY <1>2, <1>t DEF MockPush, TypeOK, Set
  <2>2. UNCHANGED <<dir, view, calls>>
    BY <1>2 DEF MockPush
  <2>b. /\ Len(log'[k]) = Len(log[k]) + 1 /\ DOMAIN log'[k] = 1 .. Len(log'[k])
        /\ DOMAIN log[k] = 1 .. Len(log[k])
        /\ \A i \in DOMAIN log[k] : log'[k][i] = log[k][i]
    BY <1>l, <2>a
  <2>c. \A i \in 1 .. written[k] : i \in DOMAIN log[k]
    BY <1>t DEF WrittenBefore
  <2>d. written[k] <= Len(log[k])
    BY <1>l, <2>b, <2>c
  <2>1. /\ \A j \in Keys : 1 .. written[j] \subseteq 1 .. written'[j]
        /\ \A j \in Keys : \A i \in DOMAIN log[j] : log'[j][i] = log[j][i]
        /\ 1 .. written'[k] \subseteq DOMAIN log'[k]
        /\ view[k].seq = <<>> \/ written'[k] = written[k]
    <3>1. written'[k] \in Nat /\ written[k] <= written'[k] /\ written'[k] <= Len(log'[k])
      BY <1>l, <2>a, <2>b, <2>d
    <3>2. 1 .. written[k] \subseteq 1 .. written'[k] /\ 1 .. written'[k] \subseteq DOMAIN log'[k]
      BY <1>l, <2>b, <3>1
    <3>3. view[k].seq = <<>> \/ written'[k] = written[k]
      BY <1>t, <2>a DEF NoDirNoView, Standing, Absent
    <3> QED
      BY <2>a, <2>b, <3>2, <3>3
  <2>3. WrittenBefore'
    BY <1>t, <2>a, <2>1 DEF WrittenBefore
  <2>4. FileShows'
    <3> SUFFICES ASSUME NEW j \in Keys
                 PROVE  /\ busy'[j] = "truncated" => view[j].seq = <<>>
                        /\ view[j].seq # <<>> =>
                             \A i \in 1 .. written'[j] :
                               i \in DOMAIN view[j].seq /\ view[j].seq[i] = log'[j][i]
      BY <2>2 DEF FileShows, Shows
    <3>1. /\ busy[j] = "truncated" => view[j].seq = <<>>
          /\ view[j].seq # <<>> =>
               \A i \in 1 .. written[j] :
                 i \in DOMAIN view[j].seq /\ view[j].seq[i] = log[j][i]
      BY <1>t DEF FileShows, Shows
    <3> QED
      BY <1>t, <2>a, <2>1, <3>1 DEF WrittenBefore
  <2>5. NoDirNoView'
    BY <1>t, <2>2 DEF NoDirNoView, Standing
  <2>6. DueWritten' /\ SeenShowsDue'
    BY <1>t, <2>1, <2>2, MockShows
  <2> QED
    BY <2>3, <2>4, <2>5, <2>6 DEF ShowInv
<1>3. ASSUME NEW k \in Keys, MockTruncate(k) PROVE ShowInv'
  <2>1. /\ Standing(k) /\ view'[k].seq = <<>>
        /\ \A j \in Keys \ {k} : view'[j] = view[j] /\ busy'[j] = busy[j]
    BY <1>3, <1>t DEF MockTruncate, Empty, TypeOK, Set
  <2>2. UNCHANGED <<dir, log, written, calls>>
    BY <1>3 DEF MockTruncate
  <2>3. WrittenBefore'
    BY <1>t, <1>l, <2>1, <2>2 DEF WrittenBefore
  <2>4. FileShows'
    BY <1>t, <1>l, <2>1, <2>2 DEF FileShows, NoDirNoView, Shows, Standing,
       WrittenBefore, Absent
  <2>5. NoDirNoView'
    BY <1>t, <1>l, <2>1, <2>2 DEF NoDirNoView, Standing
  <2>6. DueWritten' /\ SeenShowsDue'
    BY <1>t, <1>l, <2>1, <2>2, MockShows
  <2> QED
    BY <2>3, <2>4, <2>5, <2>6 DEF ShowInv
<1>4. ASSUME NEW k \in Keys, MockFlush(k) PROVE ShowInv'
  <2>1. /\ view'[k].seq = log[k] /\ view[k] # Absent /\ busy[k] = "truncated"
        /\ written'[k] = Len(log[k]) /\ busy'[k] = "free"
        /\ \A j \in Keys \ {k} : view'[j] = view[j] /\ busy'[j] = busy[j]
                                   /\ written'[j] = written[j]
    BY <1>4, <1>t DEF MockFlush, Json, TypeOK, Set
  <2>2. UNCHANGED <<dir, log, calls>>
    BY <1>4 DEF MockFlush
  <2>a. /\ \A j \in Keys : 1 .. written[j] \subseteq 1 .. written'[j]
        /\ \A j \in Keys : \A i \in DOMAIN log[j] : log'[j][i] = log[j][i]
    <3>1. 1 .. written[k] \subseteq 1 .. Len(log[k])
      BY <1>t, <1>l DEF WrittenBefore
    <3> QED
      BY <2>1, <2>2, <3>1
  <2>3. WrittenBefore'
    BY <1>t, <1>l, <2>1, <2>2 DEF WrittenBefore
  <2>4. FileShows'
    BY <1>t, <1>l, <2>1, <2>2 DEF FileShows, NoDirNoView, Shows, Standing,
       WrittenBefore, Absent
  <2>5. NoDirNoView'
    BY <1>t, <1>l, <2>1, <2>2 DEF NoDirNoView, Standing
  <2>6. DueWritten' /\ SeenShowsDue'
    BY <1>t, <1>l, <2>2, <2>a, MockShows
  <2> QED
    BY <2>3, <2>4, <2>5, <2>6 DEF ShowInv
<1>5. ASSUME NEW k \in Keys, MockOpenFails(k) \/ MockFlushFails(k) PROVE ShowInv'
  <2>1. /\ view'[k] = view[k] \/ (view[k] # Absent /\ view'[k].seq = <<>>)
        /\ busy'[k] = "free"
        /\ \A j \in Keys \ {k} : view'[j] = view[j] /\ busy'[j] = busy[j]
    BY <1>5, <1>t DEF MockOpenFails, MockFlushFails, Absent, Empty, Corrupt, TypeOK, Set
  <2>2. UNCHANGED <<dir, log, written, calls>>
    BY <1>5 DEF MockOpenFails, MockFlushFails
  <2>3. WrittenBefore'
    BY <1>t, <1>l, <2>1, <2>2 DEF WrittenBefore
  <2>4. FileShows'
    BY <1>t, <1>l, <2>1, <2>2 DEF FileShows, NoDirNoView, Shows, Standing,
       WrittenBefore, Absent
  <2>5. NoDirNoView'
    BY <1>t, <1>l, <2>1, <2>2 DEF NoDirNoView, Standing
  <2>6. DueWritten' /\ SeenShowsDue'
    BY <1>t, <1>l, <2>1, <2>2, MockShows
  <2> QED
    BY <2>3, <2>4, <2>5, <2>6 DEF ShowInv
<1>6. ASSUME NEW c \in Calls, NEW k \in Keys, NEW kind \in {"stdio", "http"},
            Start(c, k, kind) PROVE ShowInv'
  <2>1. /\ calls'[c].at = "done" /\ calls'[c].status = "started" /\ calls'[c].due = {}
        /\ \A d \in Calls \ {c} : calls'[d] = calls[d]
    BY <1>6, <1>t, StartCall DEF Becomes, IsCall
  <2>2. /\ view[k] = Absent /\ ~Standing(k)
        /\ \A j \in Keys \ {k} : dir'[j] = dir[j]
        /\ UNCHANGED <<view, busy, log, written>>
    BY <1>6, <1>t DEF Start, Fresh, Standing, NoDirNoView, tableVars, mockVars,
       TypeOK, Set
  <2>3. WrittenBefore'
    BY <1>t, <1>l, <2>1, <2>2 DEF WrittenBefore
  <2>4. FileShows'
    BY <1>t, <1>l, <2>1, <2>2 DEF FileShows, NoDirNoView, Shows, Standing,
       WrittenBefore, Absent
  <2>5. NoDirNoView'
    BY <1>t, <1>l, <2>1, <2>2 DEF NoDirNoView, Standing
  <2>6. DueWritten'
    BY <1>t, <2>1, <2>2 DEF DueWritten, Due
  <2>7. SeenShowsDue'
    BY <1>t, <2>1, <2>2 DEF SeenShowsDue, Shows, KeysUsed, At
  <2> QED
    BY <2>3, <2>4, <2>5, <2>6, <2>7 DEF ShowInv
<1>7. ASSUME NEW c \in Calls, NEW k \in Keys, StartFails(c, k) PROVE ShowInv'
  <2>1. /\ calls'[c].at = "done" /\ calls'[c].status = "error" /\ calls'[c].due = {}
        /\ \A d \in Calls \ {c} : calls'[d] = calls[d]
    BY <1>7, <1>t, StartFailsCall DEF Becomes, IsCall
  <2>2. /\ view[k] = Absent /\ ~Standing(k)
        /\ \A j \in Keys \ {k} : dir'[j] = dir[j]
        /\ UNCHANGED <<view, busy, log, written>>
    BY <1>7, <1>t DEF StartFails, Fresh, Standing, NoDirNoView, tableVars, mockVars,
       TypeOK, Set
  <2>3. WrittenBefore'
    BY <1>t, <1>l, <2>1, <2>2 DEF WrittenBefore
  <2>4. FileShows'
    BY <1>t, <1>l, <2>1, <2>2 DEF FileShows, NoDirNoView, Shows, Standing,
       WrittenBefore, Absent
  <2>5. NoDirNoView'
    BY <1>t, <1>l, <2>1, <2>2 DEF NoDirNoView, Standing
  <2>6. DueWritten'
    BY <1>t, <2>1, <2>2 DEF DueWritten, Due
  <2>7. SeenShowsDue'
    BY <1>t, <2>1, <2>2 DEF SeenShowsDue, Shows, KeysUsed, At
  <2> QED
    BY <2>3, <2>4, <2>5, <2>6, <2>7 DEF ShowInv
<1>8. ASSUME NEW c \in Calls, NEW k \in Keys, NEW at \in {"get", "shut"},
            Ask(c, k, at) PROVE ShowInv'
  <2>1. /\ calls'[c].at = at /\ calls'[c].status = "none" /\ calls'[c].key = k
        /\ calls'[c].due = Due(k)
        /\ \A d \in Calls \ {c} : calls'[d] = calls[d]
    BY <1>8, <1>t, AskCall DEF Becomes, IsCall
  <2>2. UNCHANGED <<dir, view, busy, log, written>>
    BY <1>8 DEF Ask, tableVars, mockVars
  <2>3. WrittenBefore'
    BY <1>t, <1>l, <2>1, <2>2 DEF WrittenBefore
  <2>4. FileShows'
    BY <1>t, <1>l, <2>1, <2>2 DEF FileShows, NoDirNoView, Shows, Standing,
       WrittenBefore, Absent
  <2>5. NoDirNoView'
    BY <1>t, <1>l, <2>1, <2>2 DEF NoDirNoView, Standing
  <2>6. DueWritten'
    BY <1>t, <2>1, <2>2 DEF DueWritten, Due
  <2>7. SeenShowsDue'
    BY <1>t, <2>1, <2>2 DEF SeenShowsDue, Shows, KeysUsed, At
  <2> QED
    BY <2>3, <2>4, <2>5, <2>6, <2>7 DEF ShowInv
<1>9. ASSUME NEW c \in Calls, GetLock(c) PROVE ShowInv'
  <2>0. calls[c].key \in Keys /\ calls[c].status # "results"
    BY <1>9, <1>t DEF KeysUsed, GetLock, At
  <2>1. /\ calls'[c].status # "results" /\ calls'[c].at \in {"read", "done"}
        /\ calls'[c].key = calls[c].key /\ calls'[c].due = calls[c].due
        /\ \A d \in Calls \ {c} : calls'[d] = calls[d]
    BY <1>9, <1>t, <2>0, GetLockCall DEF Becomes, IsCall
  <2>2. UNCHANGED <<dir, view, busy, log, written>>
    BY <1>9 DEF GetLock, tableVars, mockVars
  <2>3. WrittenBefore'
    BY <1>t, <1>l, <2>1, <2>2 DEF WrittenBefore
  <2>4. FileShows'
    BY <1>t, <1>l, <2>1, <2>2 DEF FileShows, NoDirNoView, Shows, Standing,
       WrittenBefore, Absent
  <2>5. NoDirNoView'
    BY <1>t, <1>l, <2>1, <2>2 DEF NoDirNoView, Standing
  <2>6. DueWritten'
    BY <1>t, <2>1, <2>2 DEF DueWritten, Due
  <2>7. SeenShowsDue'
    BY <1>t, <2>1, <2>2 DEF SeenShowsDue, Shows, KeysUsed, At
  <2> QED
    BY <2>3, <2>4, <2>5, <2>6, <2>7 DEF ShowInv
<1>10. ASSUME NEW c \in Calls, GetRead(c) PROVE ShowInv'
  <2>0. calls[c].key \in Keys /\ calls[c].status # "results"
    BY <1>10, <1>t DEF KeysUsed, GetRead, At
  <2>1. /\ calls'[c].key = calls[c].key /\ calls'[c].due = calls[c].due
        /\ calls'[c].at = "done" /\ calls'[c].kind = calls[c].kind
        /\ calls'[c].seen = Results(calls[c].key, calls[c].kind)
        /\ \A d \in Calls \ {c} : calls'[d] = calls[d]
    BY <1>10, <1>t, <2>0, GetReadCall DEF Becomes, IsCall
  <2>2. UNCHANGED <<dir, view, busy, log, written>>
    BY <1>10 DEF GetRead, tableVars, mockVars
  <2>3. WrittenBefore'
    BY <1>t, <1>l, <2>1, <2>2 DEF WrittenBefore
  <2>4. FileShows'
    BY <1>t, <1>l, <2>1, <2>2 DEF FileShows, NoDirNoView, Shows, Standing,
       WrittenBefore, Absent
  <2>5. NoDirNoView'
    BY <1>t, <1>l, <2>1, <2>2 DEF NoDirNoView, Standing
  <2>6. DueWritten'
    BY <1>t, <2>1, <2>2 DEF DueWritten, Due
  <2>7. SeenShowsDue'
    <3>1. ASSUME calls[c].kind # "none",
                 calls[c].kind = "http" \/ calls'[c].seen # <<>>
          PROVE  Shows(calls'[c].seen, calls[c].key, calls[c].due)
      <4>1. calls[c].kind \in {"stdio", "http"}
        BY <1>t, <3>1 DEF TypeOK, Call, Kinds
      <4>2. Shows(Results(calls[c].key, calls[c].kind), calls[c].key,
                  1 .. written[calls[c].key])
        BY <1>t, <2>0, <2>1, <3>1, <4>1, ResultsShow
      <4> QED
        BY <1>t, <2>0, <2>1, <3>1, <4>2 DEF Shows, DueWritten
    <3> QED
      BY <1>t, <2>1, <2>2, <3>1 DEF SeenShowsDue, Shows, At
  <2> QED
    BY <2>3, <2>4, <2>5, <2>6, <2>7 DEF ShowInv
<1>11. ASSUME NEW c \in Calls, ShutdownRemove(c) PROVE ShowInv'
  <2>0. calls[c].key \in Keys /\ calls[c].status # "results"
    BY <1>11, <1>t DEF KeysUsed, ShutdownRemove, At
  <2>1. /\ calls'[c].key = calls[c].key /\ calls'[c].due = calls[c].due
        /\ calls'[c].at = "report" /\ calls'[c].status # "results"
        /\ \A d \in Calls \ {c} : calls'[d] = calls[d]
    BY <1>11, <1>t, <2>0, ShutdownRemoveCall DEF Becomes, IsCall
  <2>2. UNCHANGED <<dir, view, busy, log, written>>
    BY <1>11 DEF ShutdownRemove, tableVars, mockVars
  <2>3. WrittenBefore'
    BY <1>t, <1>l, <2>1, <2>2 DEF WrittenBefore
  <2>4. FileShows'
    BY <1>t, <1>l, <2>1, <2>2 DEF FileShows, NoDirNoView, Shows, Standing,
       WrittenBefore, Absent
  <2>5. NoDirNoView'
    BY <1>t, <1>l, <2>1, <2>2 DEF NoDirNoView, Standing
  <2>6. DueWritten'
    BY <1>t, <2>1, <2>2 DEF DueWritten, Due
  <2>7. SeenShowsDue'
    BY <1>t, <2>1, <2>2 DEF SeenShowsDue, Shows, KeysUsed, At
  <2> QED
    BY <2>3, <2>4, <2>5, <2>6, <2>7 DEF ShowInv
<1>12. ASSUME NEW c \in Calls, ShutdownRead(c) PROVE ShowInv'
  <2>0. calls[c].key \in Keys /\ calls[c].status # "results"
    BY <1>12, <1>t DEF KeysUsed, ShutdownRead, At
  <2>1. /\ calls'[c].key = calls[c].key /\ calls'[c].due = calls[c].due
        /\ calls'[c].at = "clean" /\ calls'[c].kind = calls[c].kind
        /\ calls[c].kind # "none" =>
             calls'[c].seen = Results(calls[c].key, calls[c].kind)
        /\ \A d \in Calls \ {c} : calls'[d] = calls[d]
    BY <1>12, <1>t, <2>0, ShutdownReadCall DEF Becomes, IsCall, Read
  <2>2. UNCHANGED <<dir, view, busy, log, written>>
    BY <1>12 DEF ShutdownRead, tableVars, mockVars
  <2>3. WrittenBefore'
    BY <1>t, <1>l, <2>1, <2>2 DEF WrittenBefore
  <2>4. FileShows'
    BY <1>t, <1>l, <2>1, <2>2 DEF FileShows, NoDirNoView, Shows, Standing,
       WrittenBefore, Absent
  <2>5. NoDirNoView'
    BY <1>t, <1>l, <2>1, <2>2 DEF NoDirNoView, Standing
  <2>6. DueWritten'
    BY <1>t, <2>1, <2>2 DEF DueWritten, Due
  <2>7. SeenShowsDue'
    <3>1. ASSUME calls[c].kind # "none",
                 calls[c].kind = "http" \/ calls'[c].seen # <<>>
          PROVE  Shows(calls'[c].seen, calls[c].key, calls[c].due)
      <4>1. calls[c].kind \in {"stdio", "http"}
        BY <1>t, <3>1 DEF TypeOK, Call, Kinds
      <4>2. Shows(Results(calls[c].key, calls[c].kind), calls[c].key,
                  1 .. written[calls[c].key])
        BY <1>t, <2>0, <2>1, <3>1, <4>1, ResultsShow
      <4> QED
        BY <1>t, <2>0, <2>1, <3>1, <4>2 DEF Shows, DueWritten
    <3> QED
      BY <1>t, <2>1, <2>2, <3>1 DEF SeenShowsDue, Shows, At
  <2> QED
    BY <2>3, <2>4, <2>5, <2>6, <2>7 DEF ShowInv
<1>13. ASSUME NEW c \in Calls, ShutdownClean(c) PROVE ShowInv'
  <2>0. calls[c].key \in Keys /\ calls[c].status # "results"
    BY <1>13, <1>t DEF KeysUsed, ShutdownClean, At
  <2>1. /\ calls'[c].key = calls[c].key /\ calls'[c].due = calls[c].due
        /\ calls[c].at \in {"clean", "remove"} /\ calls'[c].kind = calls[c].kind
        /\ calls'[c].seen = calls[c].seen
        /\ \A d \in Calls \ {c} : calls'[d] = calls[d]
    BY <1>13, <1>t, <2>0, ShutdownCleanCall DEF Becomes, IsCall
  <2>2. /\ view'[calls[c].key] \in {Absent, view[calls[c].key]}
        /\ \A j \in Keys \ {calls[c].key} : view'[j] = view[j]
        /\ UNCHANGED <<dir, busy, log, written>>
    BY <1>13, <1>t, <2>0 DEF ShutdownClean, tableVars, mockVars, TypeOK, Set
  <2>3. WrittenBefore'
    BY <1>t, <1>l, <2>1, <2>2 DEF WrittenBefore
  <2>4. FileShows'
    BY <1>t, <1>l, <2>1, <2>2 DEF FileShows, NoDirNoView, Shows, Standing,
       WrittenBefore, Absent
  <2>5. NoDirNoView'
    BY <1>t, <1>l, <2>1, <2>2 DEF NoDirNoView, Standing
  <2>6. DueWritten'
    BY <1>t, <2>1, <2>2 DEF DueWritten, Due
  <2>7. SeenShowsDue'
    BY <1>t, <2>1, <2>2 DEF SeenShowsDue, Shows, KeysUsed, At
  <2> QED
    BY <2>3, <2>4, <2>5, <2>6, <2>7 DEF ShowInv
<1>14. ASSUME NEW c \in Calls, ShutdownRemoveDir(c) PROVE ShowInv'
  <2>0. calls[c].key \in Keys /\ calls[c].status # "results"
    BY <1>14, <1>t DEF KeysUsed, ShutdownRemoveDir, At
  <2>1. /\ calls'[c].key = calls[c].key /\ calls'[c].due = calls[c].due
        /\ calls[c].at \in {"clean", "remove"} /\ calls'[c].kind = calls[c].kind
        /\ calls'[c].seen = calls[c].seen
        /\ \A d \in Calls \ {c} : calls'[d] = calls[d]
    BY <1>14, <1>t, <2>0, ReportCall DEF Becomes, IsCall, ShutdownRemoveDir, At
  <2>2. /\ view[calls[c].key] = Absent
        /\ \A j \in Keys \ {calls[c].key} : dir'[j] = dir[j]
        /\ UNCHANGED <<view, busy, log, written>>
    BY <1>14, <1>t, <2>0 DEF ShutdownRemoveDir, tableVars, mockVars, TypeOK, Set
  <2>3. WrittenBefore'
    BY <1>t, <1>l, <2>1, <2>2 DEF WrittenBefore
  <2>4. FileShows'
    BY <1>t, <1>l, <2>1, <2>2 DEF FileShows, NoDirNoView, Shows, Standing,
       WrittenBefore, Absent
  <2>5. NoDirNoView'
    BY <1>t, <1>l, <2>1, <2>2 DEF NoDirNoView, Standing
  <2>6. DueWritten'
    BY <1>t, <2>1, <2>2 DEF DueWritten, Due
  <2>7. SeenShowsDue'
    BY <1>t, <2>1, <2>2 DEF SeenShowsDue, Shows, KeysUsed, At
  <2> QED
    BY <2>3, <2>4, <2>5, <2>6, <2>7 DEF ShowInv
<1>15. ASSUME NEW c \in Calls, ShutdownGivesUp(c) PROVE ShowInv'
  <2>0. calls[c].key \in Keys /\ calls[c].status # "results"
    BY <1>15, <1>t DEF KeysUsed, ShutdownGivesUp, At
  <2>1. /\ calls'[c].key = calls[c].key /\ calls'[c].due = calls[c].due
        /\ calls[c].at \in {"clean", "remove"} /\ calls'[c].kind = calls[c].kind
        /\ calls'[c].seen = calls[c].seen
        /\ \A d \in Calls \ {c} : calls'[d] = calls[d]
    BY <1>15, <1>t, <2>0, ReportCall DEF Becomes, IsCall, ShutdownGivesUp, At
  <2>2. /\ dir'[calls[c].key] = "left"
        /\ \A j \in Keys \ {calls[c].key} : dir'[j] = dir[j]
        /\ UNCHANGED <<view, busy, log, written>>
    BY <1>15, <1>t, <2>0 DEF ShutdownGivesUp, tableVars, mockVars, TypeOK, Set
  <2>3. WrittenBefore'
    BY <1>t, <1>l, <2>1, <2>2 DEF WrittenBefore
  <2>4. FileShows'
    BY <1>t, <1>l, <2>1, <2>2 DEF FileShows, NoDirNoView, Shows, Standing,
       WrittenBefore, Absent
  <2>5. NoDirNoView'
    BY <1>t, <1>l, <2>1, <2>2 DEF NoDirNoView, Standing
  <2>6. DueWritten'
    BY <1>t, <2>1, <2>2 DEF DueWritten, Due
  <2>7. SeenShowsDue'
    BY <1>t, <2>1, <2>2 DEF SeenShowsDue, Shows, KeysUsed, At
  <2> QED
    BY <2>3, <2>4, <2>5, <2>6, <2>7 DEF ShowInv
<1>16. CASE UNCHANGED vars
  BY <1>t, <1>16 DEF vars, tableVars, mockVars, ShowInv, WrittenBefore, FileShows,
     NoDirNoView, Standing, DueWritten, SeenShowsDue, Shows, At
<1> QED
  BY <1>1, <1>2, <1>3, <1>4, <1>5, <1>6, <1>7, <1>8, <1>9, <1>10, <1>11, <1>12, <1>13,
     <1>14, <1>15, <1>16 DEF Next, Mock, Begin, Serve

(* Hence the invariant holds, ... *)
LEMMA Invariance == Spec => []IInv
<1>1. IInv /\ [Next]_vars => IInv'
  BY TypeStep, TableStep, ShowStep DEF IInv, TableInv
<1> QED
  BY <1>1, InitIInv, PTL DEF Spec

(* ... and with it, for any number of sessions, calls and results: the     *)
(* variables stay in their ranges; ...                                     *)
THEOREM TypeCorrect == Spec => []TypeOK
<1>1. IInv => TypeOK
  BY DEF IInv
<1> QED
  BY <1>1, Invariance, PTL

(* ... a session is handed to one shutdown at most; ... *)
THEOREM TakenOnce == Spec => []OneShutdownTakesSession
<1>1. IInv => OneShutdownTakesSession
  BY DEF IInv, TableInv
<1> QED
  BY <1>1, Invariance, PTL

(* ... the session a get reads stands until it is read; ... *)
THEOREM GetIsSafe == Spec => []GetReadsStandingSession
<1>1. IInv => GetReadsStandingSession
  BY DEF IInv, TableInv, GetReadsStandingSession, ReaderHolds, TableHasDir, KeysUsed, At
<1> QED
  BY <1>1, Invariance, PTL

(* ... a directory is left without a session only by a start that failed   *)
(* or by a shutdown that could not remove it; ...                          *)
THEOREM DirsOwned == Spec => []DirsAreOwned
<1>1. IInv => DirsAreOwned
  BY DEF IInv, TableInv, DirsAreOwned, Owned, Closing
<1> QED
  BY <1>1, Invariance, PTL

(* ... and an ok that hides a failure that was written and answered before *)
(* the call is about a stdio session, and lists nothing.                   *)
THEOREM OkIsEarned == Spec => []OkUnlessTorn
<1>1. IInv => OkUnlessTorn
  <2> SUFFICES ASSUME IInv, NEW c \in Calls, HidesFailure(c)
               PROVE  calls[c].kind = "stdio" /\ calls[c].seen = <<>>
    BY DEF OkUnlessTorn
  <2>1. /\ calls[c].status = "results" /\ calls[c].kind # "none"
        /\ AllClean(calls[c].seen)
    BY DEF HidesFailure, Found
  <2>2. PICK i \in calls[c].due : ~log[calls[c].key][i]
    BY DEF HidesFailure
  <2>3. calls[c].kind \in {"stdio", "http"}
    BY <2>1 DEF IInv, TypeOK, Call, Kinds
  <2>4. ASSUME calls[c].kind = "http" \/ calls[c].seen # <<>> PROVE FALSE
    <3>1. Shows(calls[c].seen, calls[c].key, calls[c].due)
      BY <2>1, <2>4 DEF IInv, ShowInv, SeenShowsDue
    <3>2. i \in DOMAIN calls[c].seen /\ calls[c].seen[i] = log[calls[c].key][i]
      BY <3>1 DEF Shows
    <3>3. calls[c].seen[i]
      BY <2>1, <3>2 DEF AllClean
    <3> QED
      BY <2>2, <3>2, <3>3
  <2> QED
    BY <2>3, <2>4
<1> QED
  BY <1>1, Invariance, PTL
=============================================================================
