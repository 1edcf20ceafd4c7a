------------------------ MODULE ConsumerTest_proofs ------------------------
(***************************************************************************)
(* Proofs about the mock process, for every set of requests, every pact    *)
(* and both values of Live and Hurried unless a theorem says otherwise;    *)
(* then what a consumer test promises, for every pact, every set of        *)
(* requests and both transports: the mock it runs keeps its promises,      *)
(* whole pacts are served, and the verdict is about what the test heard.   *)
(***************************************************************************)
EXTENDS ConsumerTest, InductionLemmas, SequenceTheorems

-----------------------------------------------------------------------------
(* Two facts about sequences: appending to a sequence keeps its prefixes,  *)
(* and a sequence without repetition stays one when it gets a new element. *)
LEMMA PrefixOfAppend ==
  ASSUME NEW S, NEW s \in Seq(S), NEW t \in Seq(S), NEW e \in S,
         IsPrefix(s, t)
  PROVE  IsPrefix(s, Append(t, e))
<1>1. /\ Append(t, e) \in Seq(S)
      /\ Len(Append(t, e)) = Len(t) + 1
      /\ \A i \in 1..Len(t) : Append(t, e)[i] = t[i]
  BY AppendProperties
<1>2. Len(s) \in Nat /\ Len(t) \in Nat /\ Len(s) <= Len(t)
  BY LenProperties DEF IsPrefix
<1>3. SubSeq(Append(t, e), 1, Len(s)) = SubSeq(t, 1, Len(s))
  BY <1>1, <1>2
<1> QED BY <1>1, <1>2, <1>3 DEF IsPrefix

(* Every sequence is a prefix of itself.                                   *)
LEMMA PrefixOfItself ==
  ASSUME NEW S, NEW s \in Seq(S)
  PROVE  IsPrefix(s, s)
BY LenProperties DEF IsPrefix

(* Appending adds the new element to the range, and nothing else.          *)
LEMMA RangeOfAppend ==
  ASSUME NEW S, NEW s \in Seq(S), NEW e \in S
  PROVE  Range(Append(s, e)) = Range(s) \cup {e}
<1>1. /\ Append(s, e) \in Seq(S)
      /\ Len(Append(s, e)) = Len(s) + 1
      /\ \A i \in 1..Len(s) : Append(s, e)[i] = s[i]
      /\ Append(s, e)[Len(s) + 1] = e
  BY AppendProperties
<1>2. DOMAIN s = 1..Len(s) /\ DOMAIN Append(s, e) = 1..(Len(s) + 1)
  BY <1>1, LenProperties
<1> QED BY <1>1, <1>2, LenProperties DEF Range

-----------------------------------------------------------------------------
(* The candidates of a request have a first one, and some of them a last.  *)
LEMMA CandidatesOrdered ==
  ASSUME NEW incoming, NEW S \in SUBSET Candidates(incoming), S # {}
  PROVE  /\ S \in SUBSET Nat
         /\ Min(S) \in S /\ \A i \in S : Min(S) <= i
         /\ Max(S) \in S /\ \A i \in S : i <= Max(S)
<1>1. /\ Len(Interactions) \in Nat
      /\ \A i \in S : i \in Nat /\ i <= Len(Interactions)
  BY InteractionsAssumption DEF Candidates
<1>2. S \in SUBSET Nat  BY <1>1
<1>3. \E m \in S : \A i \in S : m <= i  BY <1>2, LeastNatural
<1>4. \E m \in S : \A i \in S : i <= m  BY <1>1, <1>2, GreatestNatural
<1>5. Min(S) \in S /\ \A i \in S : Min(S) <= i  BY <1>3 DEF Min
<1>6. \E m \in S : \A i \in S : m >= i  BY <1>2, <1>4
<1>7. Max(S) \in S /\ \A i \in S : Max(S) >= i  BY <1>6 DEF Max
<1>8. \A i \in S : i <= Max(S)  BY <1>2, <1>7
<1> QED  BY <1>2, <1>5, <1>7, <1>8

(* A tools/call that nothing matches: the candidate that is reported has a *)
(* miss other than its name, or none has.                                  *)
LEMMA NamedToolReported ==
  ASSUME NEW incoming, incoming.operation = "tools/call", RecordOf(incoming).error
  PROVE  \/ RecordOf(incoming).mismatches \ {NamePath} # {}
         \/ \A i \in Candidates(incoming) : MissesOf(i, incoming) = {NamePath}
<1> DEFINE C == Candidates(incoming)
           replaces == {i \in C : MissesOf(i, incoming) \ {NamePath} # {}}
           m == Max({Min(C)} \cup replaces)
<1> SUFFICES ASSUME NEW c \in C, MissesOf(c, incoming) # {NamePath}
             PROVE  RecordOf(incoming).mismatches \ {NamePath} # {}
  OBVIOUS
<1>1. Hits(incoming) = {}
  BY DEF RecordOf, CleanResult, MockResult
<1>2. RecordOf(incoming).mismatches = ReportedMisses(incoming)
  BY <1>1 DEF RecordOf, MockResult, ListLike
<1>3. ReportedMisses(incoming) = MissesOf(m, incoming)
  BY DEF ReportedMisses, Reported
<1>4. c \in replaces
  <2>1. MissesOf(c, incoming) # {}  BY <1>1 DEF Hits
  <2> QED  BY <2>1
<1>5. Min(C) \in C /\ Min(C) <= c
  BY CandidatesOrdered
<1>6. m \in {Min(C)} \cup replaces /\ c <= m /\ m \in Nat /\ c \in Nat /\ Min(C) \in Nat
  <2>1. {Min(C)} \cup replaces \in SUBSET C  BY <1>5
  <2> HIDE DEF replaces, C
  <2> QED  BY <1>4, <2>1, CandidatesOrdered DEF C
<1>7. m \in replaces
  <2>1. CASE m = Min(C)
    <3>1. m = c  BY <1>5, <1>6, <2>1
    <3> QED  BY <1>4, <3>1
  <2> QED  BY <1>6, <2>1
<1> QED  BY <1>2, <1>3, <1>7

(* A call that matches nothing is reported with the mismatches of an       *)
(* interaction for the tool it named, if the pact has one.                 *)
THEOREM NamedToolIsReported == Spec => []ReportsNamedTool
<1>1. ReportsNamedTool
  BY NamedToolReported DEF ReportsNamedTool
<1> QED  BY <1>1, PTL

-----------------------------------------------------------------------------
(* Type correctness. *)
LEMMA InitType == Init => TypeOK
BY DEF Init, TypeOK, Stages, Phases, Files, Absent

-----------------------------------------------------------------------------
(* The inductive invariant behind every safety property of the process.    *)
(* The mutex separates the handlers; what is on the list is what was       *)
(* handled, once each; and the file agrees with the list as far as the     *)
(* step of the handler that holds the mutex allows.                        *)
ListAgrees ==
  /\ RecordedOnce
  /\ lock # NoOne => Len(results) > 0

BeforeFinalFlush == phase \in {"serving", "leaving", "flushing"}

FileAgrees ==
  BeforeFinalFlush /\ Live =>
    /\ lock = NoOne /\ shown = Len(results) =>
         file = IF results = <<>> THEN Absent ELSE Json(results)
    /\ lock # NoOne => shown < Len(results)
    /\ \A r \in Requests : pc[r] = "truncated" => file = Empty

Pasts == FileIsAPast /\ IsPrefix(snapshot, results)

Inv == TypeOK /\ MutexHeld /\ ListAgrees /\ FileAgrees /\ Pasts

(* The invariant holds of the process as it starts.                        *)
LEMMA InitInv == Init => Inv
<1> SUFFICES ASSUME Init PROVE Inv
  OBVIOUS
<1>1. TypeOK
  BY InitType
<1>2. MutexHeld
  BY NoOneAssumption DEF Init, MutexHeld
<1>3. ListAgrees
  BY DEF Init, ListAgrees, RecordedOnce, Handled, Range
<1>4. FileAgrees
  BY DEF Init, FileAgrees, Absent
<1>5. Pasts
  BY PrefixOfItself, EmptySeq DEF Init, Pasts, FileIsAPast, Absent, IsPrefix
<1> QED BY <1>1, <1>2, <1>3, <1>4, <1>5 DEF Inv

(* No step of the process takes a variable out of its range.               *)
LEMMA TypeStep == TypeOK /\ Pasts /\ [Next]_vars => TypeOK'
<1> SUFFICES ASSUME TypeOK, Pasts, [Next]_vars PROVE TypeOK'
  OBVIOUS
<1> USE DEF TypeOK, Stages, Phases, Files, Move, MainMove, handlerVars,
            mainVars, fileVars, Empty, Json, Corrupt, WriteOver
<1>w. ASSUME NEW t \in Seq(Requests) PROVE WriteOver(file, t) \cup WriteFailed(file) \subseteq Files
  <2>1. Corrupt \in Files /\ Json(t) \in Files  OBVIOUS
  <2> HIDE DEF Corrupt, Json, Files
  <2> QED  BY <2>1 DEF WriteFailed
<1>1. ASSUME NEW r \in Requests, Send(r) PROVE TypeOK'
  BY <1>1 DEF Send
<1>2. ASSUME NEW r \in Requests, Push(r) PROVE TypeOK'
  <2>1. results' \in Seq(Requests)
    BY <1>2, AppendProperties DEF Push
  <2> QED BY <1>2, <2>1 DEF Push
<1>3. ASSUME NEW r \in Requests, Truncate(r) PROVE TypeOK'
  BY <1>3 DEF Truncate
<1>4. ASSUME NEW r \in Requests, Flush(r) PROVE TypeOK'
  <2>1. file' \in Files  BY <1>4, <1>w DEF Flush
  <2> HIDE DEF Files, WriteOver
  <2> QED  BY <1>4, <2>1 DEF Flush
<1>4a. ASSUME NEW r \in Requests, TruncateFails(r) PROVE TypeOK'
  BY <1>4a DEF TruncateFails
<1>4b. ASSUME NEW r \in Requests, FlushFails(r) PROVE TypeOK'
  <2>1. file' \in Files  BY <1>4b, <1>w DEF FlushFails
  <2> HIDE DEF Files, WriteOver
  <2> QED  BY <1>4b, <2>1 DEF FlushFails
<1>5. ASSUME NEW r \in Requests, Answer(r) PROVE TypeOK'
  BY <1>5 DEF Answer
<1>6. CASE ClientLeaves
  BY <1>6 DEF ClientLeaves
<1>7. CASE Snapshot
  BY <1>7 DEF Snapshot
<1>8. CASE FinalTruncate
  BY <1>8 DEF FinalTruncate
<1>9. CASE FinalWrite
  <2>1. file' \in Files  BY <1>9, <1>w DEF FinalWrite
  <2> HIDE DEF Files, WriteOver
  <2>2. Len(snapshot) \in Nat /\ Len(snapshot) <= Len(results)
    BY LenProperties DEF Pasts, IsPrefix
  <2> QED  BY <1>9, <2>1, <2>2 DEF FinalWrite
<1>9a. CASE FinalFlushFails
  <2>1. file' \in Files  BY <1>9a, <1>w DEF FinalFlushFails
  <2> HIDE DEF Files, WriteOver
  <2> QED  BY <1>9a, <2>1 DEF FinalFlushFails
<1>10. CASE Exit
  BY <1>10 DEF Exit
<1>11. CASE Kill
  BY <1>11 DEF Kill
<1>12. CASE UNCHANGED vars
  BY <1>12 DEF vars
<1> QED BY <1>1, <1>2, <1>3, <1>4, <1>4a, <1>4b, <1>5, <1>6, <1>7, <1>8, <1>9, <1>9a, <1>10,
           <1>11, <1>12 DEF Next, Handler, WriteResults, Main, FinalFlush

(* The results mutex: push takes it, the end of the flush gives it back.   *)
LEMMA MutexStep == Inv /\ [Next]_vars => MutexHeld'
<1> SUFFICES ASSUME Inv, [Next]_vars PROVE MutexHeld'
  OBVIOUS
<1> USE NoOneAssumption, LiveAssumption
    DEF Inv, TypeOK, Stages, MutexHeld, Move, MainMove, handlerVars, fileVars, mainVars
<1>1. ASSUME NEW r \in Requests, Send(r) PROVE MutexHeld'
  BY <1>1 DEF Send
<1>2. ASSUME NEW r \in Requests, Push(r) PROVE MutexHeld'
  BY <1>2 DEF Push
<1>3. ASSUME NEW r \in Requests, Truncate(r) PROVE MutexHeld'
  BY <1>3 DEF Truncate
<1>4. ASSUME NEW r \in Requests, Flush(r) PROVE MutexHeld'
  BY <1>4 DEF Flush
<1>4a. ASSUME NEW r \in Requests, TruncateFails(r) PROVE MutexHeld'
  BY <1>4a DEF TruncateFails
<1>4b. ASSUME NEW r \in Requests, FlushFails(r) PROVE MutexHeld'
  BY <1>4b DEF FlushFails, WriteFailed
<1>5. ASSUME NEW r \in Requests, Answer(r) PROVE MutexHeld'
  BY <1>5 DEF Answer
<1>6. CASE ClientLeaves
  BY <1>6 DEF ClientLeaves
<1>7. CASE Snapshot
  BY <1>7 DEF Snapshot
<1>8. CASE FinalTruncate
  BY <1>8 DEF FinalTruncate
<1>9. CASE FinalWrite
  BY <1>9 DEF FinalWrite
<1>9a. CASE FinalFlushFails
  BY <1>9a DEF FinalFlushFails, WriteFailed
<1>10. CASE Exit
  BY <1>10 DEF Exit
<1>11. CASE Kill
  BY <1>11 DEF Kill
<1>12. CASE UNCHANGED vars
  BY <1>12 DEF vars
<1> QED BY <1>1, <1>2, <1>3, <1>4, <1>4a, <1>4b, <1>5, <1>6, <1>7, <1>8, <1>9, <1>9a, <1>10,
           <1>11, <1>12 DEF Next, Handler, WriteResults, Main, FinalFlush

(* The list: push is the only step that adds to it, and adds what had not  *)
(* been handled.                                                           *)
LEMMA ListStep == Inv /\ [Next]_vars => ListAgrees'
<1> SUFFICES ASSUME Inv, [Next]_vars PROVE ListAgrees'
  OBVIOUS
<1> USE DEF Inv, TypeOK, Stages, ListAgrees, RecordedOnce, Handled, Move,
            MainMove, handlerVars, fileVars, mainVars
<1>1. ASSUME NEW r \in Requests, Send(r) PROVE ListAgrees'
  BY <1>1 DEF Send
<1>2. ASSUME NEW r \in Requests, Push(r) PROVE ListAgrees'
  <2>1. /\ results' \in Seq(Requests)
        /\ Len(results') = Len(results) + 1
        /\ \A i \in 1..Len(results) : results'[i] = results[i]
        /\ results'[Len(results) + 1] = r
    BY <1>2, AppendProperties DEF Push
  <2>2. Range(results') = Range(results) \cup {r}
    BY <1>2, RangeOfAppend DEF Push
  <2>3. Len(results) \in Nat /\ DOMAIN results = 1..Len(results)
        /\ DOMAIN results' = 1..(Len(results) + 1)
    BY <2>1, LenProperties
  <2>4. r \notin Range(results)
    BY <1>2 DEF Push
  <2>5. \A i \in DOMAIN results : results[i] # r
    BY <2>4 DEF Range
  <2>6. ASSUME NEW i \in DOMAIN results', NEW j \in DOMAIN results',
               results'[i] = results'[j]
        PROVE  i = j
    BY <2>1, <2>3, <2>5, <2>6
  <2>7. Handled' = Handled \cup {r}
    BY <1>2 DEF Push
  <2> QED BY <2>1, <2>2, <2>3, <2>6, <2>7
<1>3. ASSUME NEW r \in Requests, Truncate(r) PROVE ListAgrees'
  BY <1>3 DEF Truncate
<1>4. ASSUME NEW r \in Requests, Flush(r) PROVE ListAgrees'
  BY <1>4 DEF Flush
<1>4a. ASSUME NEW r \in Requests, TruncateFails(r) PROVE ListAgrees'
  BY <1>4a DEF TruncateFails
<1>4b. ASSUME NEW r \in Requests, FlushFails(r) PROVE ListAgrees'
  BY <1>4b DEF FlushFails, WriteFailed
<1>5. ASSUME NEW r \in Requests, Answer(r) PROVE ListAgrees'
  BY <1>5 DEF Answer
<1>6. CASE ClientLeaves
  BY <1>6 DEF ClientLeaves
<1>7. CASE Snapshot
  BY <1>7 DEF Snapshot
<1>8. CASE FinalTruncate
  BY <1>8 DEF FinalTruncate
<1>9. CASE FinalWrite
  BY <1>9 DEF FinalWrite
<1>9a. CASE FinalFlushFails
  BY <1>9a DEF FinalFlushFails, WriteFailed
<1>10. CASE Exit
  BY <1>10 DEF Exit
<1>11. CASE Kill
  BY <1>11 DEF Kill
<1>12. CASE UNCHANGED vars
  BY <1>12 DEF vars
<1> QED BY <1>1, <1>2, <1>3, <1>4, <1>4a, <1>4b, <1>5, <1>6, <1>7, <1>8, <1>9, <1>9a, <1>10,
           <1>11, <1>12 DEF Next, Handler, WriteResults, Main, FinalFlush

(* The file: the handler that holds the mutex empties it and then writes   *)
(* the list, to which nothing can be added meanwhile.                      *)
LEMMA FileStep == Inv /\ [Next]_vars => FileAgrees'
<1> SUFFICES ASSUME Inv, [Next]_vars PROVE FileAgrees'
  OBVIOUS
<1> USE NoOneAssumption, LiveAssumption
    DEF Inv, TypeOK, Stages, Phases, MutexHeld, FileAgrees, BeforeFinalFlush,
        Move, MainMove, handlerVars, fileVars, mainVars
<1>1. ASSUME NEW r \in Requests, Send(r) PROVE FileAgrees'
  BY <1>1 DEF Send
<1>2. ASSUME NEW r \in Requests, Push(r) PROVE FileAgrees'
  BY <1>2 DEF Push
<1>3. ASSUME NEW r \in Requests, Truncate(r) PROVE FileAgrees'
  BY <1>3 DEF Truncate
<1>4. ASSUME NEW r \in Requests, Flush(r) PROVE FileAgrees'
  <2>1. lock = r /\ results # <<>>
    BY <1>4, EmptySeq DEF Flush, ListAgrees
  <2>2. BeforeFinalFlush /\ Live => file' = Json(results)
    BY <1>4 DEF Flush, WriteOver, Empty
  <2> QED BY <1>4, <2>1, <2>2 DEF Flush
<1>4a. ASSUME NEW r \in Requests, TruncateFails(r) PROVE FileAgrees'
  BY <1>4a DEF TruncateFails
<1>4b. ASSUME NEW r \in Requests, FlushFails(r) PROVE FileAgrees'
  BY <1>4b DEF FlushFails, WriteFailed
<1>5. ASSUME NEW r \in Requests, Answer(r) PROVE FileAgrees'
  BY <1>5 DEF Answer
<1>6. CASE ClientLeaves
  BY <1>6 DEF ClientLeaves
<1>7. CASE Snapshot
  BY <1>7 DEF Snapshot
<1>8. CASE FinalTruncate
  BY <1>8 DEF FinalTruncate
<1>9. CASE FinalWrite
  BY <1>9 DEF FinalWrite
<1>9a. CASE FinalFlushFails
  BY <1>9a DEF FinalFlushFails, WriteFailed
<1>10. CASE Exit
  BY <1>10 DEF Exit
<1>11. CASE Kill
  BY <1>11 DEF Kill
<1>12. CASE UNCHANGED vars
  BY <1>12 DEF vars
<1> QED BY <1>1, <1>2, <1>3, <1>4, <1>4a, <1>4b, <1>5, <1>6, <1>7, <1>8, <1>9, <1>9a, <1>10,
           <1>11, <1>12 DEF Next, Handler, WriteResults, Main, FinalFlush

(* The list only grows, so what was copied from it or written of it stays  *)
(* one of its prefixes.                                                    *)
LEMMA PastsStep == Inv /\ [Next]_vars => Pasts'
<1> SUFFICES ASSUME Inv, [Next]_vars PROVE Pasts'
  OBVIOUS
<1> USE PrefixOfItself
    DEF Inv, TypeOK, Files, Pasts, FileIsAPast, Move, MainMove, handlerVars,
        fileVars, mainVars
<1>1. ASSUME NEW r \in Requests, Send(r) PROVE Pasts'
  BY <1>1 DEF Send
<1>2. ASSUME NEW r \in Requests, Push(r) PROVE Pasts'
  <2>1. IsPrefix(snapshot, Append(results, r))
    BY PrefixOfAppend
  <2>2. file.kind = "json" => IsPrefix(file.seq, Append(results, r))
    BY PrefixOfAppend
  <2> QED BY <1>2, <2>1, <2>2 DEF Push
<1>3. ASSUME NEW r \in Requests, Truncate(r) PROVE Pasts'
  BY <1>3 DEF Truncate, Empty
<1>4. ASSUME NEW r \in Requests, Flush(r) PROVE Pasts'
  BY <1>4 DEF Flush, WriteOver, Corrupt, Json
<1>4a. ASSUME NEW r \in Requests, TruncateFails(r) PROVE Pasts'
  BY <1>4a DEF TruncateFails
<1>4b. ASSUME NEW r \in Requests, FlushFails(r) PROVE Pasts'
  BY <1>4b DEF FlushFails, WriteFailed, Corrupt
<1>5. ASSUME NEW r \in Requests, Answer(r) PROVE Pasts'
  BY <1>5 DEF Answer
<1>6. CASE ClientLeaves
  BY <1>6 DEF ClientLeaves
<1>7. CASE Snapshot
  BY <1>7 DEF Snapshot
<1>8. CASE FinalTruncate
  BY <1>8 DEF FinalTruncate, Empty
<1>9. CASE FinalWrite
  BY <1>9 DEF FinalWrite, WriteOver, Corrupt, Json
<1>9a. CASE FinalFlushFails
  BY <1>9a DEF FinalFlushFails, WriteFailed, Corrupt
<1>10. CASE Exit
  BY <1>10 DEF Exit
<1>11. CASE Kill
  BY <1>11 DEF Kill
<1>12. CASE UNCHANGED vars
  BY <1>12 DEF vars
<1> QED BY <1>1, <1>2, <1>3, <1>4, <1>4a, <1>4b, <1>5, <1>6, <1>7, <1>8, <1>9, <1>9a, <1>10,
           <1>11, <1>12 DEF Next, Handler, WriteResults, Main, FinalFlush

(* Mutex, list and file agree in every behaviour of the process, however   *)
(* its handlers, the final flush and a kill interleave.                    *)
THEOREM Invariance == Spec => []Inv
<1>1. Inv /\ [Next]_vars => Inv'
  BY TypeStep, MutexStep, ListStep, FileStep, PastsStep DEF Inv
<1> QED BY InitInv, <1>1, PTL DEF Spec

(* Every variable stays in its range, in every behaviour of the process,   *)
(* and no more is shown than is on record.                                 *)
THEOREM TypeCorrect == Spec => []TypeOK
BY Invariance, PTL DEF Inv

(* The mutex admits one writing handler at a time. *)
THEOREM MutualExclusion == Spec => []MutexHeld
BY Invariance, PTL DEF Inv

(* Every request the process answered is on record, once, and nothing      *)
(* else is.                                                                *)
THEOREM OnRecord == Spec => []RecordedOnce
BY Invariance, PTL DEF Inv, ListAgrees

(* Until the final flush, the file is complete whenever the mutex is free. *)
THEOREM Flushed == Spec => []FlushedWhenFree
<1>1. Inv => FlushedWhenFree
  BY DEF Inv, FileAgrees, BeforeFinalFlush, FlushedWhenFree
<1> QED BY <1>1, Invariance, PTL

(* A file that parses is a prefix of the record, final flush included. *)
THEOREM FilePast == Spec => []FileIsAPast
BY Invariance, PTL DEF Inv, Pasts

-----------------------------------------------------------------------------
(* When clients wait for their answers before they leave, no handler runs  *)
(* during the final flush: the copy it writes is the whole list.           *)
HolderIsLast == lock # NoOne => results[Len(results)] = lock

QuietFlush ==
  /\ phase # "serving" => Quiet
  /\ phase \in {"flushing", "writing"} => snapshot = results
  /\ phase = "writing" => file = Empty
  /\ phase \in {"exiting", "exited"} /\ exitCode = 0 => file = Json(results)

PatientInv == Inv /\ HolderIsLast /\ QuietFlush

(* The result whose handler holds the mutex is the last on the list.       *)
LEMMA HolderStep == Inv /\ HolderIsLast /\ [Next]_vars => HolderIsLast'
<1> SUFFICES ASSUME Inv, HolderIsLast, [Next]_vars PROVE HolderIsLast'
  OBVIOUS
<1> USE NoOneAssumption, LiveAssumption
    DEF Inv, TypeOK, HolderIsLast, Move, MainMove, handlerVars, fileVars, mainVars
<1>1. ASSUME NEW r \in Requests, Send(r) PROVE HolderIsLast'
  BY <1>1 DEF Send
<1>2. ASSUME NEW r \in Requests, Push(r) PROVE HolderIsLast'
  <2>1. /\ Len(results') = Len(results) + 1
        /\ results'[Len(results) + 1] = r
    BY <1>2, AppendProperties DEF Push
  <2> QED BY <1>2, <2>1 DEF Push
<1>3. ASSUME NEW r \in Requests, Truncate(r) PROVE HolderIsLast'
  BY <1>3 DEF Truncate
<1>4. ASSUME NEW r \in Requests, Flush(r) PROVE HolderIsLast'
  BY <1>4 DEF Flush
<1>4a. ASSUME NEW r \in Requests, TruncateFails(r) PROVE HolderIsLast'
  BY <1>4a DEF TruncateFails
<1>4b. ASSUME NEW r \in Requests, FlushFails(r) PROVE HolderIsLast'
  BY <1>4b DEF FlushFails, WriteFailed
<1>5. ASSUME NEW r \in Requests, Answer(r) PROVE HolderIsLast'
  BY <1>5 DEF Answer
<1>6. CASE ClientLeaves
  BY <1>6 DEF ClientLeaves
<1>7. CASE Snapshot
  BY <1>7 DEF Snapshot
<1>8. CASE FinalTruncate
  BY <1>8 DEF FinalTruncate
<1>9. CASE FinalWrite
  BY <1>9 DEF FinalWrite
<1>9a. CASE FinalFlushFails
  BY <1>9a DEF FinalFlushFails, WriteFailed
<1>10. CASE Exit
  BY <1>10 DEF Exit
<1>11. CASE Kill
  BY <1>11 DEF Kill
<1>12. CASE UNCHANGED vars
  BY <1>12 DEF vars
<1> QED BY <1>1, <1>2, <1>3, <1>4, <1>4a, <1>4b, <1>5, <1>6, <1>7, <1>8, <1>9, <1>9a, <1>10,
           <1>11, <1>12 DEF Next, Handler, WriteResults, Main, FinalFlush

(* Once a patient client has left, no handler moves: the final flush is    *)
(* alone with the list and the file.                                       *)
LEMMA QuietStep ==
  ASSUME Live, ~Hurried, PatientInv, [Next]_vars
  PROVE  QuietFlush'
<1> USE NoOneAssumption
    DEF PatientInv, Inv, TypeOK, Stages, Phases, MutexHeld, QuietFlush, Quiet,
        Running, Move, MainMove, handlerVars, fileVars, mainVars
<1>1. ASSUME NEW r \in Requests, Send(r) PROVE QuietFlush'
  BY <1>1 DEF Send
<1>2. ASSUME NEW r \in Requests, Push(r) PROVE QuietFlush'
  BY <1>2 DEF Push
<1>3. ASSUME NEW r \in Requests, Truncate(r) PROVE QuietFlush'
  BY <1>3 DEF Truncate
<1>4. ASSUME NEW r \in Requests, Flush(r) PROVE QuietFlush'
  BY <1>4 DEF Flush
<1>4a. ASSUME NEW r \in Requests, TruncateFails(r) PROVE QuietFlush'
  BY <1>4a DEF TruncateFails
<1>4b. ASSUME NEW r \in Requests, FlushFails(r) PROVE QuietFlush'
  BY <1>4b DEF FlushFails, WriteFailed
<1>5. ASSUME NEW r \in Requests, Answer(r) PROVE QuietFlush'
  BY <1>5 DEF Answer
<1>6. CASE ClientLeaves
  BY <1>6 DEF ClientLeaves
<1>7. CASE Snapshot
  BY <1>7 DEF Snapshot
<1>8. CASE FinalTruncate
  BY <1>8 DEF FinalTruncate
<1>9. CASE FinalWrite
  BY <1>9 DEF FinalWrite, WriteOver, Empty
<1>9a. CASE FinalFlushFails
  BY <1>9a DEF FinalFlushFails, WriteFailed
<1>10. CASE Exit
  BY <1>10 DEF Exit
<1>11. CASE Kill
  BY <1>11 DEF Kill
<1>12. CASE UNCHANGED vars
  BY <1>12 DEF vars
<1> QED BY <1>1, <1>2, <1>3, <1>4, <1>4a, <1>4b, <1>5, <1>6, <1>7, <1>8, <1>9, <1>9a, <1>10,
           <1>11, <1>12 DEF Next, Handler, WriteResults, Main, FinalFlush

(* The strengthened invariant holds when clients are patient.              *)
LEMMA PatientInvariance ==
  ASSUME Live, ~Hurried
  PROVE  Spec => []PatientInv
<1>1. Init => PatientInv
  <2>1. Init => HolderIsLast /\ QuietFlush
    BY DEF Init, HolderIsLast, QuietFlush
  <2> QED BY <2>1, InitInv DEF PatientInv
<1>2. PatientInv /\ [Next]_vars => PatientInv'
  <2> SUFFICES ASSUME PatientInv, [Next]_vars PROVE PatientInv'
    OBVIOUS
  <2>1. Inv'
    BY TypeStep, MutexStep, ListStep, FileStep, PastsStep
       DEF PatientInv, Inv
  <2>2. HolderIsLast'
    BY HolderStep DEF PatientInv
  <2>3. QuietFlush'
    BY QuietStep
  <2> QED BY <2>1, <2>2, <2>3 DEF PatientInv
<1> QED BY <1>1, <1>2, PTL DEF Spec

(* A process whose clients wait leaves the complete record behind. *)
THEOREM PatientExit ==
  ASSUME Live, ~Hurried
  PROVE  Spec => []ExitedComplete
<1>1. PatientInv => ExitedComplete
  BY DEF PatientInv, QuietFlush, ExitedComplete
<1> QED BY <1>1, PatientInvariance, PTL

-----------------------------------------------------------------------------
(* The process implements the sink.  Told and Ended are what the instance  *)
(* substitutes for the sink's told and ended.                              *)
Ended == IF lock = NoOne THEN Len(results) ELSE Len(results) - 1
Told == {r \in Requests : pc[r] = "answered"}

(* The process starts with what the sink starts with.                      *)
LEMMA SinkInit == Init => Sink!Init
BY EmptySeq DEF Init, Sink!Init, Absent, Sink!Absent

(* Every step of a patient process is a step of the sink or leaves it      *)
(* alone: push records, truncate hides, the end of a flush shows, or       *)
(* fails, and an answer tells.                                             *)
LEMMA SinkStep ==
  ASSUME Live, ~Hurried, PatientInv, [Next]_vars
  PROVE  [Sink!Next]_(Sink!vars)
<1> USE NoOneAssumption, LenProperties
    DEF PatientInv, Inv, TypeOK, Stages, MutexHeld, Move, MainMove,
        handlerVars, fileVars, mainVars
<1> DEFINE Stutter == /\ results' = results /\ file' = file
                      /\ Ended' = Ended /\ Told' = Told
<1>stutter. Stutter => [Sink!Next]_(Sink!vars)
  BY DEF Sink!vars, Ended, Told
<1>1. ASSUME NEW r \in Requests, Send(r) PROVE Stutter
  BY <1>1 DEF Send, Ended, Told
<1>2. ASSUME NEW r \in Requests, Push(r) PROVE Sink!Record(r)
  <2>1. r \notin {results[i] : i \in DOMAIN results}
    BY <1>2 DEF Push, ListAgrees, RecordedOnce, Handled, Range
  <2>2. Len(results') = Len(results) + 1
    BY <1>2, AppendProperties DEF Push
  <2>3. Ended' = Ended /\ Told' = Told
    BY <1>2, <2>2 DEF Push, Ended, Told
  <2> QED BY <1>2, <2>1, <2>3 DEF Push, Sink!Record, Ended, Told
<1>3. ASSUME NEW r \in Requests, Truncate(r) PROVE Sink!Hide
  <2>1. Ended' = Ended /\ Told' = Told
    BY <1>3 DEF Truncate, Ended, Told
  <2> QED BY <1>3, <2>1 DEF Truncate, Sink!Hide, Empty, Sink!Empty, Ended, Told
<1>4. ASSUME NEW r \in Requests, Flush(r) PROVE Sink!Show
  <2>1. phase = "serving" /\ file = Empty
    BY <1>4 DEF Flush, QuietFlush, Quiet, FileAgrees, BeforeFinalFlush
  <2>2. file' = Sink!Json(results)
    BY <1>4, <2>1 DEF Flush, WriteOver, Empty, Json, Sink!Json
  <2>3. Ended' = Len(results) /\ Told' = Told
    BY <1>4 DEF Flush, Ended, Told
  <2> QED BY <1>4, <2>2, <2>3 DEF Flush, Sink!Show, Ended, Told
<1>4a. ASSUME NEW r \in Requests, TruncateFails(r) PROVE Sink!Fail
  <2>1. Ended' = Len(results) /\ Told' = Told
    BY <1>4a DEF TruncateFails, Ended, Told
  <2> QED BY <1>4a, <2>1 DEF TruncateFails, Sink!Fail, Ended, Told
<1>4b. ASSUME NEW r \in Requests, FlushFails(r) PROVE Sink!Fail
  <2>1. Ended' = Len(results) /\ Told' = Told
    BY <1>4b DEF FlushFails, Ended, Told
  <2> QED BY <1>4b, <2>1
          DEF FlushFails, WriteFailed, Corrupt, Sink!Corrupt, Sink!Fail, Ended, Told
<1>5. ASSUME NEW r \in Requests, Answer(r) PROVE Sink!Tell(r)
  <2>1. \E i \in DOMAIN results : results[i] = r
    BY <1>5 DEF Answer, ListAgrees, RecordedOnce, Handled, Range
  <2>2. \E i \in 1..Ended : results[i] = r
    BY <1>5, <2>1 DEF Answer, Ended, HolderIsLast, ListAgrees
  <2>3. Told' = Told \cup {r} /\ Ended' = Ended
    BY <1>5 DEF Answer, Told, Ended
  <2> QED BY <1>5, <2>2, <2>3 DEF Answer, Sink!Tell, Ended, Told
<1>6. CASE ClientLeaves
  BY <1>6, <1>stutter DEF ClientLeaves, Ended, Told
<1>7. CASE Snapshot
  BY <1>7, <1>stutter DEF Snapshot, Ended, Told
<1>8. ASSUME FinalTruncate PROVE Sink!Hide
  <2>1. Ended' = Ended /\ Told' = Told
    BY <1>8 DEF FinalTruncate, Ended, Told
  <2> QED BY <1>8, <2>1
          DEF FinalTruncate, Sink!Hide, Empty, Sink!Empty, Ended, Told
<1>9. ASSUME FinalWrite PROVE Sink!Show
  <2>1. snapshot = results /\ file = Empty /\ lock = NoOne
    BY <1>9 DEF FinalWrite, QuietFlush, Quiet
  <2>2. file' = Sink!Json(results)
    BY <1>9, <2>1 DEF FinalWrite, WriteOver, Empty, Json, Sink!Json
  <2>3. Ended' = Len(results) /\ Told' = Told
    BY <1>9, <2>1 DEF FinalWrite, Ended, Told
  <2> QED BY <1>9, <2>2, <2>3 DEF FinalWrite, Sink!Show, Ended, Told
<1>9a. ASSUME FinalFlushFails PROVE Sink!Fail
  <2>1. lock = NoOne
    BY <1>9a DEF FinalFlushFails, QuietFlush, Quiet
  <2>2. Ended' = Len(results) /\ Told' = Told
    BY <1>9a, <2>1 DEF FinalFlushFails, Ended, Told
  <2> QED BY <1>9a, <2>2
          DEF FinalFlushFails, WriteFailed, Corrupt, Sink!Corrupt, Sink!Fail, Ended, Told
<1>10. CASE Exit
  BY <1>10, <1>stutter DEF Exit, Ended, Told
<1>11. CASE Kill
  BY <1>11, <1>stutter DEF Kill, Ended, Told
<1>12. CASE UNCHANGED vars
  BY <1>12, <1>stutter DEF vars, Ended, Told
<1> QED BY <1>stutter, <1>1, <1>2, <1>3, <1>4, <1>4a, <1>4b, <1>5, <1>6, <1>7, <1>8,
           <1>9, <1>9a,
           <1>10, <1>11, <1>12
        DEF Next, Handler, WriteResults, Main, FinalFlush, Sink!Next

(* A process with a results file whose clients wait for their answers      *)
(* keeps every promise of the sink.                                        *)
THEOREM ImplementsSink ==
  ASSUME Live, ~Hurried
  PROVE  Spec => SinkSpec
<1>1. PatientInv /\ [Next]_vars => [Sink!Next]_(Sink!vars)
  BY SinkStep
<1> QED BY <1>1, SinkInit, PatientInvariance, PTL DEF Spec, SinkSpec, Sink!Spec

-----------------------------------------------------------------------------
(* The consumer test that runs the mock process.                           *)

(* Every step of a test is a step of the mock process or leaves it alone.  *)
LEMMA MockStepOrStutter == [TestNext]_allVars => [Next]_vars
<1> SUFFICES ASSUME [TestNext]_allVars PROVE [Next]_vars
  OBVIOUS
<1>1. CASE Adapter
  <2>1. CASE CloseStdio
    BY <2>1 DEF CloseStdio, Next, Main
  <2>2. CASE EndStdin
    BY <2>2 DEF EndStdin, Next, Main
  <2> QED
    BY <1>1, <2>1, <2>2 DEF Adapter, Author, Stamp, SpawnHttp, Url, UrlTimeout, Connect,
       ClosedStdio, ExitEvent, AssertMockClean
<1>2. CASE TestEnds
  BY <1>2 DEF TestEnds
<1>3. CASE MockFlushes
  BY <1>3 DEF MockFlushes, Next, Main
<1>4. CASE MockKilled
  BY <1>4 DEF MockKilled, Next
<1>5. ASSUME NEW r \in Requests, Call(r) \/ Hear(r) \/ MockRuns(r) PROVE Next
  BY <1>5 DEF Call, Hear, MockRuns, Next, Handler
<1>6. CASE UNCHANGED allVars
  BY <1>6 DEF allVars
<1> QED
  BY <1>1, <1>2, <1>3, <1>4, <1>5, <1>6 DEF TestNext

(* A consumer test leaves the mock process the behaviour it has by itself, *)
(* so that all that is proved of MockProcess holds in it.                  *)
THEOREM MockUndisturbed == TestSpec => Spec
<1>1. TestInit => Init
  BY DEF TestInit
<1> QED
  BY <1>1, MockStepOrStutter, PTL DEF TestSpec, Spec

-----------------------------------------------------------------------------
(* The order of a test.  The mock is left only after the user's test, its  *)
(* pact is whole before it starts, and over http the results are judged    *)
(* when it has exited.                                                     *)
EarlySteps == {"authoring", "starting", "url", "testing"}
LateSteps == {"closed", "waiting", "asserting", "resolved", "rejected"}

Order ==
  /\ phase # "serving" => step \in LateSteps
  /\ step = "authoring" => ~started
  /\ started \/ step \notin {"authoring", "rejected"} =>
       authored = Len(Interactions) /\ stamped
  /\ step \in EarlySteps => outcome = "none"
  /\ Http /\ step = "asserting" /\ alive => phase = "exited"
  /\ heard \subseteq Requests

(* It holds of a test that starts.                                         *)
LEMMA InitOrder == TestInit => Order
BY DEF TestInit, Init, Order, EarlySteps

(* What the adapter does keeps the order: it moves on only from where it   *)
(* is, and closes the mock after the test only.                            *)
LEMMA AdapterOrder == Order /\ (Adapter \/ TestEnds) => Order'
<1> SUFFICES ASSUME Order, Adapter \/ TestEnds PROVE Order'
  OBVIOUS
<1> USE DEF Order, EarlySteps, LateSteps, Goto, Http, Stdio, Settle
<1>1. CASE Author
  BY <1>1 DEF Author, vars
<1>2. CASE Stamp
  BY <1>2 DEF Stamp, vars
<1>3. CASE SpawnHttp
  BY <1>3 DEF SpawnHttp, vars
<1>4. CASE Url
  BY <1>4 DEF Url, vars
<1>5. CASE UrlTimeout
  BY <1>5 DEF UrlTimeout, vars
<1>6. CASE Connect
  BY <1>6 DEF Connect, vars
<1>7. CASE CloseStdio
  BY <1>7 DEF CloseStdio, ClientLeaves, vars
<1>8. CASE ClosedStdio
  BY <1>8 DEF ClosedStdio, vars
<1>9. CASE EndStdin
  BY <1>9 DEF EndStdin, ClientLeaves, vars
<1>10. CASE ExitEvent
  BY <1>10 DEF ExitEvent, vars
<1>11. CASE AssertMockClean
  BY <1>11 DEF AssertMockClean, vars
<1>12. CASE TestEnds
  BY <1>12 DEF TestEnds, vars
<1> QED
  BY <1>1, <1>2, <1>3, <1>4, <1>5, <1>6, <1>7, <1>8, <1>9, <1>10, <1>11, <1>12 DEF Adapter

(* The mock's own steps keep it: they do not touch the adapter, and the    *)
(* process leaves "serving" by the client's step only.                     *)
LEMMA MockOrder ==
  ASSUME Order,
         \/ MockFlushes \/ MockKilled \/ UNCHANGED allVars
         \/ \E r \in Requests : Call(r) \/ Hear(r) \/ MockRuns(r)
  PROVE  Order'
<1> USE DEF Order, EarlySteps, LateSteps, Http, adapterVars, mainVars, MainMove
<1>1. CASE MockFlushes
  BY <1>1 DEF MockFlushes, FinalFlush, FinalFlushFails, Snapshot, FinalTruncate, FinalWrite, Exit
<1>2. CASE MockKilled
  BY <1>2 DEF MockKilled, Kill
<1>3. CASE UNCHANGED allVars
  BY <1>3 DEF allVars, vars
<1>4. ASSUME NEW r \in Requests, Call(r) PROVE Order'
  BY <1>4 DEF Call, Send
<1>5. ASSUME NEW r \in Requests, Hear(r) PROVE Order'
  BY <1>5 DEF Hear, Answer
<1>6. ASSUME NEW r \in Requests, MockRuns(r) PROVE Order'
  BY <1>6 DEF MockRuns, Push, WriteResults, Truncate, TruncateFails, Flush, FlushFails
<1> QED
  BY <1>1, <1>2, <1>3, <1>4, <1>5, <1>6

-----------------------------------------------------------------------------
(* What is in the file.  Until the final flush, if it parses, all results  *)
(* that a write which succeeded has had; at any time, those of them that   *)
(* the test has heard: later ones may be lost when the final flush races   *)
(* their handlers.                                                         *)
Listed == {results[i] : i \in 1..shown}
Shows(requests) ==
  /\ requests # {} => file.kind # "absent"
  /\ file.kind = "json" => requests \subseteq Range(file.seq)

FlushedShows == BeforeFinalFlush => Shows(Listed)
HeardShows ==
  /\ \A r \in heard : pc[r] = "answered"
  /\ Shows(heard \cap Listed)
  /\ phase \in {"flushing", "writing"} => heard \subseteq Range(snapshot)

(* What has been shown is on record, and stays there.                      *)
LEMMA ListedKept ==
  ASSUME TypeOK
  PROVE  /\ Listed \subseteq Range(results)
         /\ \A r \in Requests : Push(r) => Listed' = Listed
<1>1. shown \in 0..Len(results) /\ Len(results) \in Nat /\ DOMAIN results = 1..Len(results)
  BY LenProperties DEF TypeOK
<1>2. ASSUME NEW r \in Requests, Push(r) PROVE Listed' = Listed
  <2>1. \A i \in 1..Len(results) : results'[i] = results[i]
    BY <1>2, AppendProperties DEF Push, TypeOK
  <2>2. shown' = shown
    BY <1>2 DEF Push, fileVars
  <2> QED
    BY <1>1, <2>1, <2>2 DEF Listed
<1>3. ASSUME NEW i \in 1..shown PROVE results[i] \in Range(results)
  BY <1>1 DEF Range
<1> QED
  BY <1>2, <1>3 DEF Listed

(* A handler that flushes writes the whole list, its own result included.  *)
LEMMA FlushedStep == Inv /\ FlushedShows /\ [Next]_vars => FlushedShows'
<1> SUFFICES ASSUME Inv, FlushedShows, [Next]_vars PROVE FlushedShows'
  OBVIOUS
<1> USE ConsumerAssumption
    DEF Inv, TypeOK, Stages, Phases, FlushedShows, Shows, BeforeFinalFlush,
        Move, MainMove, handlerVars, fileVars, mainVars
<1>l. Listed \subseteq Range(results) /\ \A r \in Requests : Push(r) => Listed' = Listed
  BY ListedKept
<1>u. UNCHANGED <<results, shown>> => Listed' = Listed
  BY DEF Listed
<1>1. ASSUME NEW r \in Requests, Send(r) PROVE FlushedShows'
  BY <1>1, <1>u DEF Send
<1>2. ASSUME NEW r \in Requests, Push(r) PROVE FlushedShows'
  BY <1>2, <1>l DEF Push
<1>3. ASSUME NEW r \in Requests, Truncate(r) PROVE FlushedShows'
  BY <1>3, <1>u DEF Truncate, Empty
<1>4. ASSUME NEW r \in Requests, TruncateFails(r) PROVE FlushedShows'
  BY <1>4, <1>u DEF TruncateFails
<1>5. ASSUME NEW r \in Requests, FlushFails(r) PROVE FlushedShows'
  BY <1>5, <1>u DEF FlushFails, WriteFailed, Corrupt
<1>6. ASSUME NEW r \in Requests, Flush(r), BeforeFinalFlush PROVE FlushedShows'
  <2>1. file = Empty
    BY <1>6 DEF Flush, FileAgrees
  <2>2. file' = Json(results)
    BY <1>6, <2>1 DEF Flush, WriteOver, Empty
  <2>3. Listed' \subseteq Range(results)
    BY <1>6, LenProperties DEF Flush, Listed, Range
  <2> QED
    BY <2>2, <2>3 DEF Json
<1>7. ASSUME NEW r \in Requests, Flush(r), ~BeforeFinalFlush PROVE FlushedShows'
  BY <1>7 DEF Flush
<1>8. ASSUME NEW r \in Requests, Answer(r) PROVE FlushedShows'
  BY <1>8, <1>u DEF Answer
<1>9. CASE ClientLeaves \/ Snapshot
  BY <1>9, <1>u DEF ClientLeaves, Snapshot
<1>10. CASE FinalTruncate \/ FinalWrite \/ FinalFlushFails \/ Exit
  BY <1>10 DEF FinalTruncate, FinalWrite, FinalFlushFails, Exit
<1>11. CASE Kill
  BY <1>11, <1>u DEF Kill
<1>12. CASE UNCHANGED vars
  BY <1>12, <1>u DEF vars
<1> QED
  BY <1>1, <1>2, <1>3, <1>4, <1>5, <1>6, <1>7, <1>8, <1>9, <1>10, <1>11, <1>12
     DEF Next, Handler, WriteResults, Main, FinalFlush

(* What the final flush copies and what late handlers write has all that   *)
(* was heard; nothing is heard once it has begun.                          *)
LEMMA HeardStep ==
  ASSUME Inv, FlushedShows, HeardShows, Order, [TestNext]_allVars
  PROVE  HeardShows'
<1> USE ConsumerAssumption
    DEF Inv, TypeOK, Stages, Phases, HeardShows, Shows, Order, Move, MainMove, handlerVars,
        fileVars, mainVars, adapterVars
<1>h. heard \subseteq Range(results)
  BY DEF ListAgrees, RecordedOnce, Handled
<1>l. Listed \subseteq Range(results) /\ \A r \in Requests : Push(r) => Listed' = Listed
  BY ListedKept
<1>u. UNCHANGED <<results, shown>> => Listed' = Listed
  BY DEF Listed
<1>1. CASE UNCHANGED <<vars, heard>>
  BY <1>1, <1>u DEF vars
<1>2. CASE ClientLeaves /\ UNCHANGED heard
  BY <1>2, <1>u DEF ClientLeaves
<1>3. ASSUME NEW r \in Requests, Call(r) PROVE HeardShows'
  BY <1>3, <1>u DEF Call, Send
<1>4. ASSUME NEW r \in Requests, Push(r), UNCHANGED heard PROVE HeardShows'
  BY <1>4, <1>l DEF Push
<1>5. ASSUME NEW r \in Requests, Truncate(r), UNCHANGED heard PROVE HeardShows'
  BY <1>5, <1>u DEF Truncate, Empty
<1>5a. ASSUME NEW r \in Requests, TruncateFails(r), UNCHANGED heard PROVE HeardShows'
  BY <1>5a, <1>u DEF TruncateFails
<1>6. ASSUME NEW r \in Requests, Flush(r), UNCHANGED heard PROVE HeardShows'
  <2>1. file' = Corrupt \/ file' = Json(results)
    BY <1>6 DEF Flush, WriteOver
  <2>2. Shows(heard \cap Listed)'
    BY <1>6, <1>h, <2>1 DEF Corrupt, Json
  <2> QED
    BY <1>6, <2>2 DEF Flush
<1>6a. ASSUME NEW r \in Requests, FlushFails(r), UNCHANGED heard PROVE HeardShows'
  BY <1>6a, <1>u DEF FlushFails, WriteFailed, Corrupt
<1>7. ASSUME NEW r \in Requests, Hear(r) PROVE HeardShows'
  <2>1. CASE step = "testing"
    <3>1. phase = "serving"
      BY <2>1 DEF LateSteps
    <3>2. Shows(Listed)
      BY <3>1 DEF FlushedShows, BeforeFinalFlush
    <3> QED
      BY <1>7, <1>u, <2>1, <3>1, <3>2 DEF Hear, Answer
  <2>2. CASE step # "testing"
    BY <1>7, <1>u, <2>2 DEF Hear, Answer
  <2> QED
    BY <2>1, <2>2
<1>8. CASE Snapshot /\ UNCHANGED heard
  BY <1>8, <1>h, <1>u DEF Snapshot
<1>9. CASE FinalTruncate /\ UNCHANGED heard
  BY <1>9, <1>u DEF FinalTruncate, Empty
<1>10. CASE FinalWrite /\ UNCHANGED heard
  <2>1. file' = Corrupt \/ file' = Json(snapshot)
    BY <1>10 DEF FinalWrite, WriteOver
  <2>2. Shows(heard \cap Listed)'
    BY <1>10, <2>1 DEF FinalWrite, Corrupt, Json
  <2> QED
    BY <1>10, <2>2 DEF FinalWrite
<1>10a. CASE FinalFlushFails /\ UNCHANGED heard
  BY <1>10a, <1>u DEF FinalFlushFails, WriteFailed, Corrupt
<1>11. CASE Exit /\ UNCHANGED heard
  BY <1>11, <1>u DEF Exit
<1>12. CASE Kill /\ UNCHANGED heard
  BY <1>12, <1>u DEF Kill
<1>13. CASE Adapter \/ TestEnds
  <2>1. UNCHANGED <<vars, heard>> \/ (ClientLeaves /\ UNCHANGED heard)
    BY <1>13 DEF Adapter, Author, Stamp, SpawnHttp, Url, UrlTimeout, Connect, CloseStdio,
       ClosedStdio, EndStdin, ExitEvent, AssertMockClean, TestEnds
  <2> QED
    BY <2>1, <1>1, <1>2
<1>14. CASE MockFlushes \/ MockKilled
  BY <1>14, <1>8, <1>9, <1>10, <1>10a, <1>11, <1>12 DEF MockFlushes, MockKilled, FinalFlush
<1>15. ASSUME NEW r \in Requests, MockRuns(r) PROVE HeardShows'
  BY <1>15, <1>4, <1>5, <1>5a, <1>6, <1>6a DEF MockRuns, WriteResults
<1>16. CASE UNCHANGED allVars
  BY <1>16, <1>1 DEF allVars
<1> QED
  BY <1>3, <1>7, <1>13, <1>14, <1>15, <1>16 DEF TestNext

-----------------------------------------------------------------------------
(* When the test has heard the answer to all it asked, no handler runs     *)
(* beside the final flush, which leaves the whole record in the file.      *)
AllHeard == \A r \in Requests : pc[r] = "idle" \/ r \in heard
WholeFile ==
  AllHeard =>
    /\ phase \in {"flushing", "writing"} => snapshot = results
    /\ phase = "writing" => file = Empty
    /\ phase \in {"exiting", "exited"} /\ exitCode = 0 => file = Json(results)

(* A handler that moves once the client has left has not been heard, and   *)
(* never will be.                                                          *)
LEMMA WholeFileStep ==
  ASSUME Inv, HeardShows, Order, WholeFile, [TestNext]_allVars
  PROVE  WholeFile'
<1> USE ConsumerAssumption
    DEF Inv, TypeOK, Stages, Phases, WholeFile, AllHeard, Move, MainMove, handlerVars,
        fileVars, mainVars, adapterVars
<1>1. CASE UNCHANGED <<vars, heard>>
  BY <1>1 DEF vars
<1>2. CASE ClientLeaves /\ UNCHANGED heard
  BY <1>2 DEF ClientLeaves
<1>3. ASSUME NEW r \in Requests, Call(r) PROVE WholeFile'
  BY <1>3 DEF Call, Send
<1>4. ASSUME NEW r \in Requests, UNCHANGED <<heard, phase>>, pc[r] # "answered",
             pc'[r] # "idle", phase # "serving"
      PROVE  WholeFile'
  BY <1>4 DEF HeardShows
<1>5. ASSUME NEW r \in Requests, MockRuns(r) PROVE WholeFile'
  <2>1. pc[r] # "answered" /\ pc'[r] # "idle" /\ UNCHANGED <<heard, phase>>
    BY <1>5 DEF MockRuns, Push, WriteResults, Truncate, TruncateFails, Flush, FlushFails
  <2>2. CASE phase # "serving"
    BY <1>4, <2>1, <2>2
  <2>3. CASE phase = "serving"
    BY <2>1, <2>3
  <2> QED
    BY <2>2, <2>3
<1>6. ASSUME NEW r \in Requests, Hear(r) PROVE WholeFile'
  <2>1. pc[r] # "answered" /\ pc'[r] # "idle" /\ UNCHANGED phase
    BY <1>6 DEF Hear, Answer
  <2>2. CASE phase # "serving"
    <3>1. UNCHANGED heard
      BY <1>6, <2>2 DEF Hear, Order, LateSteps
    <3> QED
      BY <1>4, <2>1, <2>2, <3>1
  <2>3. CASE phase = "serving"
    BY <2>1, <2>3
  <2> QED
    BY <2>2, <2>3
<1>8. CASE Snapshot /\ UNCHANGED heard
  BY <1>8 DEF Snapshot
<1>9. CASE FinalTruncate /\ UNCHANGED heard
  BY <1>9 DEF FinalTruncate
<1>10. CASE FinalWrite /\ UNCHANGED heard
  BY <1>10 DEF FinalWrite, WriteOver, Empty
<1>10a. CASE FinalFlushFails /\ UNCHANGED heard
  BY <1>10a DEF FinalFlushFails
<1>11. CASE Exit /\ UNCHANGED heard
  BY <1>11 DEF Exit
<1>12. CASE Kill /\ UNCHANGED heard
  BY <1>12 DEF Kill
<1>13. CASE Adapter \/ TestEnds
  <2>1. UNCHANGED <<vars, heard>> \/ (ClientLeaves /\ UNCHANGED heard)
    BY <1>13 DEF Adapter, Author, Stamp, SpawnHttp, Url, UrlTimeout, Connect, CloseStdio,
       ClosedStdio, EndStdin, ExitEvent, AssertMockClean, TestEnds
  <2> QED
    BY <2>1, <1>1, <1>2
<1>14. CASE MockFlushes \/ MockKilled
  BY <1>14, <1>8, <1>9, <1>10, <1>10a, <1>11, <1>12 DEF MockFlushes, MockKilled, FinalFlush
<1>16. CASE UNCHANGED allVars
  BY <1>16, <1>1 DEF allVars
<1> QED
  BY <1>3, <1>5, <1>6, <1>13, <1>14, <1>16 DEF TestNext

-----------------------------------------------------------------------------
(* A result that is clean was not answered with an error of the mock.      *)
LEMMA CleanIsAnswered ==
  ASSUME NEW incoming, IsClean(RecordOf(incoming))
  PROVE  ReplyOf(incoming) # "invalid_params"
<1>1. incoming.operation \in ListLike \/ Hits(incoming) # {}
  BY DEF RecordOf, IsClean, MockResult
<1>2. incoming.operation \in ListLike => ReplyOf(incoming) = "ok"
  BY DEF ReplyOf, ListLike, CallLike
<1>3. incoming.operation \notin ListLike /\ Hits(incoming) # {}
        => ReplyOf(incoming) \in {"ok", "internal_error"}
  BY DEF ReplyOf
<1> QED
  BY <1>1, <1>2, <1>3

(* The verdict.  The judge reads a file that has all that was heard and    *)
(* written.                                                                *)
LEMMA PassStep ==
  ASSUME TypeOK, HeardShows, [TestNext]_allVars, Passes,
         NEW i \in 1..shown, results[i] \in heard
  PROVE  /\ ReplyOf(Incoming[results[i]]) # "invalid_params"
         /\ IsClean(RecordOf(Incoming[results[i]]))
<1>1. AssertMockClean
  BY DEF Passes, TestNext, Adapter, Author, Stamp, SpawnHttp, Url, UrlTimeout, Connect,
     CloseStdio, ClosedStdio, EndStdin, ExitEvent, TestEnds, MockFlushes, MockKilled,
     Call, Hear, MockRuns, Goto, Settle, adapterVars, allVars
<1>2. results[i] \in heard \cap Listed
  BY DEF Listed
<1>3. file.kind = "json" /\ \A k \in DOMAIN file.seq :
                               IsClean(RecordOf(Incoming[file.seq[k]]))
  BY <1>1, <1>2 DEF AssertMockClean, Goto, HeardShows, Shows, Passes
<1>4. PICK k \in DOMAIN file.seq : file.seq[k] = results[i]
  BY <1>2, <1>3 DEF HeardShows, Shows, Range
<1> QED
  BY <1>3, <1>4, CleanIsAnswered

(* What was asked stays asked; a process that ended badly does not recover.*)
LEMMA AskedStays ==
  ASSUME TypeOK, [Next]_vars
  PROVE  /\ \A r \in Requests : pc'[r] = "idle" => pc[r] = "idle"
         /\ (alive' => alive) /\ (exitCode' = 0 => exitCode = 0)
<1> USE DEF TypeOK, Stages, Move, MainMove, handlerVars, fileVars, mainVars
<1>1. CASE \E r \in Requests : Send(r) \/ Push(r) \/ WriteResults(r) \/ Answer(r)
  BY <1>1 DEF Send, Push, WriteResults, Truncate, TruncateFails, Flush, FlushFails, Answer
<1>2. CASE Main
  BY <1>2 DEF Main, FinalFlush, FinalFlushFails, ClientLeaves, Snapshot, FinalTruncate,
     FinalWrite, Exit
<1>3. CASE Kill
  BY <1>3 DEF Kill
<1>4. CASE UNCHANGED vars
  BY <1>4 DEF vars
<1> QED
  BY <1>1, <1>2, <1>3, <1>4 DEF Next, Handler

(* Over http a test that returned is judged when the mock has exited, and  *)
(* its file is whole: what it is judged by is the record, which no handler *)
(* adds to any more.                                                       *)
LEMMA JudgeStep ==
  ASSUME Inv, Order, HeardShows, WholeFile, JudgedByRecord, [TestNext]_allVars
  PROVE  JudgedByRecord'
<1> DEFINE Failure(k) == ~IsClean(RecordOf(Incoming[results[k]]))
<1> SUFFICES ASSUME Http', step' \in {"resolved", "rejected"}, outcome' = "returned",
                    alive', exitCode' = 0, AllHeard'
             PROVE  step' = "rejected"
                      <=> \E k \in DOMAIN results' : ~IsClean(RecordOf(Incoming[results'[k]]))
  BY DEF JudgedByRecord, AllHeard
<1>g. /\ \A r \in Requests : pc'[r] = "idle" => pc[r] = "idle"
      /\ alive /\ exitCode = 0
  BY MockStepOrStutter, AskedStays DEF Inv
<1>1. CASE step \in {"resolved", "rejected"}
  <2>1. UNCHANGED <<transport, outcome, heard, step>>
    BY <1>1 DEF TestNext, Adapter, Author, Stamp, SpawnHttp, Url, UrlTimeout, Connect,
       CloseStdio, ClosedStdio, EndStdin, ExitEvent, AssertMockClean, TestEnds, MockFlushes,
       MockKilled, Call, Hear, MockRuns, Goto, adapterVars, allVars
  <2>2. AllHeard
    BY <1>g, <2>1 DEF AllHeard
  <2>3. \A r \in Requests : ~Push(r)
    BY <2>2 DEF Push, Move, AllHeard, HeardShows
  <2>4. UNCHANGED results
    BY <2>3 DEF TestNext, Adapter, Author, Stamp, SpawnHttp, Url, UrlTimeout, Connect,
       CloseStdio, ClosedStdio, EndStdin, ExitEvent, AssertMockClean, TestEnds, MockFlushes,
       MockKilled, Call, Hear, MockRuns, Send, Answer, WriteResults, Truncate, TruncateFails,
       Flush, FlushFails, ClientLeaves, FinalFlush, Snapshot, FinalTruncate, FinalWrite,
       FinalFlushFails, Exit, Kill, handlerVars, adapterVars, vars, allVars
  <2>5. step = "rejected" <=> \E k \in DOMAIN results : Failure(k)
    BY <1>1, <1>g, <2>1, <2>2 DEF JudgedByRecord, AllHeard, Http
  <2> QED
    BY <2>1, <2>4, <2>5
<1>2. CASE step \notin {"resolved", "rejected"}
  <2>1. AssertMockClean /\ Http
    BY <1>2 DEF TestNext, Adapter, Author, Stamp, SpawnHttp, Url, UrlTimeout, Connect,
       CloseStdio, ClosedStdio, EndStdin, ExitEvent, AssertMockClean, TestEnds, MockFlushes,
       MockKilled, Call, Hear, MockRuns, Goto, Settle, Http, Stdio, adapterVars, allVars,
       Order, EarlySteps
  <2>2. AllHeard /\ UNCHANGED results
    BY <2>1 DEF AssertMockClean, AllHeard, vars
  <2>3. file = Json(results)
    BY <1>g, <2>1, <2>2 DEF AssertMockClean, Goto, Order, WholeFile
  <2>4. step' = "rejected" <=> \E k \in DOMAIN results : Failure(k)
    BY <2>1, <2>3 DEF AssertMockClean, Goto, Json
  <2> QED
    BY <2>2, <2>4
<1> QED
  BY <1>1, <1>2

-----------------------------------------------------------------------------
TestInv ==
  Inv /\ Order /\ FlushedShows /\ HeardShows /\ WholeFile
    /\ JudgedByRecord

(* The invariant holds of a test that starts, ...                          *)
LEMMA InitTest == TestInit => TestInv
<1> SUFFICES ASSUME TestInit PROVE TestInv
  OBVIOUS
<1>1. Inv
  BY InitInv DEF TestInit
<1>2. FlushedShows /\ HeardShows /\ WholeFile /\ JudgedByRecord
  BY DEF TestInit, Init, FlushedShows, HeardShows, Listed, Shows, WholeFile, Absent,
     JudgedByRecord
<1> QED
  BY <1>1, <1>2, InitOrder DEF TestInv

(* ... and every step of it keeps it.                                      *)
LEMMA StepTest == TestInv /\ [TestNext]_allVars => TestInv'
<1> SUFFICES ASSUME TestInv, [TestNext]_allVars PROVE TestInv'
  OBVIOUS
<1>1. [Next]_vars
  BY MockStepOrStutter
<1>2. Inv'
  BY <1>1, TypeStep, MutexStep, ListStep, FileStep, PastsStep DEF TestInv, Inv
<1>3. Order'
  BY AdapterOrder, MockOrder DEF TestInv, TestNext
<1>4. FlushedShows' /\ HeardShows' /\ WholeFile'
  BY <1>1, FlushedStep, HeardStep, WholeFileStep DEF TestInv
<1>5. JudgedByRecord'
  BY JudgeStep DEF TestInv
<1> QED
  BY <1>2, <1>3, <1>4, <1>5 DEF TestInv

(* The invariant of a consumer test with its mock.                         *)
THEOREM TestInvariance == TestSpec => []TestInv
BY InitTest, StepTest, PTL DEF TestSpec

(* A mock that was started serves a whole pact, stamped for its transport. *)
THEOREM WholePactServed == TestSpec => []MockServesWholePact
<1>1. TestInv => MockServesWholePact
  BY DEF TestInv, Order, MockServesWholePact
<1> QED
  BY <1>1, TestInvariance, PTL

(* When a test passes, no answer it heard had a failure among the results  *)
(* that were written, whatever write failed, whatever it left in flight    *)
(* and whether or not the mock was killed.                                 *)
THEOREM PassIsEarned == TestSpec => PassMeansHeardClean
<1>1. TestInv /\ [TestNext]_allVars =>
        [Passes => \A i \in 1..shown :
           results[i] \in heard =>
             /\ ReplyOf(Incoming[results[i]]) # "invalid_params"
             /\ IsClean(RecordOf(Incoming[results[i]]))]_allVars
  BY PassStep DEF TestInv, Inv
<1> QED
  BY <1>1, TestInvariance, PTL DEF TestSpec, PassMeansHeardClean

(* Over http a test that returned with all its answers heard, by a mock    *)
(* that exited with 0, is rejected exactly if a failure is on record.      *)
THEOREM VerdictIsRecord == TestSpec => []JudgedByRecord
BY TestInvariance, PTL DEF TestInv
============================================================================
