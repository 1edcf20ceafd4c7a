---------------------------- MODULE ResultsSink ----------------------------
(***************************************************************************)
(* What a mock promises the consumers of its results, whatever the threads *)
(* and files it is built from (mock.rs: "results are flushed to this file  *)
(* after EVERY recorded request, so a consumer can read them reliably      *)
(* without waiting for the mock process to exit"): an append-only log, a   *)
(* view of it that is complete or, while it is being replaced, empty, and  *)
(* answers that are given only when the view has been replaced, or could   *)
(* not be: that a flush failed is told to nobody.                          *)
(***************************************************************************)
EXTENDS Naturals, Sequences

CONSTANT Requests

VARIABLES
  log,      \* results in the order they were recorded
  view,     \* what is in the file
  ended,    \* for how much of the log a flush has ended, well or not
  told      \* requests whose client has been answered

vars == <<log, view, ended, told>>

Absent  == [kind |-> "absent", seq |-> <<>>]
Empty   == [kind |-> "empty", seq |-> <<>>]
Corrupt == [kind |-> "corrupt", seq |-> <<>>]
Json(s) == [kind |-> "json", seq |-> s]

Init == log = <<>> /\ view = Absent /\ ended = 0 /\ told = {}

Record(r) ==
  /\ r \notin {log[i] : i \in DOMAIN log}
  /\ log' = Append(log, r)
  /\ UNCHANGED <<view, ended, told>>

(* The old document is gone and the new one not there yet. *)
Hide == view' = Empty /\ UNCHANGED <<log, ended, told>>

(* The new document is there, and is the whole log. *)
Show ==
  /\ view' = Json(log)
  /\ ended' = Len(log)
  /\ UNCHANGED <<log, told>>

(* A flush fails: the view stays what it was, or no longer parses. *)
Fail ==
  /\ view' \in {view, Corrupt}
  /\ ended' = Len(log)
  /\ UNCHANGED <<log, told>>

Tell(r) ==
  /\ r \in {log[i] : i \in 1..ended}
  /\ told' = told \cup {r}
  /\ UNCHANGED <<log, view, ended>>

Next == Hide \/ Show \/ Fail \/ \E r \in Requests : Record(r) \/ Tell(r)

Spec == Init /\ [][Next]_vars
=============================================================================
