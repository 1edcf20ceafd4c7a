------------------------- MODULE Verification_proofs -------------------------
(***************************************************************************)
(* What the engine's verification promises, for every pact and every       *)
(* server.                                                                 *)
(***************************************************************************)
EXTENDS Verification, TLAPS

(* An interaction that is at work is one of the pact's mcp interactions. *)
AtWork == stage \notin {"start", "aborted", "next"} => index \in DOMAIN Pact /\ Pact[index].mcp

(* A server that was spawned for an interaction has its states, and has    *)
(* served what was asked since.                                            *)
OwnServer ==
  target = "stdio" =>
    /\ stage = "connected" => server = [states |-> Pact[index].states, served |-> <<>>]
    /\ stage = "performed" =>
         server = [states |-> Pact[index].states, served |-> <<index>>]

(* What is compared has been earned if it fits. *)
ReplyEarned ==
  (stage \in {"performed", "closed"} /\ reply.fits /\ reply.shape = Pact[index].expects)
    => index \in earned

(* So has every success of the report, which leaves no interaction out. *)
SuccessesEarned ==
  \A i \in DOMAIN report : report[i].success => report[i].index \in earned
NoneLeftOut ==
  \A j \in 1..(index - 1) : Pact[j].mcp => \E i \in DOMAIN report : report[i].index = j
EarnedAreMcp == \A j \in earned : Pact[j].mcp


(* A server, by the states it was started with. *)
Servers == [states : {"none"} \cup {Pact[i].states : i \in DOMAIN Pact},
            served : Seq(DOMAIN Pact)]

(* The report follows the pact, and is about what was passed. *)
InOrder ==
  /\ \A i \in DOMAIN report : report[i].index < index /\ Pact[report[i].index].mcp
  /\ \A i, k \in DOMAIN report : i < k => report[i].index < report[k].index

IInv == TypeOK /\ AtWork /\ OwnServer /\ ReplyEarned /\ SuccessesEarned /\ NoneLeftOut
          /\ EarnedAreMcp /\ InOrder
-----------------------------------------------------------------------------
(* Nothing is reported at first. *)
LEMMA InitIInv == Init => IInv
<1> SUFFICES ASSUME Init PROVE IInv
  OBVIOUS
<1>1. Len(Pact) \in Nat
  BY PactAssumption
<1> QED
  BY <1>1 DEF Init, IInv, TypeOK, AtWork, OwnServer, ReplyEarned, SuccessesEarned,
     NoneLeftOut, EarnedAreMcp, InOrder, Off, NoReply

(* Results are about interactions of the pact. *)
LEMMA ResultIndex ==
  ASSUME TypeOK PROVE \A i \in DOMAIN report : report[i].index \in DOMAIN Pact
<1> SUFFICES ASSUME NEW i \in DOMAIN report PROVE report[i].index \in DOMAIN Pact
  OBVIOUS
<1> DEFINE Results == [index : DOMAIN Pact, success : BOOLEAN]
<1>1. report \in Seq(Results)
  BY DEF TypeOK
<1>2. report[i] \in Results
  <2> HIDE DEF Results
  <2> QED
    BY <1>1
<1> QED
  BY <1>2

(* What a report adds, given the rest of the invariant. *)
LEMMA Reported ==
  ASSUME IInv, Busy(stage), stage \notin {"start", "aborted"}, NEW success \in BOOLEAN, Report(success),
         UNCHANGED <<options, target, earned>>,
         server' \in Servers,
         success => index \in earned
  PROVE  IInv'
<1>1. /\ index \in DOMAIN Pact /\ Pact[index].mcp
      /\ index' = index + 1 /\ stage' = "next" /\ reply' = NoReply
      /\ report' = Append(report, [index |-> index, success |-> success])
  BY DEF Busy, Report
<1>2. /\ DOMAIN Pact = 1..Len(Pact) /\ Len(Pact) \in Nat
      /\ report \in Seq([index : DOMAIN Pact, success : BOOLEAN])
  BY PactAssumption DEF IInv, TypeOK
<1>3. TypeOK'
  BY <1>1, <1>2 DEF IInv, TypeOK, NoReply, Servers
<1>4. /\ \A i \in DOMAIN report : i \in DOMAIN report' /\ report'[i] = report[i]
      /\ Len(report) + 1 \in DOMAIN report'
      /\ report'[Len(report) + 1] = [index |-> index, success |-> success]
      /\ \A i \in DOMAIN report' : i \in DOMAIN report \/ i = Len(report) + 1
  BY <1>1, <1>2
<1>5. AtWork' /\ OwnServer' /\ ReplyEarned' /\ EarnedAreMcp'
  BY <1>1 DEF IInv, AtWork, OwnServer, ReplyEarned, EarnedAreMcp
<1>6. SuccessesEarned'
  BY <1>4 DEF IInv, SuccessesEarned
<1>7. NoneLeftOut'
  <2> SUFFICES ASSUME NEW j \in 1..index, Pact[j].mcp
               PROVE  \E i \in DOMAIN report' : report'[i].index = j
    <3>1. index' - 1 = index
      BY <1>1, <1>2
    <3> QED
      BY <3>1 DEF NoneLeftOut
  <2>1. CASE j = index
    BY <1>4, <2>1
  <2>2. CASE j # index
    <3>1. j \in 1..(index - 1)
      BY <1>1, <1>2, <2>2
    <3>2. PICK i \in DOMAIN report : report[i].index = j
      BY <3>1 DEF IInv, NoneLeftOut
    <3> QED
      BY <1>4, <3>2
  <2> QED
    BY <2>1, <2>2
<1>8. InOrder'
  <2>1. /\ \A i \in DOMAIN report : report[i].index \in DOMAIN Pact
        /\ \A i, k \in DOMAIN report : i < k => report[i].index < report[k].index
        /\ \A i \in DOMAIN report : report[i].index < index /\ Pact[report[i].index].mcp
    <3>1. \A i \in DOMAIN report : report[i].index \in DOMAIN Pact
      BY ResultIndex DEF IInv
    <3>2. InOrder
      BY DEF IInv
    <3> QED
      BY <3>1, <3>2 DEF InOrder
  <2>2. DOMAIN report = 1..Len(report) /\ Len(report) \in Nat
        /\ DOMAIN report' = 1..(Len(report) + 1)
    BY <1>1, <1>2
  <2>3. /\ \A i \in DOMAIN report : report'[i].index = report[i].index
        /\ report'[Len(report) + 1].index = index
    BY <1>4
  <2>4. ASSUME NEW i \in DOMAIN report' PROVE report'[i].index < index' /\ Pact[report'[i].index].mcp
    <3>1. CASE i \in DOMAIN report
      BY <1>1, <1>2, <2>1, <2>3, <3>1
    <3>2. CASE i = Len(report) + 1
      BY <1>1, <1>2, <2>3, <3>2
    <3> QED
      BY <1>4, <3>1, <3>2
  <2>5. ASSUME NEW i \in DOMAIN report', NEW k \in DOMAIN report', i < k
        PROVE  report'[i].index < report'[k].index
    <3>1. i \in DOMAIN report
      BY <2>2, <2>5
    <3>2. CASE k \in DOMAIN report
      BY <2>1, <2>3, <2>5, <3>1, <3>2
    <3>3. CASE k = Len(report) + 1
      BY <2>1, <2>3, <3>1, <3>3
    <3> QED
      BY <1>4, <3>2, <3>3
  <2> QED
    BY <2>4, <2>5 DEF InOrder
<1> QED
  BY <1>3, <1>5, <1>6, <1>7, <1>8 DEF IInv

(* Every step keeps the invariant. *)
LEMMA StepIInv == IInv /\ [Next]_vars => IInv'
<1> SUFFICES ASSUME IInv, [Next]_vars PROVE IInv'
  OBVIOUS
<1>t. /\ TypeOK /\ AtWork /\ OwnServer /\ ReplyEarned /\ SuccessesEarned /\ NoneLeftOut
      /\ EarnedAreMcp /\ InOrder
  BY DEF IInv
<1>d. DOMAIN Pact = 1..Len(Pact) /\ Len(Pact) \in Nat
  BY PactAssumption
<1>o. Off \in Servers
  BY DEF Off, Servers
<1>0. CASE Begin \/ Abort
  <2>1. /\ stage = "start" /\ stage' \in {"next", "aborted"}
        /\ target' \in {"none", "stdio", "http"}
        /\ UNCHANGED <<options, index, server, reply, report, earned>>
    BY <1>0, <1>t DEF Begin, Abort, TypeOK
  <2>2. TypeOK'
    BY <1>t, <2>1 DEF TypeOK
  <2> QED
    BY <1>t, <2>1, <2>2
    DEF IInv, AtWork, OwnServer, ReplyEarned, SuccessesEarned, NoneLeftOut, EarnedAreMcp,
        InOrder
<1>1. CASE Skip
  <2>1. /\ index \in DOMAIN Pact /\ ~Pact[index].mcp /\ index' = index + 1
        /\ UNCHANGED <<options, target, stage, server, reply, report, earned>>
    BY <1>1 DEF Skip
  <2>2. stage = "next"
    BY <1>1 DEF Skip
  <2>3. TypeOK'
    BY <1>t, <1>d, <2>1 DEF TypeOK
  <2>4. NoneLeftOut'
    BY <1>t, <1>d, <2>1 DEF NoneLeftOut
  <2>5. InOrder'
    <3>1. \A i \in DOMAIN report : report[i].index \in DOMAIN Pact
      BY <1>t, ResultIndex
    <3>2. InOrder
      BY <1>t
    <3>3. index \in Nat /\ \A i \in DOMAIN report : report[i].index \in Nat
      BY <1>d, <2>1, <3>1
    <3> QED
      BY <2>1, <3>2, <3>3 DEF InOrder
  <2> QED
    BY <1>t, <2>1, <2>2, <2>3, <2>4, <2>5
    DEF IInv, AtWork, OwnServer, ReplyEarned, SuccessesEarned, EarnedAreMcp
<1>2. CASE Connect
  <2>1. /\ index \in DOMAIN Pact /\ Pact[index].mcp /\ stage' = "connected"
        /\ UNCHANGED <<options, target, index, reply, report, earned>>
    BY <1>2 DEF Connect, Busy
  <2>2. target = "stdio" => server' = [states |-> Pact[index].states, served |-> <<>>]
    BY <1>2 DEF Connect
  <2>3. server' \in Servers
    <3>1. [states |-> Pact[index].states, served |-> <<>>] \in Servers
      BY <2>1 DEF Servers
    <3> QED
      BY <1>2, <1>t, <3>1 DEF Connect, TypeOK, Servers
  <2>4. TypeOK'
    BY <1>t, <2>1, <2>3 DEF TypeOK, Servers
  <2>5. OwnServer'
    BY <2>1, <2>2 DEF OwnServer
  <2> QED
    BY <1>t, <2>1, <2>4, <2>5
    DEF IInv, AtWork, ReplyEarned, SuccessesEarned, NoneLeftOut, EarnedAreMcp, InOrder
<1>3. CASE ConnectFails \/ PerformFails \/ CloseFails
  <2>1. Busy(stage) /\ stage \in {"next", "connected", "performed"}
        /\ Report(FALSE) /\ LetGo /\ UNCHANGED <<options, target, earned>>
    BY <1>3 DEF ConnectFails, PerformFails, CloseFails, Busy
  <2>2. server' \in Servers
    BY <1>t, <1>o, <2>1 DEF LetGo, TypeOK, Servers
  <2> QED
    BY <2>1, <2>2, Reported
<1>4. CASE Perform
  <2>1. /\ index \in DOMAIN Pact /\ Pact[index].mcp /\ stage = "connected"
        /\ stage' = "performed" /\ UNCHANGED <<options, target, index, report>>
        /\ server' = [server EXCEPT !.served = Append(server.served, index)]
    BY <1>4 DEF Perform, Busy
  <2>2. PICK shape \in {"success", "error"}, fits \in BOOLEAN :
          /\ reply' = [shape |-> shape, fits |-> fits]
          /\ earned' = IF fits /\ shape = Pact[index].expects
                       THEN earned \cup {index} ELSE earned
    BY <1>4 DEF Perform
  <2>3. server' \in Servers
    <3> DEFINE s == Append(server.served, index)
    <3>1. server \in Servers
      BY <1>t DEF TypeOK, Servers
    <3>2. s \in Seq(DOMAIN Pact)
      BY <2>1, <3>1 DEF Servers
    <3> HIDE DEF s
    <3>3. [server EXCEPT !.served = s] \in Servers
      BY <3>1, <3>2 DEF Servers
    <3> QED
      BY <2>1, <3>3 DEF s
  <2>4. reply' \in [shape : {"none", "success", "error"}, fits : BOOLEAN]
    BY <2>2
  <2>5. TypeOK'
    BY <1>t, <2>1, <2>2, <2>3, <2>4 DEF TypeOK, Servers
  <2>6. OwnServer'
    <3> SUFFICES ASSUME target = "stdio"
                 PROVE  server' = [states |-> Pact[index].states, served |-> <<index>>]
      BY <2>1 DEF OwnServer
    <3>1. server = [states |-> Pact[index].states, served |-> <<>>]
      BY <1>t, <2>1 DEF OwnServer
    <3>2. Append(<<>>, index) = <<index>>
      OBVIOUS
    <3> QED
      BY <2>1, <3>1, <3>2
  <2>7. ReplyEarned' /\ SuccessesEarned' /\ EarnedAreMcp'
    BY <1>t, <2>1, <2>2 DEF ReplyEarned, SuccessesEarned, EarnedAreMcp
  <2> QED
    BY <1>t, <2>1, <2>5, <2>6, <2>7 DEF IInv, AtWork, NoneLeftOut, InOrder
<1>5. CASE Close
  <2>1. /\ Busy("performed") /\ stage' = "closed" /\ LetGo
        /\ UNCHANGED <<options, target, index, reply, report, earned>>
    BY <1>5 DEF Close
  <2>2. server' \in Servers
    BY <1>t, <1>o, <2>1 DEF LetGo, TypeOK, Servers
  <2>3. TypeOK'
    BY <1>t, <2>1, <2>2 DEF TypeOK, Servers
  <2> QED
    BY <1>t, <2>1, <2>3 DEF Busy, IInv, AtWork, OwnServer, ReplyEarned, SuccessesEarned,
       NoneLeftOut, EarnedAreMcp, InOrder
<1>6. CASE Compare
  <2>1. /\ Busy(stage) /\ stage = "closed"
        /\ Report(reply.fits /\ reply.shape = Pact[index].expects)
        /\ UNCHANGED <<options, target, server, earned>>
    BY <1>6 DEF Compare, Busy
  <2>2. reply.fits /\ reply.shape = Pact[index].expects => index \in earned
    BY <1>t, <2>1 DEF ReplyEarned
  <2>3. server' \in Servers
    BY <1>t, <2>1 DEF TypeOK, Servers
  <2>4. (reply.fits /\ reply.shape = Pact[index].expects) \in BOOLEAN
    OBVIOUS
  <2> DEFINE success == reply.fits /\ reply.shape = Pact[index].expects
  <2> HIDE DEF success
  <2> QED
    BY <2>1, <2>2, <2>3, <2>4, Reported DEF success
<1>7. CASE UNCHANGED vars
  BY <1>t, <1>7 DEF vars, IInv, TypeOK, AtWork, OwnServer, ReplyEarned, SuccessesEarned,
     NoneLeftOut, EarnedAreMcp, InOrder
<1> QED
  BY <1>0, <1>1, <1>2, <1>3, <1>4, <1>5, <1>6, <1>7 DEF Next

-----------------------------------------------------------------------------
(* For every pact, whatever the server does: the variables stay in their   *)
(* ranges; ...                                                             *)
THEOREM TypeCorrect == Spec => []TypeOK
<1>1. IInv => TypeOK
  BY DEF IInv
<1> QED
  BY <1>1, InitIInv, StepIInv, PTL DEF Spec

(* ... what is compared comes from a server that was started for it; ...   *)
THEOREM ServerIsFresh == Spec => []FreshServer
<1>1. IInv => FreshServer
  BY DEF IInv, OwnServer, FreshServer, Busy
<1> QED
  BY <1>1, InitIInv, StepIInv, PTL DEF Spec

(* ... the report has one result for every mcp interaction that was        *)
(* passed, in the order of the pact; ...                                   *)
THEOREM CoversPact == Spec => []ReportCoversPact
<1>1. IInv => ReportCoversPact
  <2> SUFFICES ASSUME IInv PROVE ReportCoversPact
    OBVIOUS
  <2>1. ASSUME NEW j \in 1..(index - 1), NEW i \in DOMAIN report, report[i].index = j
        PROVE  Pact[j].mcp
    BY <2>1 DEF IInv, InOrder
  <2>2. ASSUME NEW j \in 1..(index - 1), Pact[j].mcp
        PROVE  \E i \in DOMAIN report : report[i].index = j
    BY <2>2 DEF IInv, NoneLeftOut
  <2>3. \A i, k \in DOMAIN report : i < k => report[i].index < report[k].index
    BY DEF IInv, InOrder
  <2> QED
    BY <2>1, <2>2, <2>3 DEF ReportCoversPact
<1> QED
  BY <1>1, InitIInv, StepIInv, PTL DEF Spec

(* ... and a success means a fitting answer for every mcp interaction: one *)
(* that was passed is in the report, and its result there is a success.    *)
THEOREM SuccessEarned == Spec => []SuccessIsEarned
<1>1. IInv => SuccessIsEarned
  <2> SUFFICES ASSUME IInv, Done, Success
               PROVE  earned = {i \in DOMAIN Pact : Pact[i].mcp}
    BY DEF SuccessIsEarned
  <2>1. earned \subseteq {i \in DOMAIN Pact : Pact[i].mcp}
    BY DEF IInv, TypeOK, EarnedAreMcp
  <2>2. ASSUME NEW j \in DOMAIN Pact, Pact[j].mcp PROVE j \in earned
    <3>1. j \in 1..(index - 1)
      BY <2>2, PactAssumption DEF Done
    <3>2. PICK i \in DOMAIN report : report[i].index = j
      BY <2>2, <3>1 DEF IInv, NoneLeftOut
    <3> QED
      BY <3>2 DEF IInv, SuccessesEarned, Success
  <2> QED
    BY <2>1, <2>2
<1> QED
  BY <1>1, InitIInv, StepIInv, PTL DEF Spec
=============================================================================
