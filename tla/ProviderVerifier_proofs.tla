----------------------- MODULE ProviderVerifier_proofs -----------------------
(***************************************************************************)
(* What a verification leaves of the environment, for any number of runs,  *)
(* overlapping or not, any servers and any environment to begin with.      *)
(***************************************************************************)
EXTENDS ProviderVerifier, TLAPS

(* What is recorded is recorded of the runs; a target list is a list. *)
IsList(s) == s \in Seq({s[i] : i \in DOMAIN s})
Shapes ==
  /\ DOMAIN saved = Runs /\ DOMAIN inherited = Runs /\ DOMAIN targets = Runs
  /\ DOMAIN met = Runs /\ DOMAIN port = Runs
  /\ env = [k \in EnvVars |-> env[k]]
  /\ \A v \in Runs : IsList(targets[v])

(* Runs that are active together have met, and none has before it began. *)
Meetings ==
  /\ \A v \in Runs : at[v] = "idle" => met[v] = {} /\ saved[v] = <<>>
  /\ \A u, v \in Active : u = v \/ v \in met[u]

(* An active run remembers the variables it set, ... *)
Remembers == \A v \in Active : DOMAIN saved[v] = Sets(v)

(* ... and, without a clash, what they were at first; a variable that no   *)
(* active run sets is what it was at first.                                *)
Kept ==
  \A k \in EnvVars : ~Clash(k) =>
    /\ (\A v \in Active : k \notin Sets(v)) => env[k] = Initial[k]
    /\ \A v \in Active : k \in Sets(v) => saved[v][k] = Initial[k]

(* Without a clash, the variables of an active run have its values, ...    *)
Given ==
  \A v \in Active : \A k \in Sets(v) : ~Clash(k) => env[k] = EnvOf(server[v])[k]

(* ... a plugin that was started undisturbed has its run's environment, ... *)
Inherits == \A v \in Runs : calm[v] => at[v] \notin {"idle", "applied"} /\ inherited[v] = Own(v)

(* ... and every target was resolved in the environment of its own run, or *)
(* the plugin of the run is gone.                                          *)
OwnTarget(v, i) ==
  \/ targets[v][i] = Target(v, inherited[v], Pact[v][i])
  \/ targets[v][i] = Error /\ v \notin up
Targeted ==
  \A v \in Runs : /\ at[v] \in {"idle", "applied"} => targets[v] = <<>> /\ v \notin up
                  /\ \A i \in DOMAIN targets[v] : OwnTarget(v, i)

IInv == TypeOK /\ Shapes /\ Meetings /\ Remembers /\ Kept /\ Given /\ Inherits /\ Targeted
-----------------------------------------------------------------------------
(* A run sets variables of the environment. *)
LEMMA SetsAreVars ==
  ASSUME TypeOK, NEW v \in Runs PROVE server[v] \in Servers[v] /\ Sets(v) \subseteq EnvVars
<1>1. server[v] \in Servers[v]
  BY DEF TypeOK, ServerChoices
<1>2. CASE server[v].type = "http"
  <2> DEFINE given == [PATH |-> server[v].path, AUTH |-> server[v].auth]
  <2>1. Sets(v) = {x \in DOMAIN given : given[x] # Unset}
    BY <1>2 DEF Sets, EnvOf
  <2>2. DOMAIN given = {"PATH", "AUTH"}
    OBVIOUS
  <2> QED
    BY <1>1, <2>1, <2>2 DEF EnvVars
<1>3. CASE server[v].type = "stdio"
  BY <1>1, <1>3, VerifierAssumption DEF Sets, EnvOf, EnvVars
<1> QED
  BY <1>1, <1>2, <1>3, VerifierAssumption

(* A list with one more element is a list. *)
LEMMA Longer ==
  ASSUME NEW s, IsList(s), NEW t
  PROVE  /\ IsList(Append(s, t)) /\ Len(Append(s, t)) = Len(s) + 1 /\ Len(s) \in Nat
         /\ \A i \in DOMAIN Append(s, t) :
              \/ i \in DOMAIN s /\ Append(s, t)[i] = s[i]
              \/ i = Len(s) + 1 /\ Append(s, t)[i] = t
<1> DEFINE S == {s[i] : i \in DOMAIN s}  a == Append(s, t)
<1>1. s \in Seq(S)
  BY DEF IsList
<1> HIDE DEF S
<1>2. /\ a \in Seq(S \cup {t}) /\ Len(a) = Len(s) + 1 /\ Len(s) \in Nat
      /\ DOMAIN a = 1..Len(a) /\ DOMAIN s = 1..Len(s)
      /\ \A i \in 1..Len(s) : a[i] = s[i]
      /\ a[Len(s) + 1] = t
  BY <1>1
<1> HIDE DEF a
<1>3. a \in Seq({a[i] : i \in DOMAIN a})
  BY <1>2
<1>4. \A i \in DOMAIN a : (i \in DOMAIN s /\ a[i] = s[i]) \/ (i = Len(s) + 1 /\ a[i] = t)
  BY <1>2
<1> QED
  BY <1>2, <1>3, <1>4 DEF IsList, a

(* Nothing is set at first. *)
LEMMA InitIInv == Init => IInv
<1> SUFFICES ASSUME Init PROVE IInv
  OBVIOUS
<1> USE VerifierAssumption
<1>1. TypeOK /\ Shapes
  BY DEF Init, TypeOK, Shapes, IsList
<1>2. Active = {} /\ \A k : ~Clash(k)
  BY DEF Init, Active, Clash
<1>3. Meetings /\ Remembers /\ Kept /\ Given /\ Inherits /\ Targeted
  BY <1>2 DEF Init, Meetings, Remembers, Kept, Given, Inherits, Targeted
<1> QED
  BY <1>1, <1>3 DEF IInv

(* The servers of the runs never change, nor what their variables are. *)
LEMMA SameServers ==
  ASSUME UNCHANGED server
  PROVE  \A v \in Runs : /\ Sets(v)' = Sets(v) /\ EnvOf(server[v])' = EnvOf(server[v])
                         /\ Own(v)' = Own(v)
                         /\ \A e, t : Target(v, e, t)' = Target(v, e, t)
BY DEF Sets, EnvOf, Own, Target, HttpTarget, StdioTarget

(* A run begins. *)
LEMMA ApplyStep == ASSUME IInv, NEW v \in Runs, ApplyEnv(v) PROVE IInv'
<1>t. TypeOK /\ Shapes /\ Meetings /\ Remembers /\ Kept /\ Given /\ Inherits /\ Targeted
  BY DEF IInv
<1>1. /\ at[v] = "idle" /\ at' = [at EXCEPT ![v] = "applied"]
      /\ UNCHANGED <<server, inherited, port, up, targets, calm>>
  BY DEF ApplyEnv, Move
<1>s. /\ \A u \in Runs : Sets(u)' = Sets(u) /\ Own(u)' = Own(u)
      /\ \A u \in Runs : EnvOf(server[u])' = EnvOf(server[u])
      /\ \A u \in Runs : \A e, t : Target(u, e, t)' = Target(u, e, t)
  BY <1>1, SameServers
<1>2. Active' = Active \cup {v} /\ v \notin Active
  BY <1>t, <1>1 DEF Active, TypeOK
<1>3. /\ DOMAIN saved' = Runs /\ DOMAIN saved'[v] = Sets(v)
      /\ \A k \in Sets(v) : saved'[v][k] = env[k]
      /\ \A u \in Runs \ {v} : saved'[u] = saved[u]
  BY <1>t DEF ApplyEnv, Shapes, Sets
<1>4. /\ DOMAIN env' = EnvVars /\ env' = [k \in EnvVars |-> env'[k]]
      /\ \A k \in EnvVars \ Sets(v) : env'[k] = env[k]
      /\ \A k \in Sets(v) : env'[k] = EnvOf(server[v])[k]
  BY <1>t, SetsAreVars DEF ApplyEnv, Sets
<1>5. /\ DOMAIN met' = Runs /\ met'[v] = Active /\ met[v] = {}
      /\ \A u \in Runs \ {v} : met'[u] = IF u \in Active THEN met[u] \cup {v} ELSE met[u]
  <2>1. met' = [u \in Runs |-> CASE u = v -> Active
                              [] u \in Active -> met[u] \cup {v}
                              [] OTHER -> met[u]]
    BY DEF ApplyEnv
  <2>2. met[v] = {}
    BY <1>t, <1>1 DEF Meetings
  <2> QED
    BY <1>2, <2>1, <2>2
<1>c. \A k : Clash(k) => Clash(k)'
  <2> SUFFICES ASSUME NEW k, NEW u \in Runs, NEW w \in Runs, w \in met[u],
                      k \in Sets(u), k \in Sets(w)
               PROVE  Clash(k)'
    BY DEF Clash
  <2>1. w \in met'[u]
    BY <1>5
  <2> QED
    BY <2>1, <1>s DEF Clash
<1>d. \A u \in Active, k \in Sets(v) : k \in Sets(u) => Clash(k)'
  <2> SUFFICES ASSUME NEW u \in Active, NEW k \in Sets(v), k \in Sets(u)
               PROVE  Clash(k)'
    OBVIOUS
  <2>1. u \in Runs /\ u \in met'[v]
    BY <1>5 DEF Active
  <2> QED
    BY <2>1, <1>s DEF Clash
<1>6. TypeOK'
  BY <1>t, <1>1, <1>3, <1>4, SetsAreVars DEF TypeOK
<1>7. Shapes'
  BY <1>t, <1>1, <1>3, <1>4, <1>5 DEF Shapes
<1>8. Meetings'
  <2>1. ASSUME NEW u \in Runs, at'[u] = "idle" PROVE met'[u] = {} /\ saved'[u] = <<>>
    <3>1. u # v /\ at[u] = "idle" /\ u \notin Active
      BY <1>t, <1>1, <2>1 DEF TypeOK, Active
    <3> QED
      BY <1>t, <1>3, <1>5, <3>1 DEF Meetings
  <2>2. ASSUME NEW u \in Active', NEW w \in Active', u # w PROVE w \in met'[u]
    BY <1>t, <1>2, <1>5, <2>2 DEF Meetings, Active
  <2> QED
    BY <2>1, <2>2 DEF Meetings
<1>9. Remembers'
  <2> SUFFICES ASSUME NEW u \in Active' PROVE DOMAIN saved'[u] = Sets(u)'
    BY DEF Remembers
  <2> QED
    BY <1>t, <1>2, <1>3, <1>s DEF Remembers, Active
<1>10. Kept'
  <2> SUFFICES ASSUME NEW k \in EnvVars, ~Clash(k)'
               PROVE  /\ (\A u \in Active' : k \notin Sets(u)') => env'[k] = Initial[k]
                      /\ \A u \in Active' : k \in Sets(u)' => saved'[u][k] = Initial[k]
    BY DEF Kept
  <2>1. ~Clash(k)
    BY <1>c
  <2>2. CASE k \in Sets(v)
    <3>1. \A u \in Active : k \notin Sets(u)
      BY <1>d, <2>2
    <3>2. env[k] = Initial[k]
      BY <1>t, <2>1, <3>1 DEF Kept
    <3>3. Active' \subseteq Runs
      BY DEF Active
    <3> QED
      BY <1>2, <1>3, <1>s, <2>2, <3>1, <3>2, <3>3
  <2>3. CASE k \notin Sets(v)
    BY <1>t, <1>2, <1>3, <1>4, <1>s, <2>1, <2>3 DEF Kept, Active
  <2> QED
    BY <2>2, <2>3
<1>11. Given'
  <2> SUFFICES ASSUME NEW u \in Active', NEW k \in Sets(u)', ~Clash(k)'
               PROVE  env'[k] = EnvOf(server[u])'[k]
    BY DEF Given
  <2>1. u \in Runs /\ k \in Sets(u) /\ ~Clash(k)
    BY <1>c, <1>s DEF Active
  <2>2. CASE u = v
    BY <1>4, <1>s, <2>1, <2>2
  <2>3. CASE u # v
    <3>1. u \in Active /\ k \notin Sets(v)
      BY <1>2, <1>d, <2>1, <2>3
    <3>2. env[k] = EnvOf(server[u])[k]
      BY <1>t, <2>1, <3>1 DEF Given
    <3> QED
      BY <1>t, <1>4, <1>s, <2>1, <3>1, <3>2, SetsAreVars
  <2> QED
    BY <2>2, <2>3
<1>12. Inherits' /\ Targeted'
  <2>1. \A u \in Runs : at'[u] \in {"idle", "applied"} => at[u] \in {"idle", "applied"}
    BY <1>t, <1>1 DEF TypeOK
  <2>2. \A u \in Runs : at[u] \notin {"idle", "applied"} => at'[u] = at[u]
    BY <1>t, <1>1 DEF TypeOK
  <2> QED
    BY <1>t, <1>1, <1>s, <2>1, <2>2 DEF Inherits, Targeted, OwnTarget
<1> QED
  BY <1>6, <1>7, <1>8, <1>9, <1>10, <1>11, <1>12 DEF IInv

(* What a step that leaves the variables of the environment alone keeps.   *)
LEMMA EnvKept ==
  ASSUME IInv, UNCHANGED <<server, env, saved, met>>, Active' = Active,
         \A u \in Runs : at'[u] = "idle" => at[u] = "idle"
  PROVE  Meetings' /\ Remembers' /\ Kept' /\ Given'
<1>1. Meetings /\ Remembers /\ Kept /\ Given
  BY DEF IInv
<1>2. \A k : Clash(k)' = Clash(k)
  BY DEF Clash, Sets
<1> QED
  BY <1>1, <1>2 DEF Meetings, Remembers, Kept, Given, Sets, Active

(* A plugin is started. *)
LEMMA StartStep == ASSUME IInv, NEW v \in Runs, StartPlugin(v) PROVE IInv'
<1>t. TypeOK /\ Shapes /\ Meetings /\ Remembers /\ Kept /\ Given /\ Inherits /\ Targeted
  BY DEF IInv
<1>1. /\ at[v] = "applied" /\ at' = [at EXCEPT ![v] = "verifying"]
      /\ inherited' = [inherited EXCEPT ![v] = env]
      /\ up' = up \cup {v} /\ calm' = [calm EXCEPT ![v] = Undisturbed(v)]
      /\ UNCHANGED <<server, env, saved, targets, met>>
  BY DEF StartPlugin, Move
<1>2. PICK p \in Ports : port' = [port EXCEPT ![v] = p]
  BY DEF StartPlugin
<1>s. /\ \A u \in Runs : Own(u)' = Own(u)
      /\ \A u \in Runs : \A e, t : Target(u, e, t)' = Target(u, e, t)
  BY <1>1, SameServers
<1>3. /\ Active' = Active /\ v \in Active
      /\ \A u \in Runs : at'[u] = "idle" => at[u] = "idle"
  BY <1>t, <1>1 DEF Active, TypeOK
<1>4. TypeOK' /\ Shapes'
  <2>1. Undisturbed(v) \in BOOLEAN
    BY DEF Undisturbed
  <2>2. calm' \in [Runs -> BOOLEAN] /\ up' \subseteq Runs
    BY <1>t, <1>1, <2>1 DEF TypeOK
  <2>3. \A u \in Runs : port'[u] \in Ports \cup {Unset}
    BY <1>t, <1>2 DEF TypeOK, Shapes
  <2>4. /\ at' \in [Runs -> {"idle", "applied", "verifying", "settled"}]
        /\ \A u \in Runs : DOMAIN inherited'[u] = EnvVars
    BY <1>t, <1>1 DEF TypeOK, Shapes
  <2> QED
    BY <1>t, <1>1, <1>2, <2>2, <2>3, <2>4 DEF TypeOK, Shapes
<1>5. Meetings' /\ Remembers' /\ Kept' /\ Given'
  BY <1>1, <1>3, EnvKept
<1>6. Inherits'
  <2> SUFFICES ASSUME NEW u \in Runs, calm'[u]
               PROVE  at'[u] \notin {"idle", "applied"} /\ inherited'[u] = Own(u)
    BY <1>s DEF Inherits
  <2>1. CASE u # v
    BY <1>t, <1>1, <2>1 DEF Inherits, TypeOK, Shapes
  <2>2. CASE u = v
    <3>1. Undisturbed(v) /\ at'[v] = "verifying" /\ inherited'[v] = env
      BY <1>t, <1>1, <2>2 DEF TypeOK, Shapes
    <3>2. ASSUME NEW k \in EnvVars PROVE env[k] = Own(v)[k]
      <4>1. ~Clash(k) /\ \A w \in met[v] : k \notin Sets(w)
        BY <3>1 DEF Undisturbed
      <4>2. CASE k \in Sets(v)
        BY <1>t, <1>3, <4>1, <4>2 DEF Given, Own
      <4>3. CASE k \notin Sets(v)
        <5>1. ASSUME NEW w \in Active, k \in Sets(w) PROVE FALSE
          <6>1. w # v /\ w \notin met[v]
            BY <4>1, <4>3, <5>1
          <6> QED
            BY <1>t, <1>3, <5>1, <6>1 DEF Meetings
        <5>2. env[k] = Initial[k]
          BY <1>t, <4>1, <5>1 DEF Kept
        <5> QED
          BY <4>3, <5>2 DEF Own
      <4> QED
        BY <4>2, <4>3
    <3>3. env = [k \in EnvVars |-> env[k]]
      BY <1>t DEF Shapes
    <3> QED
      BY <2>2, <3>1, <3>2, <3>3 DEF Own
  <2> QED
    BY <2>1, <2>2
<1>7. Targeted'
  <2> SUFFICES ASSUME NEW u \in Runs
               PROVE  /\ at'[u] \in {"idle", "applied"} => targets'[u] = <<>> /\ u \notin up'
                      /\ \A i \in DOMAIN targets'[u] : OwnTarget(u, i)'
    BY DEF Targeted
  <2>1. CASE u = v
    BY <1>t, <1>1, <2>1 DEF Targeted, TypeOK
  <2>2. CASE u # v
    BY <1>t, <1>1, <1>s, <2>2 DEF Targeted, OwnTarget, TypeOK, Shapes
  <2> QED
    BY <2>1, <2>2
<1> QED
  BY <1>4, <1>5, <1>6, <1>7 DEF IInv

(* A plugin ends. *)
LEMMA EndStep == ASSUME IInv, NEW v \in Runs, PluginEnds(v) PROVE IInv'
<1>t. TypeOK /\ Shapes /\ Meetings /\ Remembers /\ Kept /\ Given /\ Inherits /\ Targeted
  BY DEF IInv
<1>1. /\ up' = up \ {v}
      /\ UNCHANGED <<server, env, at, saved, inherited, port, targets, met, calm>>
  BY DEF PluginEnds
<1>s. /\ \A u \in Runs : Own(u)' = Own(u)
      /\ \A u \in Runs : \A e, t : Target(u, e, t)' = Target(u, e, t)
  BY <1>1, SameServers
<1>2. TypeOK' /\ Shapes'
  BY <1>t, <1>1 DEF TypeOK, Shapes
<1>3. Active' = Active
  BY <1>1 DEF Active
<1>4. Meetings' /\ Remembers' /\ Kept' /\ Given'
  BY <1>1, <1>3, EnvKept
<1>5. Inherits' /\ Targeted'
  BY <1>t, <1>1, <1>s DEF Inherits, Targeted, OwnTarget
<1> QED
  BY <1>2, <1>4, <1>5 DEF IInv

(* The kinds of targets. *)
LEMMA Kinds ==
  ASSUME NEW v, NEW e, NEW t PROVE Target(v, e, t).kind \in {"error", "http", "stdio"}
<1>1. HttpTarget(v, e).kind \in {"error", "http"}
  BY DEF HttpTarget, Error
<1>2. StdioTarget(v, e).kind \in {"error", "stdio"}
  BY DEF StdioTarget, Error
<1> QED
  BY <1>1, <1>2 DEF Target

(* An interaction is verified. *)
LEMMA VerifyStep == ASSUME IInv, NEW v \in Runs, VerifyInteraction(v) PROVE IInv'
<1>t. TypeOK /\ Shapes /\ Meetings /\ Remembers /\ Kept /\ Given /\ Inherits /\ Targeted
  BY DEF IInv
<1>1. /\ at[v] = "verifying" /\ Len(targets[v]) < Len(Pact[v])
      /\ UNCHANGED <<server, env, at, saved, inherited, port, up, met, calm>>
  BY DEF VerifyInteraction
<1>s. /\ \A u \in Runs : Own(u)' = Own(u)
      /\ \A u \in Runs : \A e, t : Target(u, e, t)' = Target(u, e, t)
  BY <1>1, SameServers
<1>2. PICK target : /\ targets' = [targets EXCEPT ![v] = Append(targets[v], target)]
                    /\ \/ target = Target(v, inherited[v], Pact[v][Len(targets[v]) + 1])
                       \/ target = Error /\ v \notin up
  <2> DEFINE next == Pact[v][Len(targets[v]) + 1]
             listening == {u \in up : port[u] = port[v] /\ KeyIsValid(u, v)}
  <2>1. CASE listening = {} /\ targets' = [targets EXCEPT ![v] = Append(@, Error)]
    <3>1. v \notin up
      BY <2>1 DEF KeyIsValid
    <3> QED
      BY <2>1, <3>1
  <2>2. CASE \E u \in listening : targets' = [targets EXCEPT
                                    ![v] = Append(@, Target(v, inherited[u], next))]
    BY <2>2 DEF KeyIsValid
  <2> QED
    BY <2>1, <2>2 DEF VerifyInteraction
<1>3. target.kind \in {"error", "http", "stdio"}
  BY <1>2, Kinds DEF Error
<1>4. /\ targets'[v] = Append(targets[v], target)
      /\ \A u \in Runs \ {v} : targets'[u] = targets[u]
      /\ DOMAIN targets' = Runs
  BY <1>t, <1>2 DEF Shapes
<1>5. /\ IsList(targets'[v]) /\ Len(targets'[v]) = Len(targets[v]) + 1
      /\ Len(targets[v]) \in Nat
      /\ \A i \in DOMAIN targets'[v] :
           \/ i \in DOMAIN targets[v] /\ targets'[v][i] = targets[v][i]
           \/ i = Len(targets[v]) + 1 /\ targets'[v][i] = target
  <2> DEFINE s == targets[v]
  <2>1. IsList(s) /\ targets'[v] = Append(s, target)
    BY <1>t, <1>4 DEF Shapes
  <2> HIDE DEF s
  <2> QED
    BY <2>1, Longer DEF s
<1>6. Len(targets'[v]) <= Len(Pact[v])
  BY <1>1, <1>5, VerifierAssumption
<1>7. \A i \in DOMAIN targets'[v] : targets'[v][i].kind \in {"error", "http", "stdio"}
  BY <1>t, <1>3, <1>5 DEF TypeOK
<1>8. TypeOK' /\ Shapes'
  BY <1>t, <1>1, <1>4, <1>5, <1>6, <1>7 DEF Shapes, TypeOK
<1>9. Active' = Active
  BY <1>1 DEF Active
<1>10. Meetings' /\ Remembers' /\ Kept' /\ Given'
  BY <1>1, <1>9, EnvKept
<1>11. Inherits'
  BY <1>t, <1>1, <1>s DEF Inherits
<1>12. ASSUME NEW u \in Runs, NEW i \in DOMAIN targets'[u] PROVE OwnTarget(u, i)'
  <2>1. CASE u # v
    BY <1>t, <1>1, <1>4, <1>s, <2>1 DEF Targeted, OwnTarget
  <2>2. CASE u = v /\ i \in DOMAIN targets[v] /\ targets'[v][i] = targets[v][i]
    BY <1>t, <1>1, <1>s, <2>2 DEF Targeted, OwnTarget
  <2>3. CASE u = v /\ i = Len(targets[v]) + 1 /\ targets'[v][i] = target
    BY <1>1, <1>2, <1>s, <2>3 DEF OwnTarget
  <2> QED
    BY <1>5, <1>12, <2>1, <2>2, <2>3
<1>13. Targeted'
  BY <1>t, <1>1, <1>4, <1>12 DEF Targeted
<1> QED
  BY <1>8, <1>10, <1>11, <1>13 DEF IInv

(* A run is over. *)
LEMMA RestoreStep == ASSUME IInv, NEW v \in Runs, RestoreEnv(v) PROVE IInv'
<1>t. TypeOK /\ Shapes /\ Meetings /\ Remembers /\ Kept /\ Given /\ Inherits /\ Targeted
  BY DEF IInv
<1>1. /\ v \in Active /\ at' = [at EXCEPT ![v] = "settled"]
      /\ UNCHANGED <<server, saved, inherited, port, up, targets, met, calm>>
      /\ DOMAIN env' = EnvVars /\ env' = [k \in EnvVars |-> env'[k]]
      /\ \A k \in EnvVars : env'[k] = IF k \in DOMAIN saved[v] THEN saved[v][k] ELSE env[k]
  BY DEF RestoreEnv
<1>s. /\ \A u \in Runs : Sets(u)' = Sets(u) /\ Own(u)' = Own(u)
      /\ \A u \in Runs : EnvOf(server[u])' = EnvOf(server[u])
      /\ \A u \in Runs : \A e, t : Target(u, e, t)' = Target(u, e, t)
  BY <1>1, SameServers
<1>c. \A k : Clash(k)' = Clash(k)
  BY <1>1 DEF Clash, Sets
<1>2. Active' = Active \ {v} /\ Active \subseteq Runs
  BY <1>t, <1>1 DEF Active, TypeOK
<1>3. TypeOK' /\ Shapes'
  BY <1>t, <1>1 DEF TypeOK, Shapes
<1>4. Meetings'
  BY <1>t, <1>1, <1>2 DEF Meetings, TypeOK
<1>5. Remembers'
  BY <1>t, <1>1, <1>2, <1>s DEF Remembers
<1>6. DOMAIN saved[v] = Sets(v)
  BY <1>t, <1>1 DEF Remembers
<1>7. Kept'
  <2> SUFFICES ASSUME NEW k \in EnvVars, ~Clash(k)
               PROVE  /\ (\A u \in Active' : k \notin Sets(u)') => env'[k] = Initial[k]
                      /\ \A u \in Active' : k \in Sets(u)' => saved'[u][k] = Initial[k]
    BY <1>c DEF Kept
  <2> QED
    BY <1>t, <1>1, <1>2, <1>6, <1>s DEF Kept
<1>8. Given'
  <2> SUFFICES ASSUME NEW u \in Active', NEW k \in Sets(u), ~Clash(k)
               PROVE  env'[k] = EnvOf(server[u])[k]
    BY <1>2, <1>c, <1>s DEF Given
  <2>1. u \in Active /\ u # v /\ u \in Runs /\ v \in Runs /\ k \in EnvVars
    BY <1>t, <1>2, SetsAreVars
  <2>2. k \notin Sets(v)
    BY <1>t, <1>1, <2>1 DEF Meetings, Clash
  <2> QED
    BY <1>t, <1>1, <1>6, <2>1, <2>2 DEF Given
<1>9. Inherits' /\ Targeted'
  <2>1. \A u \in Runs : /\ at'[u] \in {"idle", "applied"} => at[u] \in {"idle", "applied"}
                        /\ at[u] \notin {"idle", "applied"} => at'[u] \notin {"idle", "applied"}
    BY <1>t, <1>1 DEF TypeOK
  <2> QED
    BY <1>t, <1>1, <1>s, <2>1 DEF Inherits, Targeted, OwnTarget
<1> QED
  BY <1>3, <1>4, <1>5, <1>7, <1>8, <1>9 DEF IInv

(* Hence the invariant holds, ... *)
LEMMA Invariance == Spec => []IInv
<1>1. IInv /\ [Next]_vars => IInv'
  <2> SUFFICES ASSUME IInv, [Next]_vars PROVE IInv'
    OBVIOUS
  <2>1. CASE Next
    BY <2>1, ApplyStep, StartStep, EndStep, VerifyStep, RestoreStep DEF Next, Run
  <2>2. CASE UNCHANGED vars
    <3>1. /\ UNCHANGED <<server, env, at, saved, inherited, port, up, targets, met, calm>>
          /\ Active' = Active
      BY <2>2 DEF vars, Active
    <3>2. Meetings' /\ Remembers' /\ Kept' /\ Given'
      BY <3>1, EnvKept
    <3>3. TypeOK' /\ Shapes'
      BY <3>1 DEF IInv, TypeOK, Shapes
    <3>4. Inherits' /\ Targeted'
      BY <3>1, SameServers DEF IInv, Inherits, Targeted, OwnTarget
    <3> QED
      BY <3>2, <3>3, <3>4 DEF IInv
  <2> QED
    BY <2>1, <2>2
<1> QED
  BY <1>1, InitIInv, PTL DEF Spec

(* ... and with it: the variables stay in their ranges; ...                *)
THEOREM TypeCorrect == Spec => []TypeOK
<1>1. IInv => TypeOK
  BY DEF IInv
<1> QED
  BY <1>1, Invariance, PTL

(* ... with no run left, a variable is what it was at first, unless two    *)
(* runs that set it overlapped; ...                                        *)
THEOREM EnvComesBack == Spec => []EnvRestored
<1>1. IInv => EnvRestored
  BY DEF IInv, Kept, EnvRestored
<1> QED
  BY <1>1, Invariance, PTL

-----------------------------------------------------------------------------
(* In the environment of its own run, a plugin resolves what is expected.  *)
LEMMA OwnIsExpected ==
  ASSUME TypeOK, NEW v \in Runs, Plain(v), NEW t
  PROVE  Target(v, Own(v), t) = Expected(v, t)
<1> DEFINE s == server[v]
<1>1. s \in Servers[v] /\ Sets(v) = DOMAIN EnvOf(s)
  BY SetsAreVars DEF Sets
<1>2. \A k \in EnvVars : Own(v)[k] = IF k \in Sets(v) THEN EnvOf(s)[k] ELSE Initial[k]
  BY DEF Own
<1>3. CASE s.type = "http"
  <2>1. /\ \A k \in {"COMMAND", "ARGS", "OTHER"} : Own(v)[k] = Initial[k]
        /\ Own(v)["PATH"] = OrElse(s.path, Initial["PATH"])
        /\ Own(v)["AUTH"] = OrElse(s.auth, Initial["AUTH"])
    BY <1>1, <1>2, <1>3 DEF EnvOf, EnvVars, OrElse
  <2>2. s.scheme = "http"
    BY <1>3 DEF Plain
  <2>3. HttpTarget(v, Own(v)) = HttpExpected(v)
    BY <1>3, <2>1, <2>2 DEF HttpTarget, HttpExpected
  <2>4. StdioTarget(v, Own(v)) = StdioExpected(v)
    BY <1>3, <2>1 DEF StdioTarget, StdioExpected, OrElse, Plain
  <2> QED
    BY <2>3, <2>4 DEF Target, Expected
<1>4. CASE s.type = "stdio"
  <2>1. /\ Own(v)["COMMAND"] = s.command /\ s.command # Unset
        /\ Own(v)["ARGS"] = FlattenSeq(s.args) /\ FlattenSeq(s.args) # Unset
        /\ Own(v)["OTHER"] = IF "OTHER" \in DOMAIN s.env THEN s.env["OTHER"]
                             ELSE Initial["OTHER"]
    BY <1>1, <1>2, <1>4, PlainServers DEF EnvOf, EnvVars
  <2>2. HttpTarget(v, Own(v)) = HttpExpected(v)
    BY <1>4 DEF HttpTarget, HttpExpected
  <2>3. SplitWhitespace(FlattenSeq(s.args)) = s.args
    BY <1>1, <1>4, PlainServers
  <2>4. StdioTarget(v, Own(v)) = StdioExpected(v)
    BY <1>4, <2>1, <2>3 DEF StdioTarget, StdioExpected, OrElse, Plain
  <2> QED
    BY <2>2, <2>4 DEF Target, Expected
<1> QED
  BY <1>1, <1>3, <1>4, VerifierAssumption

(* Hence a run that was undisturbed until its plugin was started verifies  *)
(* its own server, or nothing.                                             *)
THEOREM OwnServer == Spec => []VerifiesOwnServer
<1>1. ASSUME IInv PROVE VerifiesOwnServer
  <2> SUFFICES ASSUME NEW v \in Runs, calm[v], Plain(v), NEW i \in DOMAIN targets[v]
               PROVE  \/ targets[v][i] = Expected(v, Pact[v][i])
                      \/ targets[v][i] = Error /\ v \notin up
    BY DEF VerifiesOwnServer
  <2>1. inherited[v] = Own(v) /\ OwnTarget(v, i)
    BY <1>1 DEF IInv, Inherits, Targeted
  <2>2. Target(v, Own(v), Pact[v][i]) = Expected(v, Pact[v][i])
    BY <1>1, OwnIsExpected DEF IInv
  <2> QED
    BY <2>1, <2>2 DEF OwnTarget
<1> QED
  BY <1>1, Invariance, PTL

(* What resolves has no reference left.                                    *)
LEMMA Interpolated ==
  ASSUME NEW text, NEW e, Resolvable(text, e)
  PROVE  \A j \in DOMAIN InterpolateEnv(text, e) : InterpolateEnv(text, e)[j].piece = "lit"
BY DEF Resolvable, InterpolateEnv, Lit

(* Nothing that is resolved keeps a reference in what is interpolated.     *)
Literal(text) == \A j \in DOMAIN text : text[j].piece = "lit"

LEMMA ResolvedIsLiteral ==
  ASSUME NEW c, NEW e, NEW url, ResolveConfig(c, e) # Failed,
         Connect(ResolveConfig(c, e), url) # Failed,
         NEW text \in Secrets(Connect(ResolveConfig(c, e), url)) \ {Unset}
  PROVE  Literal(text)
<1> DEFINE auth == ResolveConfig(c, e)
<1>1. CASE auth = NoAuth
  BY <1>1 DEF NoAuth, Connect, Secrets, Literal
<1>2. CASE auth # NoAuth
  <2> DEFINE from == FromConfig(c)
             Value(t) == IF t = Unset THEN Unset ELSE InterpolateEnv(t, e)
  <2>1. /\ \A t \in ToInterpolate(from) : t = Unset \/ Resolvable(t, e)
        /\ auth = [bearer  |-> Value(from.bearer),
                   headers |-> [i \in DOMAIN from.headers |->
                                  <<from.headers[i][1], Value(from.headers[i][2])>>],
                   oauth   |-> IF from.oauth = Unset THEN Unset
                               ELSE [from.oauth EXCEPT !.id = Value(@), !.secret = Value(@)]]
    BY <1>2 DEF ResolveConfig, Resolve
  <2>2. \A t \in ToInterpolate(from) : Value(t) = Unset \/ Literal(Value(t))
    BY <2>1, Interpolated DEF Literal
  <2>3. from.oauth = Unset \/ \E i, s, sc, r :
          from.oauth = [id |-> i, secret |-> s, scopes |-> sc, resource |-> r]
    <3>1. from \in {Bearer(c), ApiKey(c), Headers(c), OAuth(c)} /\ from # Failed
      BY <1>2 DEF ResolveConfig, FromConfig
    <3>2. CASE from \in {Bearer(c), ApiKey(c), Headers(c)}
      BY <3>1, <3>2 DEF Bearer, ApiKey, Headers, NoAuth
    <3>3. CASE from = OAuth(c)
      <4> DEFINE scopes == IF "scopes" \in DOMAIN c /\ c["scopes"].json = "array"
                           THEN Strings(c["scopes"].items) ELSE <<>>
                 texts == [i \in DOMAIN scopes |-> scopes[i].text]
                 client == [id       |-> Text(c, "clientId"),
                            secret   |-> Text(c, "clientSecret"),
                            scopes   |-> texts,
                            resource |-> Text(c, "resource")]
      <4>1. from = [NoAuth EXCEPT !.oauth = client]
        BY <3>1, <3>3 DEF OAuth
      <4>2. from.oauth = client
        <5> HIDE DEF client, from
        <5> QED
          BY <4>1 DEF NoAuth
      <4> HIDE DEF texts, from
      <4> QED
        BY <4>2
    <3> QED
      BY <3>1, <3>2, <3>3
  <2>4. CASE auth.oauth # Unset
    <3>1. PICK i, s, sc, r :
            from.oauth = [id |-> i, secret |-> s, scopes |-> sc, resource |-> r]
      <4>1. from.oauth # Unset
        <5> HIDE DEF from
        <5>1. auth.oauth = IF from.oauth = Unset THEN Unset
                           ELSE [from.oauth EXCEPT !.id = Value(@), !.secret = Value(@)]
          <6> HIDE DEF auth, Value
          <6> QED
            BY <2>1
        <5> HIDE DEF auth
        <5> QED
          BY <2>4, <5>1
      <4> HIDE DEF from
      <4> QED
        BY <2>3, <4>1
    <3>2. i \in ToInterpolate(from) /\ s \in ToInterpolate(from)
      BY <2>1, <2>4, <3>1 DEF ToInterpolate
    <3>3. auth.oauth = [id |-> Value(i), secret |-> Value(s), scopes |-> sc, resource |-> r]
      <4>1. auth.oauth = IF from.oauth = Unset THEN Unset
                         ELSE [from.oauth EXCEPT !.id = Value(@), !.secret = Value(@)]
        <5> HIDE DEF auth, Value, from
        <5> QED
          BY <2>1
      <4> HIDE DEF auth, from, Value
      <4>2. auth.oauth = [from.oauth EXCEPT !.id = Value(from.oauth.id),
                                            !.secret = Value(from.oauth.secret)]
        BY <2>4, <4>1
      <4>3. from.oauth.id = i /\ from.oauth.secret = s
        BY <3>1
      <4>4. auth.oauth = [[id |-> i, secret |-> s, scopes |-> sc, resource |-> r]
                            EXCEPT !.id = Value(i), !.secret = Value(s)]
        BY <3>1, <4>2, <4>3
      <4> QED
        BY <4>4
    <3>4. text \in {Value(i), Value(s)}
      BY <2>4, <3>3 DEF Connect, Secrets
    <3> QED
      BY <2>2, <3>2, <3>4
  <2>5. CASE auth.oauth = Unset
    <3>1. /\ from.bearer \in ToInterpolate(from)
          /\ \A i \in DOMAIN from.headers : from.headers[i][2] \in ToInterpolate(from)
      BY DEF ToInterpolate
    <3>2. \/ text = Value(from.bearer)
          \/ \E i \in DOMAIN from.headers : text = Value(from.headers[i][2])
      <4>1. text \in {auth.bearer} \cup {auth.headers[i][2] : i \in DOMAIN auth.headers}
        <5>1. Connect(auth, url) = [bearer |-> auth.bearer, oauth |-> Unset,
                headers |-> {auth.headers[i] : i \in DOMAIN auth.headers}]
          BY <2>5 DEF Connect
        <5> HIDE DEF auth
        <5> QED
          BY <5>1 DEF Secrets, auth
      <4>2. /\ auth.bearer = Value(from.bearer) /\ DOMAIN auth.headers = DOMAIN from.headers
            /\ \A i \in DOMAIN from.headers : auth.headers[i][2] = Value(from.headers[i][2])
        BY <2>1
      <4> HIDE DEF auth, from, Value
      <4> QED
        BY <4>1, <4>2
    <3> QED
      BY <2>2, <3>1, <3>2
  <2> QED
    BY <2>4, <2>5
<1> QED
  BY <1>1, <1>2

(* So no secret is sent that still is, or contains, a reference, whatever  *)
(* runs overlap.                                                           *)
THEOREM AllResolved == Spec => []NothingUnresolved
<1>1. ASSUME IInv PROVE NothingUnresolved
  <2> SUFFICES ASSUME NEW v \in Runs, NEW i \in DOMAIN targets[v],
                      targets[v][i].kind = "http",
                      NEW text \in Secrets(targets[v][i].auth) \ {Unset}
               PROVE  Literal(text)
    BY DEF NothingUnresolved, Literal
  <2> DEFINE e == inherited[v]
             path == OrElse(e["PATH"], "/")
             auth == ResolveConfig(e["AUTH"], e)
  <2>1. targets[v][i] = HttpTarget(v, e)
    <3>1. targets[v][i] = Target(v, e, Pact[v][i])
      BY <1>1 DEF IInv, Targeted, OwnTarget, Error
    <3>2. StdioTarget(v, e).kind \in {"error", "stdio"}
      BY DEF StdioTarget, Error
    <3> QED
      BY <3>1, <3>2 DEF Target
  <2>2. /\ auth # Failed /\ Connect(auth, path) # Failed
        /\ targets[v][i].auth = Connect(auth, path)
    BY <2>1 DEF HttpTarget, Error
  <2> QED
    BY <2>2, ResolvedIsLiteral
<1> QED
  BY <1>1, Invariance, PTL
=============================================================================
