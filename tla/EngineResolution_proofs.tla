----------------------- MODULE EngineResolution_proofs -----------------------
(***************************************************************************)
(* What the installer promises for any number of its runs, and what a test *)
(* that looks for the engine is promised beside them, whatever else is     *)
(* installed or built.                                                     *)
(***************************************************************************)
EXTENDS EngineResolution, TLAPS

(* A file is there once a run has opened it, and only then. *)
Opened(f) ==
  /\ opener[f] = {} \/ \E r \in Runs : opener[f] = {r}
  /\ disk[f] = "absent" <=> opener[f] = {}
OpenedOnce == Opened("binary") /\ Opened("manifest")

(* A file is partial while the run that opened it last writes, or because  *)
(* that run was cut off.                                                   *)
Partial(f, r) == disk[f] = "partial" /\ opener[f] = {r}
PartialIsOwned ==
  \A r \in Runs :
    /\ Partial("binary", r) => at[r] \in {"write binary", "cut off"}
    /\ Partial("manifest", r) => at[r] \in {"write manifest", "cut off"}

(* How far a run has come: what has been opened before. *)
Reached ==
  \A r \in Runs :
    /\ at[r] \in {"write binary", "fetch manifest", "open manifest",
                  "write manifest", "installed"} => opener["binary"] # {}
    /\ at[r] \in {"write manifest", "installed"} => opener["manifest"] # {}

(* The run that opened the manifest last is past the binary. *)
ManifestOpener ==
  \A r \in Runs : opener["manifest"] = {r} =>
    at[r] \in {"write manifest", "installed", "cut off"}

IInv == TypeOK /\ OpenedOnce /\ PartialIsOwned /\ Reached /\ ManifestOpener
          /\ ManifestComesLast

-----------------------------------------------------------------------------
(* Nothing is on disk at first. *)
LEMMA InitIInv == Init => IInv
BY DEF Init, IInv, TypeOK, OpenedOnce, Opened, PartialIsOwned, Partial, Reached, ManifestOpener,
       ManifestComesLast, Files, Ended

(* The stages of a run, file by file. *)
LEMMA Names ==
  /\ Files = {"binary", "manifest"}
  /\ Fetching["binary"] = "fetch binary" /\ Fetching["manifest"] = "fetch manifest"
  /\ Opening["binary"] = "open binary" /\ Opening["manifest"] = "open manifest"
  /\ Writing["binary"] = "write binary" /\ Writing["manifest"] = "write manifest"
  /\ After["binary"] = "fetch manifest" /\ After["manifest"] = "installed"
BY DEF Files, Fetching, Opening, Writing, After

(* Every step of every run keeps the variables in their ranges, ...        *)
LEMMA TypeStep == TypeOK /\ [Next]_vars => TypeOK'
<1> SUFFICES ASSUME TypeOK, [Next]_vars PROVE TypeOK'
  OBVIOUS
<1> USE DEF TypeOK, Ended, Move
<1>1. ASSUME NEW r \in Runs, Begin(r) PROVE TypeOK'
  BY <1>1 DEF Begin
<1>2. ASSUME NEW r \in Runs, Kill(r) PROVE TypeOK'
  BY <1>2 DEF Kill
<1>3. ASSUME NEW r \in Runs, NEW f \in Files, Fetch(r, f) PROVE TypeOK'
  <2>1. \E to \in {"open binary", "open manifest", "failed"} :
          at' = [at EXCEPT ![r] = to]
    BY <1>3, Names DEF Fetch
  <2> QED
    BY <1>3, <2>1 DEF Fetch
<1>4. ASSUME NEW r \in Runs, NEW f \in Files, Open(r, f) PROVE TypeOK'
  BY <1>4, Names DEF Open
<1>5. ASSUME NEW r \in Runs, NEW f \in Files, Write(r, f) PROVE TypeOK'
  <2>1. PICK content \in {disk[f], "whole"} : disk' = [disk EXCEPT ![f] = content]
    BY <1>5 DEF Write
  <2>2. /\ disk' \in [Files -> {"absent", "partial", "whole"}]
        /\ opener' \in [Files -> SUBSET Runs]
    BY <1>5, <2>1 DEF Write
  <2>3. After[f] \in {"fetch manifest", "installed"}
    BY Names
  <2> QED
    BY <1>5, <2>2, <2>3 DEF Write
<1>6. ASSUME NEW r \in Runs, NEW f \in Files, WriteFails(r, f) PROVE TypeOK'
  BY <1>6 DEF WriteFails
<1>7. CASE UNCHANGED vars
  BY <1>7 DEF vars
<1> QED
  BY <1>1, <1>2, <1>3, <1>4, <1>5, <1>6, <1>7 DEF Next

(* ... and, about the binary or about the manifest, the whole invariant.   *)
LEMMA StepIInv == IInv /\ [Next]_vars => IInv'
<1> SUFFICES ASSUME IInv, [Next]_vars PROVE IInv'
  OBVIOUS
<1>t. /\ TypeOK /\ TypeOK' /\ OpenedOnce /\ PartialIsOwned /\ Reached
      /\ ManifestOpener /\ ManifestComesLast
  BY TypeStep DEF IInv
<1>1. ASSUME NEW r \in Runs, Begin(r) PROVE IInv'
  <2>0. /\ at[r] = "idle" /\ at'[r] \in {"skipped", "already", "fetch binary"}
        /\ UNCHANGED <<disk, opener>>
        /\ \A s \in Runs \ {r} : at'[s] = at[s]
    BY <1>1, <1>t, Names DEF Begin, Move, TypeOK
  <2>1. OpenedOnce'
    BY <1>t, <2>0, Names DEF OpenedOnce, Opened
  <2>2. PartialIsOwned'
    BY <1>t, <2>0, Names DEF PartialIsOwned, Partial
  <2>3. Reached'
    BY <1>t, <2>0, Names DEF Reached
  <2>4. ManifestOpener'
    BY <1>t, <2>0, Names DEF ManifestOpener
  <2>5. ManifestComesLast'
    BY <1>t, <2>0, Names DEF ManifestComesLast
  <2> QED
    BY <1>t, <2>1, <2>2, <2>3, <2>4, <2>5 DEF IInv
<1>2. ASSUME NEW r \in Runs, Kill(r) PROVE IInv'
  <2>0. /\ \/ at[r] \in {"write binary", "write manifest"} /\ at'[r] = "cut off"
           \/ /\ at[r] \notin {"write binary", "write manifest", "installed", "cut off"}
              /\ at'[r] = "killed"
        /\ UNCHANGED <<disk, opener>>
        /\ \A s \in Runs \ {r} : at'[s] = at[s]
    <3>1. (\E f \in Files : at[r] = Writing[f]) <=> at[r] \in {"write binary", "write manifest"}
      BY Names
    <3> QED
      BY <1>2, <1>t, <3>1 DEF Kill, Over, Ended, TypeOK
  <2>1. OpenedOnce'
    BY <1>t, <2>0, Names DEF OpenedOnce, Opened
  <2>2. PartialIsOwned'
    BY <1>t, <2>0, Names DEF PartialIsOwned, Partial
  <2>3. Reached'
    BY <1>t, <2>0, Names DEF Reached
  <2>4. ManifestOpener'
    BY <1>t, <2>0, Names DEF ManifestOpener
  <2>5. ManifestComesLast'
    BY <1>t, <2>0, Names DEF ManifestComesLast
  <2> QED
    BY <1>t, <2>1, <2>2, <2>3, <2>4, <2>5 DEF IInv
<1>3. ASSUME NEW r \in Runs, Fetch(r, "binary") PROVE IInv'
  <2>0. /\ at[r] = "fetch binary" /\ at'[r] \in {"open binary", "failed"}
        /\ UNCHANGED <<disk, opener>>
        /\ \A s \in Runs \ {r} : at'[s] = at[s]
    BY <1>3, <1>t, Names DEF Fetch, Move, TypeOK
  <2>1. OpenedOnce'
    BY <1>t, <2>0, Names DEF OpenedOnce, Opened
  <2>2. PartialIsOwned'
    BY <1>t, <2>0, Names DEF PartialIsOwned, Partial
  <2>3. Reached'
    BY <1>t, <2>0, Names DEF Reached
  <2>4. ManifestOpener'
    BY <1>t, <2>0, Names DEF ManifestOpener
  <2>5. ManifestComesLast'
    BY <1>t, <2>0, Names DEF ManifestComesLast
  <2> QED
    BY <1>t, <2>1, <2>2, <2>3, <2>4, <2>5 DEF IInv
<1>4. ASSUME NEW r \in Runs, Fetch(r, "manifest") PROVE IInv'
  <2>0. /\ at[r] = "fetch manifest" /\ at'[r] \in {"open manifest", "failed"}
        /\ UNCHANGED <<disk, opener>>
        /\ \A s \in Runs \ {r} : at'[s] = at[s]
    BY <1>4, <1>t, Names DEF Fetch, Move, TypeOK
  <2>1. OpenedOnce'
    BY <1>t, <2>0, Names DEF OpenedOnce, Opened
  <2>2. PartialIsOwned'
    BY <1>t, <2>0, Names DEF PartialIsOwned, Partial
  <2>3. Reached'
    BY <1>t, <2>0, Names DEF Reached
  <2>4. ManifestOpener'
    BY <1>t, <2>0, Names DEF ManifestOpener
  <2>5. ManifestComesLast'
    BY <1>t, <2>0, Names DEF ManifestComesLast
  <2> QED
    BY <1>t, <2>1, <2>2, <2>3, <2>4, <2>5 DEF IInv
<1>5. ASSUME NEW r \in Runs, Open(r, "binary") PROVE IInv'
  <2>0. /\ at[r] = "open binary" /\ at'[r] = "write binary"
        /\ disk'["binary"] = "partial" /\ disk'["manifest"] = disk["manifest"]
        /\ opener'["binary"] = {r} /\ opener'["manifest"] = opener["manifest"]
        /\ \A s \in Runs \ {r} : at'[s] = at[s]
    BY <1>5, <1>t, Names DEF Open, Files, Move, TypeOK
  <2>1. OpenedOnce'
    BY <1>t, <2>0, Names DEF OpenedOnce, Opened
  <2>2. PartialIsOwned'
    BY <1>t, <2>0, Names DEF PartialIsOwned, Partial
  <2>3. Reached'
    BY <1>t, <2>0, Names DEF Reached
  <2>4. ManifestOpener'
    BY <1>t, <2>0, Names DEF ManifestOpener
  <2>5. ManifestComesLast'
    BY <1>t, <2>0, Names DEF ManifestComesLast, OpenedOnce, Opened, ManifestOpener
  <2> QED
    BY <1>t, <2>1, <2>2, <2>3, <2>4, <2>5 DEF IInv
<1>6. ASSUME NEW r \in Runs, Open(r, "manifest") PROVE IInv'
  <2>0. /\ at[r] = "open manifest" /\ at'[r] = "write manifest"
        /\ disk'["manifest"] = "partial" /\ disk'["binary"] = disk["binary"]
        /\ opener'["manifest"] = {r} /\ opener'["binary"] = opener["binary"]
        /\ \A s \in Runs \ {r} : at'[s] = at[s]
    BY <1>6, <1>t, Names DEF Open, Files, Move, TypeOK
  <2>1. OpenedOnce'
    BY <1>t, <2>0, Names DEF OpenedOnce, Opened
  <2>2. PartialIsOwned'
    BY <1>t, <2>0, Names DEF PartialIsOwned, Partial
  <2>3. Reached'
    BY <1>t, <2>0, Names DEF Reached
  <2>4. ManifestOpener'
    BY <1>t, <2>0, Names DEF ManifestOpener
  <2>5. ManifestComesLast'
    BY <1>t, <2>0, Names DEF ManifestComesLast, OpenedOnce, Opened, PartialIsOwned, Partial, Reached, TypeOK
  <2> QED
    BY <1>t, <2>1, <2>2, <2>3, <2>4, <2>5 DEF IInv
<1>7. ASSUME NEW r \in Runs, Write(r, "binary") PROVE IInv'
  <2>0. /\ at[r] = "write binary" /\ at'[r] = "fetch manifest"
        /\ disk'["manifest"] = disk["manifest"] /\ opener' = opener
        /\ disk'["binary"] \in {disk["binary"], "whole"}
        /\ opener["binary"] = {r} => disk'["binary"] = "whole"
        /\ \A s \in Runs \ {r} : at'[s] = at[s]
    BY <1>7, <1>t, Names DEF Write, Files, Move, TypeOK
  <2>1. OpenedOnce'
    BY <1>t, <2>0, Names DEF OpenedOnce, Opened, Reached
  <2>2. PartialIsOwned'
    BY <1>t, <2>0, Names DEF PartialIsOwned, Partial
  <2>3. Reached'
    BY <1>t, <2>0, Names DEF Reached
  <2>4. ManifestOpener'
    BY <1>t, <2>0, Names DEF ManifestOpener
  <2>5. ManifestComesLast'
    BY <1>t, <2>0, Names DEF ManifestComesLast
  <2> QED
    BY <1>t, <2>1, <2>2, <2>3, <2>4, <2>5 DEF IInv
<1>8. ASSUME NEW r \in Runs, Write(r, "manifest") PROVE IInv'
  <2>0. /\ at[r] = "write manifest" /\ at'[r] = "installed"
        /\ disk'["binary"] = disk["binary"] /\ opener' = opener
        /\ disk'["manifest"] \in {disk["manifest"], "whole"}
        /\ opener["manifest"] = {r} => disk'["manifest"] = "whole"
        /\ \A s \in Runs \ {r} : at'[s] = at[s]
    BY <1>8, <1>t, Names DEF Write, Files, Move, TypeOK
  <2>1. OpenedOnce'
    BY <1>t, <2>0, Names DEF OpenedOnce, Opened, Reached
  <2>2. PartialIsOwned'
    BY <1>t, <2>0, Names DEF PartialIsOwned, Partial
  <2>3. Reached'
    BY <1>t, <2>0, Names DEF Reached
  <2>4. ManifestOpener'
    BY <1>t, <2>0, Names DEF ManifestOpener
  <2>5. ManifestComesLast'
    BY <1>t, <2>0, Names DEF ManifestComesLast
  <2> QED
    BY <1>t, <2>1, <2>2, <2>3, <2>4, <2>5 DEF IInv
<1>9. ASSUME NEW r \in Runs, NEW f \in Files, WriteFails(r, f) PROVE IInv'
  <2>0. /\ at[r] \in {"write binary", "write manifest"} /\ at'[r] = "cut off"
        /\ UNCHANGED <<disk, opener>>
        /\ \A s \in Runs \ {r} : at'[s] = at[s]
    BY <1>9, <1>t, Names DEF WriteFails, Move, TypeOK
  <2>1. OpenedOnce'
    BY <1>t, <2>0, Names DEF OpenedOnce, Opened
  <2>2. PartialIsOwned'
    BY <1>t, <2>0, Names DEF PartialIsOwned, Partial
  <2>3. Reached'
    BY <1>t, <2>0, Names DEF Reached
  <2>4. ManifestOpener'
    BY <1>t, <2>0, Names DEF ManifestOpener
  <2>5. ManifestComesLast'
    BY <1>t, <2>0, Names DEF ManifestComesLast
  <2> QED
    BY <1>t, <2>1, <2>2, <2>3, <2>4, <2>5 DEF IInv
<1>10. CASE UNCHANGED vars
  BY <1>t, <1>10 DEF vars, IInv, OpenedOnce, PartialIsOwned, Reached, ManifestOpener,
     ManifestComesLast, Opened, Partial
<1> QED
  BY <1>1, <1>2, <1>3, <1>4, <1>5, <1>6, <1>7, <1>8, <1>9, <1>10 DEF Next, Files

-----------------------------------------------------------------------------
(* However many runs overlap, fail and are killed, and wherever: the       *)
(* variables stay in their ranges; ...                                     *)
THEOREM TypeCorrect == Spec => []TypeOK
<1>1. IInv => TypeOK
  BY DEF IInv
<1> QED
  BY <1>1, InitIInv, StepIInv, PTL DEF Spec

(* ... a manifest never names a binary that the run which wrote it has not *)
(* finished; ...                                                           *)
THEOREM ManifestLast == Spec => []ManifestComesLast
<1>1. IInv => ManifestComesLast
  BY DEF IInv
<1> QED
  BY <1>1, InitIInv, StepIInv, PTL DEF Spec

(* ... and a success with no run cut off leaves the engine complete: a     *)
(* file that was opened and is still partial has an opener at work or cut  *)
(* off.                                                                    *)
THEOREM CompleteInstall == Spec => []InstalledIsComplete
<1>1. IInv => InstalledIsComplete
  <2> SUFFICES ASSUME IInv, Quiet, \A r \in Runs : at[r] # "cut off",
                      NEW i \in Runs, at[i] = "installed", NEW f \in Files
               PROVE  disk[f] = "whole"
    BY DEF InstalledIsComplete, Complete
  <2>1. opener[f] # {}
    BY Names DEF IInv, Reached
  <2>2. Opened(f)
    BY Names DEF IInv, OpenedOnce
  <2>3. PICK r \in Runs : opener[f] = {r}
    BY <2>1, <2>2 DEF Opened
  <2>4. at[r] \notin {"write binary", "write manifest", "cut off"}
    BY DEF Quiet, Over, Ended
  <2>5. disk[f] # "partial"
    BY <2>3, <2>4, Names DEF IInv, PartialIsOwned, Partial
  <2> QED
    BY <2>1, <2>2, <2>5 DEF IInv, TypeOK, Opened
<1> QED
  BY <1>1, InitIInv, StepIInv, PTL DEF Spec

-----------------------------------------------------------------------------
(* A test that looks for the engine.                                       *)

(* What stood when the test began stands, and is still to be tried ...     *)
Standing ==
  /\ home \in Homes
  /\ stood \subseteq Engines
  /\ test = "listed" => stood \subseteq seen

(* ... until one is found: a directory with an engine, ...                 *)
FoundStands == engine.place = "directory" => engine.dir \in Engines
NotYet == test \in {"idle", "listed"} => engine.place = "nowhere"

RInv == IInv /\ Standing /\ FoundStands /\ NotYet /\ ResolvedRuns

-----------------------------------------------------------------------------
(* The installers do not notice the test. *)
LEMMA InstallStep == [ResolutionNext]_allVars => [Next]_vars
BY DEF ResolutionNext, Test, Installers, ReadDir, TryLast, TryBuilds, Spawn, Step, Resolved,
       allVars, testVars

(* An engine that stands is never taken away. *)
LEMMA EnginesStay ==
  ASSUME IInv, [Next]_vars, UNCHANGED home
  PROVE  Engines \subseteq Engines'
<1>1. disk["binary"] # "absent" => disk'["binary"] # "absent"
  <2>1. IInv'
    BY StepIInv
  <2> SUFFICES ASSUME disk["binary"] # "absent" PROVE disk'["binary"] # "absent"
    OBVIOUS
  <2>2. CASE \E r \in Runs, f \in Files : Open(r, f)
    BY <2>2, Names DEF Open, IInv, TypeOK
  <2>3. CASE \E r \in Runs, f \in Files : Write(r, f)
    BY <2>3, Names DEF Write, IInv, TypeOK
  <2>4. CASE UNCHANGED disk
    BY <2>4
  <2> QED
    BY <2>2, <2>3, <2>4 DEF Next, Begin, Kill, Fetch, WriteFails, vars
<1> QED
  BY <1>1 DEF Engines

(* A binary that stands is whole, when no installer is at work or cut off. *)
LEMMA SettledIsWhole ==
  ASSUME IInv, Quiet, \A r \in Runs : at[r] # "cut off", disk["binary"] # "absent"
  PROVE  disk["binary"] = "whole"
<1>1. PICK r \in Runs : opener["binary"] = {r}
  BY DEF IInv, OpenedOnce, Opened
<1>2. at[r] \notin {"write binary", "cut off"}
  BY DEF Quiet, Over, Ended
<1>3. disk["binary"] # "partial"
  BY <1>1, <1>2 DEF IInv, PartialIsOwned, Partial
<1> QED
  BY <1>3, Names DEF IInv, TypeOK

LEMMA InitRInv == ResolutionInit => RInv
BY InitIInv DEF ResolutionInit, RInv, Standing, FoundStands, NotYet, ResolvedRuns, NoEngine, From,
                NotStarted

LEMMA StepRInv == RInv /\ [ResolutionNext]_allVars => RInv'
<1> SUFFICES ASSUME RInv, [ResolutionNext]_allVars PROVE RInv'
  OBVIOUS
<1>i. IInv /\ IInv'
  BY InstallStep, StepIInv DEF RInv
<1>t. Standing /\ FoundStands /\ NotYet /\ ResolvedRuns
  BY DEF RInv
<1>u. CASE UNCHANGED <<vars, home>> /\ Test
  <2>0. Engines' = Engines
    BY <1>u DEF vars, Engines
  <2>1. CASE ReadDir
    BY <1>i, <1>t, <2>0, <2>1
    DEF ReadDir, Step, Resolved, From, RInv, Standing, FoundStands, NotYet, ResolvedRuns
  <2>2. CASE TryLast
    <3>1. PICK d \in seen :
            /\ \A x \in seen : x <= d
            /\ \/ /\ d \in Engines /\ test' = "resolved" /\ engine' = From("directory", d)
                  /\ UNCHANGED seen
               \/ /\ d \notin Engines /\ test' = "listed" /\ seen' = seen \ {d}
                  /\ UNCHANGED engine
      BY <2>2 DEF TryLast, Resolved, Step
    <3>2. test = "listed" /\ UNCHANGED <<stood, started, home>>
      BY <2>2 DEF TryLast, Resolved, Step
    <3> QED
      BY <1>i, <1>t, <2>0, <3>1, <3>2
      DEF From, RInv, Standing, FoundStands, NotYet, ResolvedRuns
  <2>3. CASE TryBuilds
    BY <1>i, <1>t, <2>0, <2>3
    DEF TryBuilds, Step, Resolved, From, RInv, Standing, FoundStands, NotYet, ResolvedRuns
  <2>4. CASE Spawn
    <3>1. /\ test = "resolved" /\ test' = "started"
          /\ UNCHANGED <<seen, engine, stood, home>>
          /\ started'.binary = IF engine = From("directory", Version) THEN disk["binary"]
                               ELSE "whole"
          /\ started'.settled = (Quiet /\ \A r \in Runs : at[r] # "cut off")
      BY <2>4 DEF Spawn, Step
    <3>2. started'.settled => started'.binary = "whole"
      <4> SUFFICES ASSUME started'.settled, engine = From("directory", Version)
                   PROVE  disk["binary"] = "whole"
        BY <3>1
      <4>1. Version \in Engines /\ Version \notin home.engines
        BY <1>t, HomesAssumption DEF FoundStands, From, Standing
      <4>2. disk["binary"] # "absent"
        BY <4>1 DEF Engines
      <4> QED
        BY <1>i, <3>1, <4>2, SettledIsWhole
    <3> QED
      BY <1>i, <1>t, <2>0, <3>1, <3>2
      DEF RInv, Standing, FoundStands, NotYet, ResolvedRuns
  <2> QED
    BY <1>u, <2>1, <2>2, <2>3, <2>4 DEF Test
<1>v. CASE UNCHANGED <<home, testVars>>
  <2>1. Engines \subseteq Engines'
    BY <1>i, <1>v, InstallStep, EnginesStay
  <2> QED
    BY <1>i, <1>t, <1>v, <2>1
    DEF testVars, RInv, Standing, FoundStands, NotYet, ResolvedRuns
<1> QED
  BY <1>u, <1>v
  DEF ResolutionNext, Test, Installers, ReadDir, TryLast, TryBuilds, Spawn, Step, Resolved, allVars

-----------------------------------------------------------------------------
(* Installers that a test looks at behave as they do alone, so what is     *)
(* proved of them holds here; ...                                          *)
THEOREM InstallersUndisturbed == ResolutionSpec => Spec
<1>1. ResolutionInit => Init
  BY DEF ResolutionInit
<1> QED
  BY <1>1, InstallStep, PTL DEF ResolutionSpec, Spec

(* ... and whatever they do, a test uses the last engine by name of those  *)
(* that stood, and one that is whole once they have settled.               *)
THEOREM TestFindsEngine == ResolutionSpec => []ResolvedRuns
<1>1. RInv => ResolvedRuns
  BY DEF RInv
<1> QED
  BY <1>1, InitRInv, StepRInv, PTL DEF ResolutionSpec
=============================================================================
