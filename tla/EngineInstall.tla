---------------------------- MODULE EngineInstall ----------------------------
(***************************************************************************)
(* The provisioning of the engine (adapters/ts/pact-mcp/scripts/           *)
(* install-engine.cjs): every run, of npm's postinstall or of              *)
(* pact-mcp-install, fetches the binary and then the plugin manifest and   *)
(* writes each in place, unless the binary is already there.  Runs may     *)
(* overlap, fail at every download or write, and be killed.                *)
(*                                                                         *)
(* writeFileSync truncates a file and then writes it.  Of several writers  *)
(* of the same content the last to truncate has all of it to write; what   *)
(* another finishes meanwhile may or may not be whole.                     *)
(***************************************************************************)
EXTENDS Naturals

CONSTANT Runs   \* runs of the installer

Files == {"binary", "manifest"}

VARIABLES
  disk,     \* what is at the destination: each file absent, partial or whole
  opener,   \* the run that truncated it last
  at        \* where each run is

vars == <<disk, opener, at>>

Init ==
  /\ disk = [f \in Files |-> "absent"]
  /\ opener = [f \in Files |-> {}]
  /\ at = [r \in Runs |-> "idle"]

Fetching == [binary |-> "fetch binary", manifest |-> "fetch manifest"]
Opening  == [binary |-> "open binary", manifest |-> "open manifest"]
Writing  == [binary |-> "write binary", manifest |-> "write manifest"]
After    == [binary |-> "fetch manifest", manifest |-> "installed"]

Ended == {"skipped", "already", "installed", "failed", "killed", "cut off"}
Over(r) == at[r] \in Ended
Move(r, from, to) == at[r] = from /\ at' = [at EXCEPT ![r] = to]

-----------------------------------------------------------------------------
(* Skipped where the environment or the platform says so, and where the    *)
(* binary is already there.                                                *)
Begin(r) ==
  /\ \/ Move(r, "idle", "skipped")
     \/ Move(r, "idle", IF disk["binary"] # "absent" THEN "already"
                        ELSE "fetch binary")
  /\ UNCHANGED <<disk, opener>>

(* A download arrives, or the run warns and ends. *)
Fetch(r, f) ==
  /\ \/ Move(r, Fetching[f], Opening[f])
     \/ Move(r, Fetching[f], "failed")
  /\ UNCHANGED <<disk, opener>>

Open(r, f) ==
  /\ Move(r, Opening[f], Writing[f])
  /\ disk' = [disk EXCEPT ![f] = "partial"]
  /\ opener' = [opener EXCEPT ![f] = {r}]

(* Mutant: a run goes on to the manifest without its bytes of the binary.  *)
WriteLess(r, f) ==
  /\ Move(r, Writing[f], After[f])
  /\ UNCHANGED <<disk, opener>>

Write(r, f) ==
  /\ Move(r, Writing[f], After[f])
  /\ \E content \in {disk[f], "whole"} :
       /\ opener[f] = {r} => content = "whole"
       /\ disk' = [disk EXCEPT ![f] = content]
  /\ UNCHANGED opener

(* The file system is full, say: the run warns and ends, cut off in the    *)
(* middle of a file.                                                       *)
WriteFails(r, f) ==
  /\ Move(r, Writing[f], "cut off")
  /\ UNCHANGED <<disk, opener>>

(* The same without a word, there or elsewhere. *)
Kill(r) ==
  /\ at[r] # "idle" /\ ~Over(r)
  /\ at' = [at EXCEPT ![r] = IF \E f \in Files : at[r] = Writing[f]
                             THEN "cut off" ELSE "killed"]
  /\ UNCHANGED <<disk, opener>>

Next ==
  \E r \in Runs :
    \/ Begin(r) \/ Kill(r)
    \/ \E f \in Files : Fetch(r, f) \/ Open(r, f) \/ Write(r, f) \/ WriteFails(r, f)

Spec == Init /\ [][Next]_vars
-----------------------------------------------------------------------------
(* Every variable stays in its range. *)
TypeOK ==
  /\ disk \in [Files -> {"absent", "partial", "whole"}]
  /\ opener \in [Files -> SUBSET Runs]
  /\ at \in [Runs -> {"idle", "fetch binary", "open binary", "write binary",
                     "fetch manifest", "open manifest", "write manifest"}
                      \cup Ended]

Quiet == \A r \in Runs : at[r] = "idle" \/ Over(r)
Complete == \A f \in Files : disk[f] = "whole"

(* Once a run has installed the engine and none is at work, it is all      *)
(* there, whatever other runs did meanwhile, unless one of them was cut    *)
(* off in the middle of a file: no half-written binary under a success.    *)
InstalledIsComplete ==
  (/\ Quiet /\ \A r \in Runs : at[r] # "cut off"
   /\ \E r \in Runs : at[r] = "installed")
    => Complete

(* A manifest never names a binary that the run which opened it has not    *)
(* finished, however writes fail and runs are killed: only a run that      *)
(* overlaps it can make the binary partial again.                          *)
ManifestComesLast ==
  (opener["manifest"] # {} /\ opener["binary"] = opener["manifest"])
    => disk["binary"] = "whole"
=============================================================================
