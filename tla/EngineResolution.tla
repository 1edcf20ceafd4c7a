-------------------------- MODULE EngineResolution --------------------------
(***************************************************************************)
(* A consumer test that looks for the engine and starts it                 *)
(* (adapters/ts/pact-mcp/src/engine.ts, resolveEngine), while installers   *)
(* put one of the versions in place (module EngineInstall).                *)
(*                                                                         *)
(* A directory mcp-<version> is represented by its place in the order of   *)
(* the names, as sort() has it: "mcp-0.10.0" comes before "mcp-0.9.0".     *)
(* The directories of other versions stay as they are; a directory is      *)
(* created together with the file that is written into it.                 *)
(***************************************************************************)
EXTENDS EngineInstall

CONSTANTS
  Version,  \* the directory that the runs install into
  Homes     \* what else a test may find: [engines, bare, override, builds]:
            \* directories with and without a binary, PACT_MCP_ENGINE, local builds

ASSUME HomesAssumption ==
  /\ Version \in Nat
  /\ \A h \in Homes : /\ h.engines \cup h.bare \subseteq Nat \ {Version}
                      /\ h.override \in {"unset", "missing", "there"}
                      /\ h.builds \subseteq {"release", "debug"}

VARIABLES
  home,     \* one of Homes
  test,     \* where the test is
  seen,     \* the directories it listed and has still to try
  engine,   \* what resolveEngine returned
  stood,    \* history: the directories that held an engine when it began
  started   \* history: the state of the binary it started, and of the installers

testVars == <<test, seen, engine, stood, started>>
allVars == <<vars, home, testVars>>

From(place, d) == [place |-> place, dir |-> d]
NoEngine == From("nowhere", 0)
NotStarted == [binary |-> "whole", settled |-> TRUE]

ResolutionInit ==
  /\ Init
  /\ home \in Homes
  /\ test = "idle" /\ seen = {} /\ engine = NoEngine
  /\ stood = {} /\ started = NotStarted

(* The directories that hold a binary, whole or not. *)
Engines == home.engines \cup (IF disk["binary"] = "absent" THEN {} ELSE {Version})

Step(from, to) == test = from /\ test' = to /\ UNCHANGED <<vars, home>>
Resolved(from, found) == Step(from, "resolved") /\ engine' = found

(* The override, if it exists, or else a listing of the directories. *)
ReadDir ==
  /\ \/ home.override = "there" /\ Resolved("idle", From("override", 0)) /\ UNCHANGED seen
     \/ /\ home.override # "there" /\ Step("idle", "listed")
        /\ seen' = Engines \cup home.bare
        /\ UNCHANGED engine
  /\ stood' = Engines
  /\ UNCHANGED started

(* Mutant: the names are tried in ascending order. *)
TryAscending ==
  /\ \E d \in seen :
       /\ \A x \in seen : d <= x
       /\ \/ d \in Engines /\ Resolved("listed", From("directory", d)) /\ UNCHANGED seen
          \/ d \notin Engines /\ Step("listed", "listed") /\ seen' = seen \ {d}
                              /\ UNCHANGED engine
  /\ UNCHANGED <<stood, started>>

(* The last of the names that are left: there, or on to the one before. *)
TryLast ==
  /\ \E d \in seen :
       /\ \A x \in seen : x <= d
       /\ \/ d \in Engines /\ Resolved("listed", From("directory", d)) /\ UNCHANGED seen
          \/ d \notin Engines /\ Step("listed", "listed") /\ seen' = seen \ {d}
                              /\ UNCHANGED engine
  /\ UNCHANGED <<stood, started>>

(* A local build, release before debug, or an error. *)
TryBuilds ==
  /\ seen = {}
  /\ \/ "release" \in home.builds /\ Resolved("listed", From("release", 0))
     \/ home.builds = {"debug"} /\ Resolved("listed", From("debug", 0))
     \/ home.builds = {} /\ Step("listed", "threw") /\ UNCHANGED engine
  /\ UNCHANGED <<seen, stood, started>>

(* Later, the test spawns the path as its mock. *)
Spawn ==
  /\ Step("resolved", "started")
  /\ started' = [binary |-> IF engine = From("directory", Version) THEN disk["binary"]
                            ELSE "whole",
                 settled |-> Quiet /\ \A r \in Runs : at[r] # "cut off"]
  /\ UNCHANGED <<seen, engine, stood>>

Test == ReadDir \/ TryLast \/ TryBuilds \/ Spawn
Installers == Next /\ UNCHANGED <<home, testVars>>
ResolutionNext == Test \/ Installers

ResolutionSpec == ResolutionInit /\ [][ResolutionNext]_allVars
-----------------------------------------------------------------------------
(* Whatever installs run meanwhile: a test that finds an engine installed  *)
(* uses one, and none that comes before it by name, unless it is told      *)
(* otherwise; and with no installer at work or cut off, what it starts is  *)
(* whole.                                                                  *)
ResolvedRuns ==
  /\ test = "threw" \/ engine.place \in {"release", "debug"} => stood = {}
  /\ engine.place = "directory" => \A d \in stood : d <= engine.dir
  /\ started.settled => started.binary = "whole"
=============================================================================
