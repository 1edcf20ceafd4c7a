------------------------- MODULE MCEngineResolution -------------------------
(* Installs of version 2 beside others whose names come before and after.  *)
EXTENDS EngineResolution, TLC

Home(engines, bare, override, builds) ==
  [engines |-> engines, bare |-> bare, override |-> override, builds |-> builds]
MCHomes ==
  { Home({}, {}, "unset", {}), Home({1}, {3}, "unset", {"debug"}),
    Home({1, 3}, {}, "missing", {}), Home({1}, {}, "there", {}),
    Home({}, {1}, "unset", {"release", "debug"}) }

Symmetric == Permutations(Runs)
=============================================================================
