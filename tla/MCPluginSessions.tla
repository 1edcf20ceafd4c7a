-------------------------- MODULE MCPluginSessions -------------------------
(* Small instances of PluginSessions. *)
EXTENDS PluginSessions, TLC

SymKeys == Permutations(Keys)
SymCalls == Permutations(Calls)
Symmetric == SymKeys \cup SymCalls
=============================================================================
