-------------------------- MODULE ProviderVerifier -------------------------
(***************************************************************************)
(* Provider verification from TypeScript (adapters/ts/pact-mcp/src/        *)
(* provider.ts): what McpProviderVerifier.verify() cannot put into the     *)
(* pact-js options it puts into the environment of the node process, for   *)
(* the plugin process that pact-js starts to inherit, and takes out again  *)
(* when verifyProvider() has settled.  The plugin listens on a free port   *)
(* and answers only calls that carry its key (main.rs); it resolves each   *)
(* interaction's target from the call's config and from its environment    *)
(* (server.rs, verify_interaction; ADR 0008), credentials included         *)
(* (module Credentials).                                                   *)
(*                                                                         *)
(* External: pact-js's Verifier, which starts a plugin at some moment of a *)
(* run, has it verify interactions and settles when it likes; the plugin   *)
(* process may end at any moment, and its port be given to another one.    *)
(***************************************************************************)
EXTENDS Naturals, SequencesExt, FiniteSets, Credentials

CONSTANTS
  Runs,         \* calls of verify()
  Servers,      \* the server transports each may have, [type, command, args, env]
                \* or [type, scheme, path, auth]; an argument is a sequence of words
  Pact,         \* the transports of the interactions each run verifies
  Driver,       \* the driver's config for each run: [command, args]
  Initial,      \* the environment the node process was started with
  Ports         \* the ports a plugin may listen on

(* PACT_MCP_SERVER_COMMAND, _ARGS and _PATH, PACT_MCP_AUTH, and any other  *)
(* variable, which the server that is spawned or a reference may read.     *)
EnvVars == {"COMMAND", "ARGS", "PATH", "AUTH", "OTHER"}
SplitWhitespace(words) == [i \in DOMAIN words |-> <<words[i]>>]

ASSUME VerifierAssumption ==
  /\ Initial = [k \in EnvVars |-> Initial[k]]
  /\ \A v \in Runs : Pact[v] \in Seq({"stdio", "http"})
  /\ \A v \in Runs : \A s \in Servers[v] :
       \/ s.type = "http"
       \/ s.type = "stdio" /\ DOMAIN s.env \subseteq EnvVars

(* Arguments are single words, which joining and splitting keep, and the   *)
(* env of a stdio server does not set the variables of its transport.      *)
ASSUME PlainServers ==
  \A v \in Runs : \A s \in Servers[v] : s.type = "stdio" =>
    /\ SplitWhitespace(FlattenSeq(s.args)) = s.args
    /\ "COMMAND" \notin DOMAIN s.env /\ "ARGS" \notin DOMAIN s.env
    /\ s.command # Unset /\ FlattenSeq(s.args) # Unset

VARIABLES
  server,    \* the transport each run was given
  env,       \* process.env of the node process
  at,        \* where each run is
  saved,     \* what applyEnv returned to it
  inherited, \* the environment its plugin was started with
  port,      \* the port its plugin printed
  up,        \* the runs whose plugin process lives
  targets,   \* what its plugin resolved, interaction by interaction
  met,       \* history: the runs that were active with it
  calm       \* history: whether it was undisturbed until its plugin was started

ServerChoices == {f \in [Runs -> UNION {Servers[v] : v \in Runs}] :
                    \A v \in Runs : f[v] \in Servers[v]}

vars == <<server, env, at, saved, inherited, port, up, targets, met, calm>>

Init ==
  /\ server \in ServerChoices
  /\ env = Initial
  /\ at = [v \in Runs |-> "idle"]
  /\ saved = [v \in Runs |-> <<>>]
  /\ inherited = [v \in Runs |-> Initial]
  /\ port = [v \in Runs |-> Unset]
  /\ up = {}
  /\ targets = [v \in Runs |-> <<>>]
  /\ met = [v \in Runs |-> {}]
  /\ calm = [v \in Runs |-> FALSE]

Active == {v \in Runs : at[v] \notin {"idle", "settled"}}
Move(v, from, to) == at[v] = from /\ at' = [at EXCEPT ![v] = to]

(* buildVerifierConfig: the variables a transport needs.  The arguments    *)
(* are joined by spaces, which leaves their words; the env of a stdio      *)
(* transport is laid over; the path and the auth of an http one are set    *)
(* only where there is one.                                                *)
EnvOf(s) ==
  IF s.type = "stdio"
  THEN [k \in {"COMMAND", "ARGS"} \cup DOMAIN s.env |->
          CASE k \in DOMAIN s.env -> s.env[k]
            [] k = "COMMAND"      -> s.command
            [] OTHER              -> FlattenSeq(s.args)]
  ELSE LET given == [PATH |-> s.path, AUTH |-> s.auth]
       IN [k \in {x \in DOMAIN given : given[x] # Unset} |-> given[k]]

Sets(v) == DOMAIN EnvOf(server[v])

(* Two runs that overlapped set the same variable.  A run is undisturbed   *)
(* if there were none, and no run that overlapped it set any other.        *)
Clash(k) == \E u, v \in Runs : v \in met[u] /\ k \in Sets(u) \cap Sets(v)
Undisturbed(v) ==
  \A k \in EnvVars : ~Clash(k) /\ \A u \in met[v] : k \notin Sets(u)

(* applyEnv: set them, and remember what they were. *)
ApplyEnv(v) ==
  LET new == EnvOf(server[v])
  IN /\ Move(v, "idle", "applied")
     /\ saved' = [saved EXCEPT ![v] = [k \in DOMAIN new |-> env[k]]]
     /\ env' = [k \in EnvVars |-> IF k \in DOMAIN new THEN new[k] ELSE env[k]]
     /\ met' = [u \in Runs |-> CASE u = v -> Active
                               [] u \in Active -> met[u] \cup {v}
                               [] OTHER -> met[u]]
     /\ UNCHANGED <<server, inherited, port, up, targets, calm>>

(* pact-js starts the plugin: run_plugin_server binds a port that is free  *)
(* and prints it with a key of its own.                                    *)
StartPlugin(v) ==
  /\ Move(v, "applied", "verifying")
  /\ inherited' = [inherited EXCEPT ![v] = env]
  /\ \E p \in Ports \ {port[u] : u \in up} : port' = [port EXCEPT ![v] = p]
  /\ up' = up \cup {v}
  /\ calm' = [calm EXCEPT ![v] = Undisturbed(v)]
  /\ UNCHANGED <<server, env, saved, targets, met>>

PluginEnds(v) ==
  /\ v \in up
  /\ up' = up \ {v}
  /\ UNCHANGED <<server, env, at, saved, inherited, port, targets, met, calm>>

(* Mutant: only the variables of an http server are restored. *)
RestoreEnvPartly(v) ==
  /\ v \in Active
  /\ at' = [at EXCEPT ![v] = "settled"]
  /\ env' = [k \in EnvVars |-> IF k \in DOMAIN saved[v] \ {"COMMAND", "ARGS"}
                               THEN saved[v][k] ELSE env[k]]
  /\ UNCHANGED <<server, saved, inherited, port, up, targets, met, calm>>

(* restoreEnv, once verifyProvider() has settled, with or without having   *)
(* come to the plugin or to the end of the pact.                           *)
RestoreEnv(v) ==
  /\ v \in Active
  /\ at' = [at EXCEPT ![v] = "settled"]
  /\ env' = [k \in EnvVars |-> IF k \in DOMAIN saved[v] THEN saved[v][k]
                               ELSE env[k]]
  /\ UNCHANGED <<server, saved, inherited, port, up, targets, met, calm>>

-----------------------------------------------------------------------------
(* What a plugin with environment e resolves an interaction of run v to.   *)
(* An http interaction needs the port that verifier options with an http   *)
(* server carry; the scheme is fixed.  A stdio server inherits the         *)
(* plugin's environment; its arguments are the config's as they are, or    *)
(* the variable split at white space.                                      *)
OrElse(a, b) == IF a # Unset THEN a ELSE b
Error == [kind |-> "error"]

HttpTarget(v, e) ==
  LET path == OrElse(e["PATH"], "/")
      auth == ResolveConfig(e["AUTH"], e)
  IN CASE server[v].type # "http" -> Error
       [] server[v].type = "http" /\ auth = Failed -> Error
       [] OTHER -> LET sent == Connect(auth, path)
                   IN IF sent = Failed THEN Error
                      ELSE [kind |-> "http", scheme |-> "http", path |-> path,
                            auth |-> sent]

StdioTarget(v, e) ==
  LET command == OrElse(Driver[v].command, e["COMMAND"])
      args    == OrElse(Driver[v].args, SplitWhitespace(OrElse(e["ARGS"], <<>>)))
  IN IF command = Unset THEN Error
     ELSE [kind |-> "stdio", command |-> command, args |-> args,
           other |-> e["OTHER"]]

Target(v, e, transport) ==
  IF transport = "http" THEN HttpTarget(v, e) ELSE StdioTarget(v, e)

(* Mutant: a plugin does not look at the key. *)
KeyIsAny(u, v) == TRUE

(* AuthInterceptor: the key of run v's calls is the key of u's plugin.     *)
KeyIsValid(u, v) == u = v

(* A call goes to the port that was printed, whoever listens there now.    *)
VerifyInteraction(v) ==
  /\ at[v] = "verifying" /\ Len(targets[v]) < Len(Pact[v])
  /\ LET transport == Pact[v][Len(targets[v]) + 1]
         listening == {u \in up : port[u] = port[v] /\ KeyIsValid(u, v)}
     IN \/ /\ listening = {}
           /\ targets' = [targets EXCEPT ![v] = Append(@, Error)]
        \/ \E u \in listening :
             targets' = [targets EXCEPT
               ![v] = Append(@, Target(v, inherited[u], transport))]
  /\ UNCHANGED <<server, env, at, saved, inherited, port, up, met, calm>>

-----------------------------------------------------------------------------
Run(v) == \/ ApplyEnv(v) \/ StartPlugin(v) \/ PluginEnds(v)
          \/ VerifyInteraction(v) \/ RestoreEnv(v)
Next == \E v \in Runs : Run(v)
Spec == Init /\ [][Next]_vars

(* Every variable stays in its range. *)
TypeOK ==
  /\ server \in ServerChoices
  /\ DOMAIN env = EnvVars
  /\ at \in [Runs -> {"idle", "applied", "verifying", "settled"}]
  /\ calm \in [Runs -> BOOLEAN] /\ up \subseteq Runs
  /\ \A v \in Runs : port[v] \in Ports \cup {Unset}
  /\ \A v \in Runs : /\ DOMAIN saved[v] \subseteq EnvVars
                     /\ DOMAIN inherited[v] = EnvVars
                     /\ Len(targets[v]) <= Len(Pact[v])
                     /\ \A i \in DOMAIN targets[v] :
                          targets[v][i].kind \in {"error", "http", "stdio"}

(* verify() "applies the env, calls verifyProvider(), and restores the     *)
(* env": with no run left every variable is what it was, unless two runs   *)
(* that both set it overlapped.                                            *)
EnvRestored == Active = {} => \A k \in EnvVars : env[k] = Initial[k] \/ Clash(k)

(* The environment of a run that is left alone. *)
Own(v) == [k \in EnvVars |-> IF k \in Sets(v) THEN EnvOf(server[v])[k]
                             ELSE Initial[k]]

(* No interaction of a run that was undisturbed until its plugin was       *)
(* started is verified against a server of another run: it is what         *)
(* the driver's config says, for a stdio interaction and if there is one,  *)
(* or else the transport its run was given, with the credentials of its    *)
(* auth, or else what the shell set; and an error for an http interaction  *)
(* without an http server, for credentials that do not resolve, and when   *)
(* the run's own plugin is gone, whoever has its port.  Exempt are servers *)
(* behind https and drivers with a command and no arguments or the other   *)
(* way round.                                                              *)
Plain(v) ==
  /\ server[v].type = "http" => server[v].scheme = "http"
  /\ (Driver[v].command = Unset) <=> (Driver[v].args = Unset)

StdioExpected(v) ==
  LET s == server[v]
      source == CASE Driver[v].command # Unset -> Driver[v]
                  [] Driver[v].command = Unset /\ s.type = "stdio" -> s
                  [] OTHER -> [command |-> Initial["COMMAND"],
                               args |-> SplitWhitespace(OrElse(Initial["ARGS"], <<>>))]
  IN IF source.command = Unset THEN Error
     ELSE [kind |-> "stdio", command |-> source.command, args |-> source.args,
           other |-> IF s.type = "stdio" /\ "OTHER" \in DOMAIN s.env
                     THEN s.env["OTHER"] ELSE Initial["OTHER"]]

HttpExpected(v) ==
  LET s    == server[v]
      path == OrElse(OrElse(s.path, Initial["PATH"]), "/")
      auth == ResolveConfig(OrElse(s.auth, Initial["AUTH"]), Own(v))
  IN IF s.type # "http" \/ auth = Failed THEN Error
     ELSE LET sent == Connect(auth, path)
          IN IF sent = Failed THEN Error
             ELSE [kind |-> "http", scheme |-> s.scheme, path |-> path, auth |-> sent]

Expected(v, transport) ==
  IF transport = "http" THEN HttpExpected(v) ELSE StdioExpected(v)

VerifiesOwnServer ==
  \A v \in Runs : calm[v] /\ Plain(v) =>
    \A i \in DOMAIN targets[v] :
      \/ targets[v][i] = Expected(v, Pact[v][i])
      \/ targets[v][i] = Error /\ v \notin up

(* auth.rs: "environment variable referenced by auth config is not set" is *)
(* an error: whatever overlaps, no token, header value or client secret is *)
(* sent that still is, or contains, a reference.                           *)
Secrets(sent) ==
  {sent.bearer} \cup {header[2] : header \in sent.headers}
  \cup (IF sent.oauth = Unset THEN {} ELSE {sent.oauth.id, sent.oauth.secret})
NothingUnresolved ==
  \A v \in Runs : \A i \in DOMAIN targets[v] : targets[v][i].kind = "http" =>
    \A text \in Secrets(targets[v][i].auth) \ {Unset} :
      \A j \in DOMAIN text : text[j].piece = "lit"

(* provider.ts: "URL of the running MCP server's Streamable HTTP endpoint  *)
(* (e.g. https://host/mcp)": an http interaction goes where the url says.  *)
UrlIsKept ==
  \A v \in Runs : \A i \in DOMAIN targets[v] :
    targets[v][i].kind = "http" => targets[v][i].scheme = server[v].scheme
=============================================================================
