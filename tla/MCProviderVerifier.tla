------------------------- MODULE MCProviderVerifier ------------------------
(* Two runs of verify() over pacts of both transports, by any two of these *)
(* servers: a stdio server that sets a variable, http servers that set     *)
(* none, and with any kind of auth, with references to a variable that is  *)
(* set, that is not, or that does not end, and with fields missing or      *)
(* values that no header may have.                                         *)
EXTENDS ProviderVerifier, TLC

CONSTANTS v1, v2

MCInitial == [k \in EnvVars |-> IF k = "OTHER" THEN "s3cret" ELSE Unset]

Token   == String(<<Lit("t-"), Ref("OTHER")>>)
Missing == String(<<Ref("GONE")>>)
Torn    == String(<<Lit("t"), Open>>)
Key     == <<Lit("X-Key")>>
MCIllegal == {"two\nlines"}
Lines   == String(<<Lit("two\nlines")>>)
Type(t) == String(<<Lit(t)>>)
MCAuth ==
  { Unset, Null, [type |-> Number],
    [type |-> Type("bearer"), token |-> Token],
    [type |-> Type("bearer"), token |-> Torn],
    [type |-> Type("apiKey"), header |-> String(Key), value |-> Missing],
    [type |-> Type("headers"),
     headers |-> Object(<< <<Key, Token>>, << <<Ref("OTHER")>>, Number>> >>)],
    [type |-> Type("apiKey"), header |-> String(Key), value |-> Lines],
    [type |-> Type("oauth"), clientId |-> Missing, clientSecret |-> Token],
    [type |-> Type("oauth"), clientId |-> Token, clientSecret |-> Token,
     scopes |-> Array(<<Token, Number>>)] }

Node(args) == [type |-> "stdio", command |-> "node", args |-> args, env |-> [OTHER |-> "x"]]
Web(scheme, path, auth) == [type |-> "http", scheme |-> scheme, path |-> path, auth |-> auth]
Bare == Web("http", Unset, Unset)
Script == Node(<< <<"a.js">>, <<"-v">> >>)
MCServers ==
  v1 :> {Script, Bare, Web("http", "/api", [type |-> Type("bearer"), token |-> Token])}
  @@ v2 :> {Script} \cup {Web("http", "/mcp", auth) : auth \in MCAuth}
HttpsServers == [v \in Runs |-> {Web("https", "/mcp", Unset), Script}]

MCPact == [v \in Runs |-> <<"stdio", "http">>]
(* The driver of the first run passes its user's config through. *)
MCDriver == [v \in Runs |->
  IF v = v1 THEN [command |-> "python", args |-> << <<"c.py">> >>]
  ELSE [command |-> Unset, args |-> Unset]]
=============================================================================
