----------------------------- MODULE Credentials -----------------------------
(***************************************************************************)
(* Credentials for http servers (auth.rs, and their use in                 *)
(* transport/http.rs): a configuration becomes a provider, the provider is *)
(* resolved against the environment of the engine's process, and the       *)
(* outcome is what goes with every request.                                *)
(*                                                                         *)
(* A string is a sequence of pieces: a literal, a reference `${VAR}`, or a *)
(* `${` that is not closed.  The error that is reported first and its      *)
(* wording are left out: every error ends the call in the same way.        *)
(* Header names that differ in case only are taken for different ones.     *)
(***************************************************************************)
EXTENDS SequencesExt

CONSTANTS
  Unset,     \* what is not there: a field, a variable, a header
  Illegal    \* words with a character that no header may have: a line break

Lit(word) == [piece |-> "lit", word |-> word]
Ref(var)  == [piece |-> "ref", var |-> var]
Open      == [piece |-> "open"]

(* Configurations: records of JSON values. *)
String(text)  == [json |-> "string", text |-> text]
Array(items)  == [json |-> "array", items |-> items]
Object(pairs) == [json |-> "object", pairs |-> pairs]
Number        == [json |-> "number"]
Null          == [null |-> TRUE]

Failed == [failed |-> TRUE]

(* ResolvedAuth::default(): no credentials. *)
NoAuth == [bearer |-> Unset, headers |-> <<>>, oauth |-> Unset]

-----------------------------------------------------------------------------
(* from_config *)
Text(config, field) ==
  IF field \in DOMAIN config /\ config[field].json = "string"
  THEN config[field].text ELSE Unset
HasTexts(config, fields) == \A f \in fields : Text(config, f) # Unset

(* Members and items that are not strings are dropped. *)
Strings(items) == SelectSeq(items, LAMBDA v : v.json = "string")
StringPairs(pairs) == SelectSeq(pairs, LAMBDA p : p[2].json = "string")

Bearer(config) ==
  IF HasTexts(config, {"token"})
  THEN [NoAuth EXCEPT !.bearer = Text(config, "token")] ELSE Failed

ApiKey(config) ==
  IF HasTexts(config, {"header", "value"})
  THEN [NoAuth EXCEPT
          !.headers = << <<Text(config, "header"), Text(config, "value")>> >>]
  ELSE Failed

Headers(config) ==
  IF "headers" \in DOMAIN config /\ config["headers"].json = "object"
  THEN LET pairs == StringPairs(config["headers"].pairs)
       IN [NoAuth EXCEPT
             !.headers = [i \in DOMAIN pairs |-> <<pairs[i][1], pairs[i][2].text>>]]
  ELSE Failed

OAuth(config) ==
  LET grant  == Text(config, "grant")
      scopes == IF "scopes" \in DOMAIN config /\ config["scopes"].json = "array"
                THEN Strings(config["scopes"].items) ELSE <<>>
  IN IF /\ grant \in {Unset, <<Lit("client_credentials")>>}
        /\ HasTexts(config, {"clientId", "clientSecret"})
     THEN [NoAuth EXCEPT
             !.oauth = [id       |-> Text(config, "clientId"),
                        secret   |-> Text(config, "clientSecret"),
                        scopes   |-> [i \in DOMAIN scopes |-> scopes[i].text],
                        resource |-> Text(config, "resource")]]
     ELSE Failed

FromConfig(config) ==
  LET type == Text(config, "type")
  IN CASE type = <<Lit("bearer")>>  -> Bearer(config)
       [] type = <<Lit("apiKey")>>  -> ApiKey(config)
       [] type = <<Lit("headers")>> -> Headers(config)
       [] type = <<Lit("oauth")>>   -> OAuth(config)
       [] OTHER                     -> Failed

-----------------------------------------------------------------------------
(* interpolate_env: every reference is replaced by the variable's value,   *)
(* which is not looked into; one to a variable that is not set is an error,*)
(* and so is a reference that does not end.                                *)
Variable(env, var) == IF var \in DOMAIN env THEN env[var] ELSE Unset
(* Mutant: a variable that is not set leaves its reference in place. *)
ResolvableAnyway(text, env) == \A i \in DOMAIN text : text[i].piece # "open"

Resolvable(text, env) ==
  \A i \in DOMAIN text : \/ text[i].piece = "lit"
                         \/ text[i].piece = "ref" /\ Variable(env, text[i].var) # Unset

InterpolateEnv(text, env) ==
  [i \in DOMAIN text |->
     IF text[i].piece = "ref" /\ Variable(env, text[i].var) # Unset
     THEN Lit(Variable(env, text[i].var)) ELSE text[i]]

(* resolve: the token, the values of headers, the client's id and secret.  *)
(* Names of headers, scopes and the resource are taken as they are.        *)
ToInterpolate(auth) ==
  {auth.bearer} \cup {auth.headers[i][2] : i \in DOMAIN auth.headers}
  \cup (IF auth.oauth = Unset THEN {} ELSE {auth.oauth.id, auth.oauth.secret})

Resolve(auth, env) ==
  LET Value(text) == IF text = Unset THEN Unset ELSE InterpolateEnv(text, env)
  IN IF \E text \in ToInterpolate(auth) : text # Unset /\ ~Resolvable(text, env)
     THEN Failed
     ELSE [bearer  |-> Value(auth.bearer),
           headers |-> [i \in DOMAIN auth.headers |->
                          <<auth.headers[i][1], Value(auth.headers[i][2])>>],
           oauth   |-> IF auth.oauth = Unset THEN Unset
                       ELSE [auth.oauth EXCEPT !.id = Value(@), !.secret = Value(@)]]

(* resolve_config *)
ResolveConfig(config, env) ==
  IF config \in {Unset, Null} THEN NoAuth
  ELSE LET auth == FromConfig(config)
       IN IF auth = Failed THEN Failed ELSE Resolve(auth, env)

-----------------------------------------------------------------------------
(* HttpClient::connect: what goes with every request, `initialize`         *)
(* included.  No header has a brace in its name, or a control character in *)
(* name or value, which a variable may have brought in.  The credentials   *)
(* of an OAuth client go to the authorization server, for the server's own *)
(* url if the configuration names no resource.                             *)
HeaderValue(text) ==
  \A i \in DOMAIN text : text[i].piece = "lit" => text[i].word \notin Illegal
HeaderName(text) ==
  HeaderValue(text) /\ \A i \in DOMAIN text : text[i].piece = "lit"
Connect(auth, url) ==
  IF auth.oauth # Unset
  THEN [bearer |-> Unset, headers |-> {},
        oauth |-> [auth.oauth EXCEPT !.resource = IF @ = Unset THEN url ELSE @]]
  ELSE IF \E i \in DOMAIN auth.headers :
            ~(HeaderName(auth.headers[i][1]) /\ HeaderValue(auth.headers[i][2]))
  THEN Failed
  ELSE [bearer |-> auth.bearer, oauth |-> Unset,
        headers |-> {auth.headers[i] : i \in DOMAIN auth.headers}]
=============================================================================
