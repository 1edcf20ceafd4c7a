# Formal models of pact-mcp-plugin

TLA+ specifications of the pact plugin for the Model Context Protocol (MCP): the
Rust engine (`rust/pact-mcp-plugin`), which is at once a mock MCP server, a
gRPC plugin of the pact driver and a verifier, and its TypeScript adapter
(`adapters/ts/pact-mcp`), which writes pacts from consumer tests and runs
verifications. TLC checks small instances of every module, and every safety
property also has a machine-checked proof for every value of the constants.

Run a model with `tlc -config <Run>.cfg <MCModule>` and the proofs with
`tlapm <Module>_proofs.tla`. `PROJECT.json` lists runs, mutants, findings,
hazards, theorems and the source lines behind every definition.

## 1. The system

| part | source | state it keeps | operations |
|---|---|---|---|
| mock engine | `mock.rs`, `main.rs` `run_mock` | interactions of the pact, results list under a mutex, results file | MCP requests, live flush, final flush, exit |
| advertised lists | `mock.rs` `advertised_*` | none (recomputed from the pact) | `tools/list`, `resources/list`, `prompts/list` |
| plugin server: sessions | `server.rs` | table of sessions under a mutex, a directory per stdio session, results of http mocks | StartMockServer, GetMockServerResults, ShutdownMockServer |
| plugin server: contents | `server.rs`, `config.rs` | none | ConfigureInteraction, CompareContents, GenerateContent |
| plugin server: verification | `server.rs`, `verify.rs`, `transport/` | none; reads the process environment | PrepareInteractionForVerification, VerifyInteraction |
| plugin process | `main.rs` `run_plugin_server`, `AuthInterceptor` | port and key, printed once | the check of the key on every call |
| content matcher | `content/mod.rs` | none | `compare_response`, `match_*_request` |
| engine CLI | `cli.rs` | arguments, the report | `verify`, `compare` |
| credentials | `auth.rs` | none | config to headers or OAuth credentials |
| consumer adapter | `consumer.ts`, `matchers.ts` | declarations, pact file, mock process | declare, `executeTest` |
| provider adapter | `provider.ts` | `process.env` | `verify` |
| provisioning | `install-engine.cjs` | `~/.pact/plugins/mcp-<version>/` | install |
| engine resolution | `engine.ts` | none; reads the plugin directories | `resolveEngine` |

A consumer test declares interactions; for each of them pact-js asks the engine
to split contents into example body and matching rules (ConfigureInteraction)
and merges the result into the pact file. The adapter stamps a key and a
transport on every interaction, starts the engine as a mock on that file, gives
the test a transport to it, ends it, and judges the results file. Other
languages use the same mock through the plugin's sessions. On the provider's
side pact-js's verifier starts the plugin, addresses interactions by key, and
the plugin spawns or reaches the real server, performs the request and compares.
The same comparison selects the mock's answers.

What is hard here: handler tasks on a pool of threads that share a list and a
file; writes of that file that fail and tell nobody; a process that exits while they run; a reader in another process; gRPC
calls that race on the session table; an environment changed around an `await`;
a plugin whose port outlives it; a pact file that several tests rewrite; runs of
an installer that overlap, are killed, or meet a test that starts the engine; and
a matcher whose rules travel through four encodings. `PROJECT.json`
lists these hazards line by line with the properties that watch them.

What makes the parts correct, in one sentence each:

- mock: every handled request is on record once, before its answer, and the file is complete whenever nobody is writing it and the last write succeeded;
- lists: what the pact calls is advertised, and what it declares is advertised as declared there or before it;
- sessions: one shutdown takes a session, no get loses it half-way, and ok hides no failure that was written and answered before, but for a torn read;
- matcher: it complains about exactly the expected leaves that are absent or different;
- authoring: what is persisted accepts the consumer's own example, and nothing but what the matchers ask for;
- consumer test: a test that passes heard no failure whose result was written, and leaves no mock behind;
- pact file: the key of an interaction finds that interaction, and one server verifies the file;
- provider adapter: a run is verified against its own server, and the environment comes back;
- credentials: nothing is sent with a reference left in it;
- engine verification: success means a fitting answer for every interaction, each from a fresh server;
- provisioning: an engine that is said to be installed is complete;
- engine resolution: a test starts an engine that is whole, if one was installed.

## 2. Modules

| module | models | composed of |
|---|---|---|
| `MockSelection` | which interaction answers a request, what is recorded, what is replied | parameter `Misses` stands for the matcher |
| `MockProcess` | the mock process: handlers, mutex, file, final flush, kill | extends `MockSelection`; implements `ResultsSink` |
| `ResultsSink` | the promise to consumers of the results | |
| `MockListing` | what the mock advertises, as operators | |
| `PluginSessions` | the three session calls of the plugin | sees a mock as `ResultsSink` does |
| `ConsumerTest` | `executeTest` with its mock | extends `MockProcess` |
| `ContentMatcher` | the comparisons of `content/mod.rs`, as operators over JSON values | parameter `Depth`: which values there are, and how deep each is |
| `Matching` | comparisons as the engine makes them, and their laws | extends `ContentMatcher` |
| `Authoring` | contents from `matchers.ts` to a verdict | extends `Matching` |
| `PactFile` | declarations, merging, stamping, look-up, transports, lists | extends `MockListing` |
| `Credentials` | configurations, interpolation, what is sent | |
| `ProviderVerifier` | `verify()`, plugin processes and target resolution | extends `Credentials` |
| `Verification` | the engine's own verification loop | |
| `EngineInstall` | the installer | |
| `EngineResolution` | a test that looks for the engine and starts it | extends `EngineInstall` |
| `ConsumerTest_proofs`, `PluginSessions_proofs`, `Verification_proofs`, `ProviderVerifier_proofs`, `EngineResolution_proofs`, `PactFile_proofs`, `Authoring_proofs` | theorems | each extends its module; those of `MockProcess`, `EngineInstall` and `Matching` are with the module that extends them |
| `InductionLemmas` | induction and recursion over natural numbers and ranks | for `PactFile_proofs`, `Authoring_proofs`, `ConsumerTest_proofs` |

`MC*` modules hold the constants of the small instances. Definitions marked
*Mutant* in a module are defects a change to the code could introduce; no
specification uses them. Each one, put in the place of the definition after it,
breaks the property it is listed for in `PROJECT.json`.

### MockSelection, MockProcess, ResultsSink

`handle_structural` and `handle_call` go through the interactions in order; the
first that matches answers. If none does, the mismatches of one candidate are
recorded: the first for resources and prompts, and for tools the last that has a
miss other than the name. `Misses(i, incoming)`, the set of mismatch paths, is a
constant: the proofs hold for every matcher.

`MockProcess` has one action per step another thread can see. `record` is
`Push`, `Truncate`, `Flush`: the mutex is taken with the push and let go after
the write, and `std::fs::write` empties the file before it fills it. `run_mock`
is `ClientLeaves`, `Snapshot`, `FinalTruncate`, `FinalWrite`, `Exit`; the final
copy is taken under the mutex and written without it. A shorter document
written over a longer one leaves its tail (`WriteOver`). `Exit` waits for
handlers that are inside a synchronous flush, as dropping a tokio runtime does.
`Kill` ends the process between any two steps.

Every write may fail: the file cannot be opened (`TruncateFails`) or the write
stops after the file was emptied (`FlushFails`), and it is left as it was or with
a part of the document (`WriteFailed`). `record` drops the error (`let _ =`,
`mock.rs:118`), lets go of the mutex and answers all the same, so the list and
the file disagree until a later write succeeds. The final flush may fail at either
of its halves (`FinalFlushFails`); there the error leaves `run_mock` through `?`
and `exitCode` is 1, which the adapter does not look at. `shown` is history: how
many results the last document that was written had.

A result is represented by the
request it is about; `RecordOf` gives its contents.

External: rmcp delivers requests and end of input. Whether rmcp lets handlers
finish before `waiting()` returns is not promised, so `Hurried = TRUE` lets the
client leave at any time; `Hurried = FALSE` is a client that waits for its
answers.

`ResultsSink` is the comment at `mock.rs:52-54` as a specification, weakened by
what `mock.rs:118` does to it: an append-only log, a view that shows the whole log,
is hidden while it is replaced or, after a flush that failed, is what it was or no
document, and answers only for results whose flush has ended, well or not. The
refinement maps `ended` to the length of the list, less the result whose handler
holds the mutex. `ConsumerLostWrite` shows what the weakening costs.

### MockListing

The pass over the pact as a fold: `Declared` takes the items of a list
interaction, `Called` makes up an item for a name, for tools, resources and
prompts alike (the three functions differ in field names). Whether a declared
item converts to the protocol's type is part of the input. It is applied by
`PactFile`, to the files that tests really leave behind.

### PluginSessions

A session is a kind in `table`, a directory and a results file for stdio, and a
mock that appears as its consumers see it: a growing log, a file that is empty
during a flush, answers after the flush. A flush may fail to open the file or to
write it (`MockOpenFails`, `MockFlushFails`); `written` is history, how many
results the last good write had. `GetLock`/`GetRead` keep the table's
mutex from look-up to reply; `ShutdownRemove` releases it before `ShutdownRead`.
`remove_dir_all` (`server.rs:318`) is two steps, `ShutdownClean` of what is in the
directory and `ShutdownRemoveDir` of the directory itself, beside a mock that may
make its file again in between. Either may fail (`ShutdownGivesUp`), the second one
always when there is a file; the error is dropped and the directory is `"left"`
without an owner, and a mock that still runs goes on writing into it. Start is one step: it awaits nothing between the creation
of the mock and its entry, and nobody can know the key before the reply.
`due` and `told` are history: what had been written and answered when a call was
made. `OkUnlessTorn` says how a reply of ok can be wrong about it: only by a torn
read, or the read of a file that a failed write left without a document, which
lose all results. `DirsAreOwned` says which directories stay: that of a start that
failed half-way (`"orphan"`, `server.rs:283`) and that of a removal that failed or
met a running mock. External: the driver's spawn of the stdio command and the end
of a mock.

### ConsumerTest

`executeTest` and `runHttpMock` step by step, with the mock process of
`MockProcess` underneath; `ClientLeaves` is what closing a transport, or ending
stdin, does to it. External: pact-js's authoring (writes or rejects), the MCP
SDK (whose close of a stdio transport gives the child a bounded time), and the
user's test, which sends what it likes, returns or throws. For stdio the
adapter does not observe the exit of the process; for http it does, through an
event that is lost if nobody listens. The exit code is not looked at.
`PassMeansHeardClean` is what a passing test is worth given writes that may fail:
no answer it heard is a failure among the results that were ever written.
`JudgedByRecord` says what decides an undisturbed test over http: the record, and
nothing else.
`PassMeansClean` and `UnmatchedThrows` are what its documents say, and do not hold:
a results file that could not be opened is absent, which counts as no requests
(`ConsumerLostWrite`), and what the test never asked for leaves no result to
judge (`ConsumerUncalled`).

### ContentMatcher, Matching and Authoring

`ContentMatcher` has an operator per function of `content/mod.rs`. JSON values are
records tagged with their type, paths are sequences of steps; what is abstracted
is the rendering of paths and the wording. The values are the domain of `Depth`,
which only says that values are finite trees: whatever is in one is a value, and
less deep (`Nesting`). So the recursion of `compare_structured` is a recursive
function of path, expected and actual value, and not an operator, which no prover
could reason about. `Matching` asks the questions of the driver and of
`run_compare`, and holds the properties. `StructuredIsLeafwise` describes the
recursion exactly, and with it that an expected object or array without members
is open: whatever is in its place is accepted. The doc of the function says
otherwise, which is `StructuredIsCompatible` (`MatchingEmpty`); and the
specification asks of a listed tool's schema only that it has the keys, with values
of the same types, which is `SchemasByType` (`MatchingSchema`). `Authoring` follows one interaction
through `matchers.ts`, `walk` and `record_matcher` of `config.rs`, `stampPact`
and a comparison: a question of `Matching`, put to what is persisted. A template
is a value whose leaves may be matcher definitions (`Definition`); what becomes of
it on its way (a protobuf Struct, the stripped body, the rewritten file) is one
recursive function over values, `Walk`, that differs in what it does to a leaf,
and its rules are read off its leaves. `AuthoringAssumption` says that contents
are written with the helpers, in JavaScript, and that what is made of them is
among the values. A number keeps its spelling, because `serde_json` does not
equate 5 and 5.0, and JavaScript's rewrite of the file, which has one spelling,
is part of the story. Both parts of an interaction are carried, with the
configuration they share; contents that lack a field, name no operation, or hold
a matcher that does not parse, in either part, are refused as a whole. Generators
are not in the templates.

A template can be read in three ways. As it is *written*, a leaf asks for what the
helper of `matchers.ts` says (`Asks`): a value of the example's type, any number,
any integer, any boolean, a string of the pattern, a string that is not empty;
`Pattern` stands for the strings that a regular expression matches, and need not
contain its example. As it is *applied*, only `type` matchers outside lists do that
and all others stand for their example; as an *example*, all do. `AuthoredMeans`
says that what is accepted conforms to what was written, `MatchersApplied` that it
is exactly what conforms to what is applied, so that no `type` matcher is lost or
gained on its way. That the two readings differ is a disagreement with the words of
the helpers (`KindsHonoured`, run `AuthoringKinds`) and of the specification
(`SchemasHonoured`, run `AuthoringSchemas`).

### PactFile

The pact file of one consumer and one provider over several tests of either
transport, each of which may fail in the middle of its authoring or run again.
`WriteInteraction` and `StampPact` are `executeTest`'s; merging by unique key is
pact_models' (external: the file is as `docs/decisions/0008` describes it). Other
tests of the same consumer and provider add interactions the adapter does not
know: of http, and of other plugins, which `interaction_from_value` takes for mcp
ones. What such a message has for a name in its request or for tools in its response
is read like any other's, so it can be served, advertised, and take the name of
what an mcp interaction declares: `DeclaredIsListed` lets anything before the
declaration in the file have the name. `DeclaredAsDeclared` and
`OnlyMcpAdvertised`, what the comments of `mock.rs` say, do not hold
(`PactFileCallFirst`, `PactFileForeign`). `Lookup`, `Extract`, `InteractionTransport` and `Served` are how the engine
reads the file. A declaration's content is an opaque value.

### Credentials, ProviderVerifier

`Credentials` has an operator per function of `auth.rs` and of the connect of
`http.rs`. A string is a sequence of pieces, literals and references, which is
what interpolation can tell apart. A header is refused for its name or its value
(`Illegal` words stand for control characters, which a variable may bring in). The order in which errors are met is left out:
each of them ends the call. External: rmcp, which exchanges and refreshes tokens.

`ProviderVerifier` has `applyEnv`, the start of the plugin, `VerifyInteraction`
and `restoreEnv` of several `verify()` calls on one `process.env`, which may
overlap. An argument is a sequence of words, which is what joining and splitting
at white space can tell apart. A plugin may end at any moment; its port is free
then, and the plugin of another run may get it: a call goes to the port that was
printed, and only the key says whose it is. Paths begin with a slash, as
those of urls do, so that the engine's own correction of them does nothing. `met` and `calm` are history: who
overlapped whom, and whether a run was undisturbed until its plugin was started.
External: when pact-js starts the plugin and when it settles.

### Verification

`run_verify`: the arguments (a url is preferred, and its credentials are resolved
once for all interactions; `Abort` ends a run that has no server or no
credentials), then `Connect`, `Perform`, `Close`, `Compare` for each mcp
interaction, with a failure at each of them, and `Skip` for the others. The
server answers as it likes; `fits` is the matcher's verdict. A request that is
not valid for its operation never reaches the server.

### EngineInstall

Overlapping runs of the installer on two files, each of which may be partial
while it is written. Downloads and writes fail and runs are killed; a run that is
cut off in the middle of a file is told from one that is not.

### EngineResolution

`resolveEngine` beside the installers: the override, the listing of the
directories (`ReadDir`), one look after the other from the last name down
(`TryLast`), the local builds, and the later start of what was found (`Spawn`).
A directory is represented by the place of its name in the order `sort()` gives.
Each look is a step of its own, because installers in other processes run between
them. `runCompare` starts a process and parses a line, and is left out.

## 3. Runs

| run | bounds | shows |
|---|---|---|
| `Mock` | 3 requests, 3 interactions | patient clients: the refinement of `ResultsSink`, complete record at exit, every request answered |
| `Consumer` | 3 requests, 2 interactions | a consumer test and its mock, over stdio or http, whose client may leave early and whose writes may fail: mutex, record, file, verdict, exit |
| `Sessions` | 1 session, 3 calls, 2 results | races on the session table; what a reply of ok is worth; which directories stay; every call returns |
| `SessionsTornRead` | 1 session, 2 calls | **violation**: a file caught in a flush counts as no results, and so as ok |
| `Verifier` | 2 `verify()` calls, 2 interactions each, 2 ports, 10 configurations of credentials | the environment, the targets and what is sent, overlapping or not |
| `Matching` | bodies of depth 2 over a handful of values | the laws of the matcher |
| `Authoring` | templates of depth 2 in either part, every matcher; results of a call with each kind of block, structured content or an error flag; contents that are refused | authoring to verdict |
| `AuthoringKinds` | the same | **violation**: an instance of a matcher that is not of kind `type` is refused |
| `PactFile` | 3 tests, failing or run again, out of 4 of up to 3 interactions; foreign ones in between | keys find their own interaction, and one server verifies what they find; the lists of its mock |
| `PactFileSameTool` | 2 tests of one tool | **violation**: two tests of one tool share a key |
| `Verify` | 4 mcp interactions, one malformed, and one other; every set of arguments | the verification loop |
| `Install` | 3 runs, 5 surroundings | the installer, and a test that looks for the engine meanwhile |

Why these are enough: two handlers suffice for every race on the mutex and the
file, and a third lets one be on record, one writing and one waiting while the
main task flushes. Sessions meet only at the table's mutex, so one of them with
a start and any two of get and shutdown shows every race; two results let a file
be replaced by a longer one. Verifications interfere in pairs: over a variable, or
over a port that one leaves and the other gets. A pact file is a matter of a test
that failed, one that came before and one that completes. The matcher's cases are decided at one level of a value,
so depth two shows every case below every other. Three runs of the installer are
one that truncates, one that finishes and one that looks; a directory before and
one after theirs is every order a name can have.

`CHECK_DEADLOCK FALSE` is set everywhere because each of these systems comes to
an end: a process exits, a test settles, a verdict is given.

Fairness. `MockProcess`: a runnable task of the tokio pool runs
(`WF` of each handler and of the final flush with the exit); nothing makes a
client send or leave. `PluginSessions`: a call the server took goes on
(`WF` of each `Serve`); a mutex that is held for a bounded number of steps by
finitely many calls needs no strong fairness. `ConsumerTest`: promises and
events are delivered and the mock's tasks run; the user's test may never end.
`Verification`: the server keeps answering, since no call has a timeout.
The other modules have no liveness to promise: nothing in the code makes pact-js
settle, a test call, or an installer go on.

### Where the code disagrees with its documents

Eleven disagreements are stated as properties that TLC refutes. Three are among the
runs of `PROJECT.json`, which explains their counterexamples: `SessionsTornRead`,
`PactFileSameTool` and `AuthoringKinds`. The other eight have a configuration of the
same name and the constants of the run beside it, for instance
`tlc -config ConsumerUncalled.cfg MCConsumerTest`, and end in a counterexample too.

| configuration | property | where | what the code does | and what is said |
|---|---|---|---|---|
| `ConsumerLostWrite` | `PassMeansClean` | `mock.rs:118` | a failed write is dropped and the request answered; an absent file is no requests | `mock.rs:52` results are flushed after every request and can be read reliably |
| `ConsumerUncalled` | `UnmatchedThrows` | `consumer.ts:312` | what was declared and never called is not missed | `consumer.ts:176` "Throws if any interaction was not matched." |
| `SessionsTornRead` | `OkMeansClean` | `server.rs:518` | a file caught in a flush counts as no results | `server.rs:511`, `mock.rs:52` |
| `PactFileSameTool` | `LookupIsOwn` | `consumer.ts:303` | two tests of one tool share a key | `consumer.ts:292` |
| `PactFileForeign` | `OnlyMcpAdvertised` | `server.rs:605` | messages of other plugins are read as mcp, served and advertised | `mock.rs:82` "keeping only the `mcp`" |
| `PactFileCallFirst` | `DeclaredAsDeclared` | `mock.rs:148` | a call before the declaration of its tool hides the declaration | `mock.rs:124` |
| `VerifierHttps` | `UrlIsKept` | `server.rs:394` | an https url is addressed as http | `provider.ts:43` |
| `MatchingEmpty` | `StructuredIsCompatible` | `content/mod.rs:453` | an empty expected container accepts anything | `content/mod.rs:432` |
| `MatchingSchema` | `SchemasByType` | `content/mod.rs:422` | values in a listed tool's schema must be equal | `docs/spec/matching-semantics.md:39` "type-compatible" |
| `AuthoringKinds` | `KindsHonoured` | `content/mod.rs:481` | number, integer, boolean and not-empty matchers compare exactly | `matchers.ts:30`, `matchers.ts:43` |
| `AuthoringSchemas` | `SchemasHonoured` | `content/mod.rs:422` | matchers in list items are never applied | `docs/spec/matching-semantics.md:39` "using the consumer's matchers" |

The others were met while modelling;
where a property above has an exemption, this is the reason for it.

| where | what the code does | and what is said |
|---|---|---|
| `main.rs:111` | the final flush copies under the mutex and writes without it: a handler of a client that left can be lost, or two documents tangled. `ExitedComplete` is stated for patient clients | `mock.rs:52` results can be read reliably |
| `mock.rs:301` | a match is on record as clean before its response is converted; a response that does not convert is an internal error to the client and clean to the adapter. `PassMeansHeardClean` asks only that no mismatch was told | `mock.rs:273` "Records the outcome either way" |
| `mock.rs:305` | of several near misses the last is reported; `ReportsNamedTool` is the weaker truth | `mock.rs:303` "Track the closest miss" |
| `provider.ts:232` | overlapping `verify()` calls leave each other's variables; `EnvRestored` exempts them | ADR 0010, line 34 |
| `server.rs:421` | a command from the config is joined with arguments from the environment; the run's drivers give both or neither | ADR 0008, the ladder |
| `server.rs:428` | an argument with a space becomes two; the run's arguments are single words | `provider.ts:120` |
| `auth.rs:123` | scopes and resource of OAuth are not interpolated; `NothingUnresolved` is about token, header values, id and secret | `auth.rs:5`, `provider.ts:12` |
| `server.rs:283` | the directory of a session is made before the pact is written into it, and stays if that fails; `DirsAreOwned` names it | nothing says that a failed start cleans up |
| `server.rs:318` | a directory that cannot be removed stays, unreported; `DirsAreOwned` names it | nothing says what becomes of it |
| `server.rs:605` | a description may find a message of another plugin; `LookupIsOwn` is about what an mcp key addresses | `server.rs:527` |
| `server.rs:552` | the single-interaction fallback counts interactions that are not mcp | `server.rs:538` |
| `content/mod.rs:395` | error data is compared by value | `content/mod.rs:392` |
| `engine.ts:27` | names are sorted, not versions: mcp-0.9.0 is preferred to mcp-0.10.0; `ResolvedRuns` is about names | nothing says which installed version is used |
| `engine.ts:29` | an engine that is being written, or was cut off, counts as installed; `ResolvedRuns` exempts both | `engine.ts:15` |
| `install-engine.cjs:83` | a run that finds the binary says installed, manifest or not | `install-engine.cjs:9` |

## 4. Proofs

In each part below the first sentence names the module and the assumptions.

### The mock process

`ConsumerTest_proofs` first proves of `MockProcess`, from the assumptions on the constants
(`LiveAssumption`, `NoOneAssumption`) and for every set of requests, pact and
matcher:

- `TypeCorrect`, `MutualExclusion`, `OnRecord`, `Flushed`, `FilePast`: `TypeOK`,
  `MutexHeld`, `RecordedOnce`, `FlushedWhenFree` and `FileIsAPast` hold in every
  behaviour, with clients that leave at any time, kills, and writes that fail;
- `PatientExit`, `ImplementsSink`: with a results path and patient clients
  (`Live`, `~Hurried`), `ExitedComplete` holds, that a process that exits with 0
  leaves the complete record, and the process implements `ResultsSink`.

None of the invariants is inductive by itself. `Inv` joins them with what relates
them: `MutexHeld` ties the mutex to the program counters; `ListAgrees` says the
list is the set of handled requests without repetition, and not empty while the
mutex is held; `FileAgrees` says, until the final flush, that the file is `Empty`
in the middle of a flush, the whole list when nobody flushes and the last write
succeeded (`shown` is the length of the list), and that `shown` is behind while
somebody does; `Pasts` adds that
`run_mock`'s copy is a prefix of the list, without which its write could show
something that was never on record. For patient clients `PatientInv` adds that
the holder's result is the last of the list (`HolderIsLast`), which is what lets
`Shown` leave it out, and that no handler moves once the client has left
(`QuietFlush`), so that the final copy is the list, and the file too if the exit
code is 0: the final flush makes up for what handlers failed to write. Each step lemma has one case
per action; the facts about sequences (`PrefixOfAppend`, `RangeOfAppend`) are
stated once.

`NamedToolIsReported` (`ReportsNamedTool`) is about the mock's selection: of the
candidates that fail, the last with a miss beyond the name is the maximum of a
finite set of positions (`GreatestNatural` of `InductionLemmas`), and what misses
more than the name is, by the matcher's early return, for the tool that was named.

### The consumer test

`ConsumerTest_proofs` goes on, from the same assumptions and `ConsumerAssumption` (an
adapter always gives a results path), for every set of requests, pact, matcher
and either transport. `MockUndisturbed`: every step of a test is a step of
`MockProcess` or leaves its variables alone, so that `TestSpec => Spec`, and with
it all of the invariants above, hold of a test's mock. On top of them `TestInv`
joins four facts: `Order`, which says what the adapter has done when it is at a
step; `FlushedShows`, that before the final flush a file that parses has every
result that a successful write has shown, the first `shown` of the list;
`HeardShows`, that the same is true of those among them the test heard, final flush
or not; and `WholeFile`, that once everything is heard the last copy, and the file
of a process that exits with 0, are the whole record. From
them: `WholePactServed` (`MockServesWholePact`), `PassIsEarned`
(`PassMeansHeardClean`), where a clean file shows at least what was heard and ever written, and
`VerdictIsRecord` (`JudgedByRecord`), where the file that is judged is the record,
to which no handler adds any more.

### Sessions

`PluginSessions_proofs`, from `SessionsAssumption`, for any number of keys, calls
and results: `TypeCorrect`, `TakenOnce` (`OneShutdownTakesSession`), `GetIsSafe`
(`GetReadsStandingSession`), `DirsOwned` (`DirsAreOwned`) and `OkIsEarned`
(`OkUnlessTorn`). The invariant has two parts. `TableInv`: a shutdown that has a
session took it out of the table (`TakenOut`), so no other one, and no get, has
it; a get that reads holds the mutex (`ReaderHolds`), so the entry and with it the
directory (`TableHasDir`) stand; a directory that is neither `"orphan"` nor
`"left"` has an owner by name (`Owned`), and only a shutdown of a stdio session
removes one (`Removing`). `ShowInv`: what was written is on the log
(`WrittenBefore`), a file that holds a document holds at least that (`FileShows`,
`NoDirNoView`), what is due to a call was written (`DueWritten`), hence
so does what a call has seen (`SeenShowsDue`), which stays true because the list
only grows. One lemma per action says what it does to the record of its call; the
rest of each case is then about that record's fields.

### Verification

`Verification_proofs`, from `PactAssumption`, for every pact: `TypeCorrect`,
`ServerIsFresh` (`FreshServer`), `SuccessEarned` (`SuccessIsEarned`) and
`CoversPact` (`ReportCoversPact`). The
invariant follows a server from its start to its answer (`OwnServer`), a fitting
answer to its place in `earned` (`ReplyEarned`), and says that every success in
the report is earned, no interaction that was passed is left out, and the report
goes up in the order of the pact (`InOrder`).

### Provider verifier

`ProviderVerifier_proofs`, from `VerifierAssumption`, for any runs, servers,
credentials, ports and initial environment: `TypeCorrect`, `EnvComesBack`
(`EnvRestored`), `OwnServer` (`VerifiesOwnServer`, also from `PlainServers`, which
keeps arguments to single words) and `AllResolved` (`NothingUnresolved`). By itself
the first property speaks only of moments with no run at work; `Kept` speaks of
every moment: a variable on which no two overlapping runs clashed has its first
value while nobody sets it, and in the memory of the run that does. `Meetings` is
what turns two active runs that both set it into a clash. `Given` says that an
active run's variables have its values, hence `Inherits`, that the plugin of an
undisturbed run has exactly its run's environment; `Targeted`, that every target
was resolved in that environment or is an error of a run whose plugin is gone,
which is where the key enters. `AllResolved` follows a string through `Resolve`
and `Connect`.

### Installer

`EngineResolution_proofs` proves of `EngineInstall`, for any number of runs: `TypeCorrect`, `ManifestLast`
(`ManifestComesLast`) and `CompleteInstall` (`InstalledIsComplete`). A partial
file has an opener that is still writing or was cut off (`PartialIsOwned`), and a
run that is past a file has opened it (`Reached`), so somebody opened each file of
an installed engine; if nobody is at work or was cut off, both are whole.

And of `EngineResolution`, also from `HomesAssumption`: `InstallersUndisturbed`
lifts the invariant to installers beside a test, and `TestFindsEngine`
(`ResolvedRuns`) adds that an engine that stood when the test began stands and has
still to be tried (`Standing`), since installers replace a binary but never take
it away.

### The pact file

`PactFile_proofs`, from `TestsAssumption`, for any tests and other interactions.
The invariant is its `TypeOK`: every interaction in the file is a `Version` of
what a declaration or another library wrote, as it was written or with a stamp,
and merging and stamping keep it so. From it: `SpecOneServerSuffices`
(`OneServerSuffices`), where the
kinds of keys (stamp, name, hash) are told apart by `KeysDiffer`.
`FoundIsDescribedAlike` says of any tests that what a unique key finds has the
description of the interaction the key is of; `SpecLookupIsOwn` (`LookupIsOwn`)
adds the hypothesis `DescribedApart`, that a description stands for one
expectation, which the adapter does not see to: `PactFileSameTool` shows what
happens otherwise. `SpecCalledIsListed` (`CalledIsListed`) and
`SpecDeclaredIsListed` (`DeclaredIsListed`) follow the pass of `MockListing` over
a file of any length and of any libraries: the list grows, what a call names is in
it after the call, and what is in it is an item declared, or made up for a call, by
an interaction at or before the place it was met (`Origin`, `ListsOf`).

### The matcher

The first half of `Authoring_proofs` is about `Matching`, from `DepthAssumption`,
`NamesAssumption` (field names are strings) and `QuestionsAssumption`, for values
of any shape and depth and any rules. Every question that is answered is answered
by `Outcome` (`SpecAnswered`); the rest is about `Outcome`, by induction over
values (`ValueInduction`):

- `SpecStructuredIsLeafwise` (`StructuredIsLeafwise`), without hypotheses: the
  recursion and the reference reading, which looks every expected leaf up along
  its path, agree on every pair of values;
- `SpecListOrderIrrelevant` (`ListOrderIrrelevant`), without hypotheses: lists that
  are permutations of each other have the same items under every key;
- `SpecTypeRulesRelax` (`TypeRulesRelax`), for rules that are `ByType`. That
  excludes rules of another kind, which are not looked at and so change nothing,
  except that an image's data or an error's message is compared by value and not
  by type once it is ruled at all; and a rule on the `type` of a block, which
  would have a block compared as what it is not;
- `SpecExtrasIgnored` (`ExtrasIgnored`), for questions that are `WellPosed`. That
  excludes an expected call without arguments, which are compared as null; an
  `error` that is no object; items of a list without their key, and two expected
  ones with the same, of which only the first is ever found; blocks of a kind the
  matcher does not know, such as audio, which mismatch even themselves. Each of
  these is a counterexample to the property and not a gap of the proof. TLC
  evaluates on the run that its questions satisfy both hypotheses.

### Authoring

The second half of `Authoring_proofs`, also from `AuthoringAssumption`, for
contents and payloads of any shape and depth. All three theorems suppose
`UsableContents`: contents are refused, or `Usable`, which is what `WellPosed` asks
of an example (above), and that no block has a matcher for its type. TLC
evaluates on the run that its contents are.

- `SpecExampleAccepted` (`ExampleAccepted`): what is persisted of either part
  accepts the consumer's own example.
- `SpecMatchersApplied` (`MatchersApplied`): a payload is accepted exactly if it
  conforms to the template as it is applied; of a listing, if it has each key once.
- `SpecAuthoredMeans` (`AuthoredMeans`): an accepted payload conforms to the
  template as it is written, in the words of `matchers.ts`. It supposes
  `InstantiatedContents` too: every example is an instance of its own matcher, which
  `regex` and `notEmpty` do not check; what is accepted in place of an example that
  is not would be the example. The converse is false of the code and not proved:
  `AuthoringKinds` and `AuthoringSchemas` refute it.

The invariant, `Persisted`, says that at every stage the reply is made of the
contents alone; once stamped, of each part it is the example and the rules of its
template (`PartOf`). This is the step that could go wrong, and it needs two facts
about templates. `PersistedExample`: through Struct, `walk` and the rewrite, a
template becomes its example, because the rewrite undoes what the Struct and the
parsing of numbers did to their spelling; without the rewrite it is false.
`RawMatchers`: the Struct leaves the matchers alone, so the rules are those
written. Both go by induction over templates (`TemplateInduction`), since every
walk commutes with going to a member (`WalkMembers`).

`ExampleAccepted` then follows from `AcceptsItself`. For the other two, what the
rules of a part say at a path is what the leaf there was written with
(`RulesFacts`), which is inherited by members: at and below the place of a
template the rules say of each leaf what a reading makes of it (`Kept`), the
template's own rules what is applied (`RuledIsKept`) and no rules what the example
says. `CompareMeans` proves of every value that a comparison under rules kept in a
reading is empty exactly if the value conforms in that reading. Then each operation:
the fields and blocks of a call's result, the items of a list, without rules and
with keys that are `Apart`, and the rest (`OutcomeMeans`), which with
`PersistedApplied` is `SpecMatchersApplied`. `ConformsToWritten` says that what
conforms as applied, or as an example, conforms as written if the examples are
instances (`InstancesFacts`); so `SpecAuthoredMeans` follows.

### Induction

The library's induction theorems have an operator as a parameter, which none of
the installed provers can instantiate. `InductionLemmas` states what is needed
with sets and functions instead: a set of naturals has a least element, hence a
set that holds 0 and every successor holds all (`NaturalInduction`,
`InductionUpTo`); a function on the naturals may be defined step by step
(`PassExists`, `Iteration`); and a recursive function exists whose value at x
depends only on its values at smaller ranks (`RankedRecursion`). The facts that
`Structured`, `Extension`, `Leaves` and `MockListing`'s fold are what their
definitions say are instances, and `Walk`'s is shown in the same way
(`WalkExists`).

### Only model-checked

Liveness (`EveryRequestAnswered`, `ExitsAfterClient`, `EveryCallReturns`,
`TestSettles`, `NoMockLeft`, `ComesToReport`), because the prover has no support
for fairness and ENABLED. What the counterexamples refute is not proved to be
false in general: they are counterexamples. `DepthAssumption` and
`AuthoringAssumption` are evaluated by TLC for the values of the runs; that every
set of JSON values can be closed under what is made of it is not proved.

## 5. Not modelled

The catalogue (constant), `jsonrpc.rs` (used by its tests), GenerateContent,
UpdateCatalogue and PrepareInteractionForVerification's answer (they echo or do
nothing), the log filter and the choice of the mode in `main`, `runCompare` and
`parseLastJson`, generators, broker options, logging, documents, examples and
release scripts. The rendering of paths by `pact_models`, against which the
engine's own is looked up, is outside the repository. `PROJECT.json` gives each
its reason.

## 6. Plan

Order of the modules: the mock process first, since every other part reads or
drives it; then its refinement and proofs; the sessions and the consumer test on
top of it; matcher, authoring and pact file; provider side and credentials;
provisioning and resolution.

Next:

1. A composition of `PluginSessions` with `MockProcess`, so that a session's file
   is the refined process and not the sink's view of it.
2. The rendering of paths by `pact_models` against the engine's own, once the
   dependency's source is at hand.
