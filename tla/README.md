# A verification of mimiops-mcp

mimiops-mcp is a Model Context Protocol server in Go: an AI assistant calls its
tools, and the tools read and change Kubernetes clusters. This directory holds TLA+
models of the parts of it where order, concurrency and failure matter, TLC
configurations that check them on small instances, and TLAPS proofs of their safety
properties for instances of any size. Paths below are relative to the repository;
"tools" is `internal/tools`.

To check everything: `tlc -config X.cfg M` for each run in the table below, and
`tlapm M.tla` for the eight modules whose name ends in `Proofs`.

## The system

A tool call arrives by stdio or HTTP, passes the OIDC gate if there is one, resolves
the cluster it is for, and then makes its requests to that cluster's API server. Over
HTTP the server can also be the OAuth authorization server of its clients, by proxying
an OIDC provider that knows nothing of dynamic clients. The parts:

| Part | Code | State | Operations | What makes it correct |
|---|---|---|---|---|
| OAuth proxy | `cmd/mimiops-mcp/server_oauth_proxy.go` | maps of clients, sessions and grants under one mutex, in memory | `/register`, `/authorize`, `/oauth/callback`, `/token`, sweeper | a code and a session are used once, a token goes to whoever asked for it, what expires is not honoured, the maps are bounded and empty themselves |
| OAuth discovery | `server_oauth_discovery.go`, the routes in `server_oidc.go` | none | two documents, the challenge of a 401, the origin computed from forwarded headers | whoever follows them arrives at this server again, however it was reached |
| OIDC gate | `server_oidc.go`, `internal/oidc` | none (keys are cached by go-oidc) | verify a bearer token, check its email | only admitted callers get through, and their token goes along |
| Tool registry | `tools/register.go`, `tools/clusters` | the set of tools, fixed at start | registration by extension and opt-in | nothing that changes the cluster exists without opt-in, except `jobs_create` |
| Kubernetes clients | `internal/k8s` | a cache of clients by cluster under a mutex | `GetCluster`, `GetClusterForRequest`, in-cluster mode | a call reaches the cluster it names, as its own caller and nobody else |
| CronJob, Job and Pod tools | `tools/cronjobs_suspend.go`, `_resume.go`, `jobs_create.go`, `jobs_delete.go`, `pods_delete.go` | in the cluster | Get, merge patch, Get; Get, Create; Delete | a switch that edits nothing else; a retry that runs nothing twice |
| Workload tools | `tools/workloads*.go` | in the cluster | probe three kinds, patch, scale | the right workload is restarted, all of it, and the count reported is true |
| Helm tools | `tools/helm`, `internal/helm` | Helm's release history | list, status, rollback, unlock of a stuck release | exactly one revision back, unlocking that spoils no newer work, and advice whose premise still holds when it is followed |
| Flux tools | `tools/fluxcd` | in the cluster, written by Flux's controllers too | Get, Update, the source's Get and Update | no write undoes another, a request leads to a reconciliation |
| Reading tools | the other files of `tools` | none | one or several requests for one answer | the parts of an answer belong together, and a gap is not taken for an empty list |
| Log sanitizer | `internal/utils/sanitize.go` | none | passes of regular expressions over a log | every secret is masked and nothing else, whatever one pass leaves for the next; it holds of some logs only (see below) |
| Formatter | `pkg/formatter` | none | the text of a struct | the text says what the struct says |
| Age, label selectors, logger | `pkg`, `internal/utils`, `internal/logger` | none | pure functions and output | - |
| Command line | `cmd/mimiops-mcp` | client configuration files | flags, `mcp`, `tools`, `version` | - |

Handlers are goroutines. Between two critical sections of the proxy, and between any
two API requests of a tool, everything else may move: other handlers, the sweeper,
controllers, other clients, the clock. There is no retry and no transaction in any of
the tools. Any request may fail, before or after the API server has executed it. The
server persists nothing. `PROJECT.json` lists, line by line, where this bites
("hazards") and which properties cover it.

## Modules

| Module | Models | State |
|---|---|---|
| `LoginFlow` | what the proxy promises about one login | the phase of each login |
| `OAuthProxy` | the proxy, down to its critical sections | the three maps, calls in flight, clock, the provider's logins, history |
| `ToolServer` | start, gate, registry, cluster cache, identity of requests | configuration, tools, cache, calls, the requests made |
| `ClientLogin` | an MCP client on its way in: discovery, the gate, and a login over `OAuthProxy` that may go wrong | the client, the mode of the server, what went wrong so far |
| `SuspendSwitch` | what suspend and resume promise | the position of each switch |
| `CronJobs` | the tools that write CronJobs and Jobs, and `pods_delete` | CronJobs, Jobs, Pods, calls |
| `Workloads` | `workloads_restart` and `workloads_scale` | workloads, calls, clock |
| `HelmReleases` | `helm_status` and `helm_rollback` | the history of a release, the operator's upgrade, calls |
| `FluxResources` | `flux_reconcile` and `flux_reconciliation` | Flux objects, calls, clock |
| `Reads` | every list (`helm_list` too), description and log | one call, and a cluster that changes under it |
| `Sanitizer` | the passes over a log, on sequences of tokens, and what they should mask | none |
| `Formatter` | the text of a struct, on trees of fields, and a reader of it | none |
| `LogAnswers` | one log or candidate for a card number, and what the sanitizer makes of it | a task and its answer |
| `Answers` | the same for a struct and the text that goes with it | a task and its answer |

The modules `...Proofs` hold the theorems about the module they are named after
(`LoginProofs` about both `OAuthProxy` and `ClientLogin`), the modules `MC...` give the
constants their values. The four modules of the tools and `Reads` start where
`ToolServer` ends: `ToolServer` says on whose behalf and to which cluster a call's
requests go (its last action, `CallApi`), they say what requests those are. `LogAnswers`
and `Answers`, which extends it, take up what they hand over: a log or a struct on its
way into the answer. `ClientLogin` composes the proxy with discovery, routes and gate:
every step of the client that reaches the proxy is a step of `OAuthProxy` conjoined with
what the client makes of the answer. Two refinements tie abstract to detailed:
`OAuthProxy` implements `LoginFlow`, `CronJobs` implements `SuspendSwitch`. Both are
checked and proved.

All of them share some conventions. A handler `h` is a goroutine, `call[h]` is what its
stack holds, its field `at` the point it has reached. One action is one critical
section or one request to an API server, since these are what executes atomically; the
code between two of them touches only the handler's stack and belongs to the action
before or after. A request whose answer is lost changes the stored objects and fails
the call; `RequestFails` is one that was not executed. Random tokens and names are
fresh members of a set. A definition that begins with a comment "Mutant" is a wrong
variant of the definition after it. The checks put it in the place of that definition
to see that the property it belongs to then fails; no specification uses it.

### OAuthProxy

`clients`, `sessions` and `grants` are the maps of `oauthProxy`; `None` is a missing
entry. `handleRegister` is one critical section. `/authorize` is two: `AuthorizeLookup`
reads the registry, deletes an expired registration on the way and validates the
request, and `AuthorizeInsert` makes room and inserts the session. `/oauth/callback`
takes the session out (`CallbackTake`), looks at its expiry and parameters
(`CallbackGivesUp`, `CallbackProceeds`), asks the provider (`exchangeCode`,
`exchangeFails`), and verifies and stores (`CallbackGrants`, `CallbackRejects`).
`/token` burns the grant (`TokenTake`) and then checks it (`TokenAnswer`). `sweep` is
the ticker's goroutine, `Restart` empties memory and forgets the calls. The provider is
external: `ProviderLogin` is a user who logs in, and `ProviderAccepts` says that it
redeems a code once, for the state that it was issued to. The history (`issued`,
`began`, `minted`, `redeemed`, `delivered`) is read by no step but to draw what is new.
Client secrets do not exist in this code, and HTTP encoding and cookies are left out.

`LoginFlow` sees only the phase of the login behind a state: `new`, `open`, `coded`,
`delivered` or `closed`. The mapping `phaseOf` looks for the session in the map or with
a callback, for the code in the map or with a `/token` call, and for the token in the
history.

### ClientLogin

The client is external; it does with the answers what MCP clients do. It is challenged
with a 401 (`CallTool`), reads the two documents where it is told or where it guesses
(`FetchResource`, `FetchServer`), registers once and keeps its id for good
(`Register`), and goes through `/authorize`, the provider and `/token` (`Ask` to
`Redeemed`). After any failure it starts over. A road is a way to reach the server:
with or without TLS, through proxies that forward scheme and host; `originURL` and
`firstHeaderValue` compute from it where the documents point, and `Routes` is what
`newOIDCHandler` serves. Without the proxy, in passthrough mode, the resource names the
issuer, and the login there is one step. Mishaps are what may go wrong: the server
restarts, the provider fails, the user declines, an answer is lost, the only free place
is taken by somebody else, the client comes back on another port, the token expires.

### ToolServer

A `RestConfig` is the server it names, the set of credentials it presents and whether
it impersonates. Contexts are numbers because the code visits them in the order of
their names; the first or last wins by `representativeContexts`. `GetCluster` is the
cached path, under the mutex; `GetClusterForRequest` builds a client of its own for a
call with a token. `NewHelmClient` shows that helm tools begin again from the
ConfigFlags. Every API request stays in `requests` with the call behind it, which is
what the properties are about. A tool is here one request, since all its requests use
the same client.

### CronJobs and SuspendSwitch

`GetFirst`, `Patch` and `GetAgain` are the three requests of suspend and resume, where
the patch holds nothing but `spec.suspend`; `GetCronJob` and `Create` are `jobs_create`,
`Delete` is `jobs_delete` and `DeletePod` `pods_delete`. `SuspendSwitch` says that
between a call and its answer there is one moment at which the switch is turned or found
in its place.

### Workloads

`Look` is one probe of `resolveWorkloadKind` or one list, in the code's order;
`ToRestart` is the decision; `MakePatch` reads the clock and `SendPatch` sends what was
made of it, one workload after another until the first error. `UpdateScale` converts
the count with `Int32`. Time is in ticks, of which `Second` make a second, because
`restartedAt` has no fractions. The ghosts in `watch` remember what was there all the
time, which is what a call can be held to when others write as well.

### HelmReleases

The release's history as Helm stores it, with an upgrade or rollback in two steps
(pending, then its end) and an operator who does the same, dies, or uninstalls. Ages
have the three spans that the code tells apart. `helm_status` is two reads: it gets the
release, lists the history, and only then judges the age of the release it holds, so
`TimePasses` ages that one too. What it advises stays with the call:
`AdviceTakesTwoCalls` is about the calls of `helm_rollback` that follow it. A call on a
stuck release ends with `UpdateStatus`, which stores the release as it was read and
rolls nothing back. What that does to the history is `UnlocksInPlace`. The ghost
`disturbed` says whether somebody else wrote the history meanwhile. Helm's own code is
external: it is modelled from what the calls in `internal/helm/client.go` rely on.

### FluxResources

`Get` and `Update` with optimistic concurrency, where `fresh` stands for the
resourceVersion; `GetSource` and `UpdateSource` are `reconcileSourceRef`, whose failures
do not fail the call. `Handle` is a Flux controller, external, which compares the
annotation with the last one it handled. The clock is in seconds, which is the
resolution of the annotation.

### Reads

A tool is its plan: the sequence of what it reads and what becomes of the call if that
fails ("required", "ifServed", "optional", "last"). Each plan is one definition, named
like the tool. Objects are just identities (a uid that tells their age, an owner), and
come and go between any two reads, also under the same name. The contents of answers,
caps on events, windows of averages and the formatting are left out, and pods that are
created in the same second are not told apart.

### Sanitizer and LogAnswers

A log is a sequence of tokens in the classes that the regular expressions tell apart:
keys with their assignment, words, quotes, values of each kind, the ends of a PEM block,
line ends. A key has an exact, a variant or a harmless name, and a long one (32 characters)
if the generic pattern takes it for a secret. `Sanitize` applies blocks, values and keys in
the order of the code. Each pass says where
a match begins, how long it is and what takes its place; `Replaced` is the left-to-right
scan of `ReplaceAllStringFunc` that all of them share. `luhnValid` is the loop over the
digits from the right. All loops are recursive functions, which the provers can reason
about. `Reference` says for each token whether it is secret by what stands around it, in
no order of passes.

Two definitions limit what the properties are about, for different reasons. `WellFormed`
names the logs for which the tokens are fine enough: a key has a value behind it in its
line, a quote closes in its line, a PEM block and an assignment lie apart or one in the
other, no run of digits is longer than a card number. What the code does at a comma or a
brace within a value, at a quote that does not close or at a single quote in JSON is not
modelled, and a value that is an assignment itself is left out too. `Recognisable` names
the logs whose secrets the code can tell: no key is long, no value repeats the name of
its key, and no card number has another group of digits next to it. The model follows
the code on the others as well, and leaves there what the code leaves; each is listed as
a disagreement below. `NoFormat`, `NoBlock`, `NoAssignment` and `NoCard` are what
somebody sees who has only the sanitized log: a mask in the place of a key's name makes
him look for the value behind it, and a card number may be any part of a run of groups.
`LogAnswers` draws one log or number and answers it.

### Formatter and Answers

A struct is a tree of fields with their tags; the formatter writes lines (headings,
labelled lines, tables), and `ReadBack` is a reader of such a text who knows headings and
tables and not the struct. `Answers` adds structs to the tasks of `LogAnswers`; it is a
module of its own because its operators are RECURSIVE, and `LogAnswers` is proved about.

## Runs

| Run | Question | Bounds, and why they are enough |
|---|---|---|
| `proxy_races` | Do two logins with expiry and a restart keep to `LoginFlow` and its finer promises? | Two of each identity and two handlers, which is what it takes for two requests to race for one code or session; two ticks, so that entries reach and pass their expiry; one restart, with a run before and after it. Symmetric in handlers, states, codes and logins. |
| `proxy_limits` | What happens at the limits, and do maps empty themselves? | Room for one client and one session, two handlers that both saw room, one tick past expiry. No symmetry, for the liveness property. |
| `login` | Does a client always get in again, and does discovery lead it home? | One client with two loopback ports and one of somebody else, room for one registration and one session; all times to live are 0 and the clock has one tick, so that everything expires once; two mishaps, among them at most one restart, which is what it takes for one to be hit by the traces of another; five tokens of each kind, one for every attempt this can spoil. Four roads, three styles of probing, both modes. |
| `server` | Are identity, routing, opt-in and admission right in every configuration? | Two calls at once, two clusters, one with two contexts, three callers (one with an unverified email), 13 ways to start. The cache has an entry per cluster, so two calls meet in it. |
| `server_helm` | Do helm tools act as their caller? | The same. Violation. |
| `cronjobs` | Are suspend and resume an atomic switch, is a repeated `jobs_create` one Job? | Two calls, one CronJob with two templates, two Job names, one Pod. Nothing is bounded but the sets: other clients write as often as they like. |
| `workloads` | Is the right workload restarted, all of it, and is the scale that is reported true? | Two calls, one name in three kinds, two foreign writes (one to create a second kind, one to remove the first), two ticks of half a second, three bits with counts at and beyond their edge. |
| `helm` | Does an undisturbed rollback go one revision back, how many calls does advice take, what does unlocking change? | Two calls, which is what it takes to follow an advice, to follow a call that unlocked the release, or to write between another's read and write; the chain of all three calls is covered pair by pair, and by the theorem. Five histories, four revisions: one more than the longest history. A release that was uninstalled is not installed again, and no history is pruned. |
| `flux` | Is nothing undone, is the answer true, is every request handled? | Two calls, one foreign write, two seconds: enough for an older and a newer stamp. |
| `flux_lost` | Does a second request in the same second trigger anything? | One second. Violation. |
| `reads` | Do the parts of an answer belong together? | One call, since they share nothing, of each tool, and three changes: leave, come back, leave. |
| `answers` | Is of a recognisable log exactly what is secret masked, is nothing left or made that should be, which numbers are card numbers, does the text say what the struct says? | Logs of up to three of 24 segments: a secret, what the passes before and after it may do to it, and what stands next to it, among it keys that are long or repeated and groups of digits next to a card number. Candidates of 12, 13, 16, 18, 19 and 20 digits, both sides of each limit, with two digits that vary, which is what the check digit protects. Structs of up to three fields of a pool of 20, so that each kind follows and precedes each other. |

Each module that keeps state has a type invariant. It is proved, and part of
the `IInv` that the run of the proxy checks. `Answers` has an input and its answer instead
of a state, and no type invariant.

Deadlock is checked where the system cannot stop (`cronjobs`, `proxy_*`, `login`). The
others stop by design: one task that has its answer, a server that failed to start,
goroutines that have served their one call, a clock at its bound.

Liveness. `ExpiredAreSwept` (proxy_limits) assumes weak fairness of `sweep`, a ticker
that the code starts with the proxy and never stops; nothing is assumed of handlers,
users or the provider. `GetsInAgain` (login) assumes weak fairness of the client's steps
and of time: a client that wants in goes on trying, its user signs in, and the requests
that it makes are served, since no handler waits for anything but the mutex and the
provider, and the request to that has a timeout (server_oauth_proxy.go:153). No fairness
is assumed of the sweeper there. `RequestsAreHandled` (flux) assumes weak fairness of
Flux's controllers on each object, which watch and requeue; nothing is assumed of
handlers.

### What the checks show

The proxy redeems a code and a session at most once under all interleavings, because
each is taken out of its map in the critical section that reads it. Its two-step
`/authorize` does no harm: the registry and the redirect URIs agree whenever a client is
registered, the limits hold although the lookup happens in another critical section than
the insertion, and users are refused only when that many live sessions exist. None of
the expiries and refusals keeps a client out for good: after any two mishaps it gets in
again, a user who has signed in is not asked to do so again because of what others do,
and `/authorize` turns a client away only if this run registered it for another redirect
URI, until that registration expires. Discovery leads back to the server over every
road, since the first forwarded value counts and not the nearest. The tool server never
mixes callers, since only clients without a token are cached. The switch of CronJobs is
atomic in the sense of `SuspendSwitch` although it is three requests. A restart by name
never takes one of two kinds that were there all the time. `int32` wraps counts that do
not fit, and the property is stated for those that do. A `helm_rollback` that reports a
new revision went exactly one back if nobody else wrote the history. Unlocking a release
is less than its documents say, and no more harmful than its stale write allows: it
changes nothing but the status of one revision that is older than 30 minutes, and newer
work keeps its place and its contents, also when the history moved on since the release
was read; that the revision is still without an end holds only if nobody else wrote. The
limits in `helm_status` and `helm_rollback` are separate code with separate clocks, but
the advice about a stuck upgrade, followed however much later, finds it stuck: the first
call unlocks it, and the second goes to the revision before. Flux writes undo nothing,
and a request of an applier that succeeded is handled in its own second or later.
Answers of the reading tools are of the object that was described whenever uids tell.
The passes of the sanitizer leave no value of a known format and no PEM block in any
well-formed log. In a `Recognisable` one they do not spoil each other's patterns either,
and only because values go before keys: they mask exactly the secrets. Each of the three
conditions of `Recognisable` is needed; without it TLC finds a log whose secret stays.
The text of a struct can be read back without loss: flat fields come before sections,
and a missing pointer leaves its cell.

### Where code and documents disagree

Two runs show it:
- `server_helm`: helm tools use the kubeconfig's or pod's own credentials and not the
  token of the caller, against docs/oidc.md.
- `flux_lost`: a reconcile in the second of one that was already handled triggers
  nothing and reports success.

Others were met while modelling and have no run of their own:
- No code assigns `allowedRedirectPrefixes`, so https redirect URIs are refused although
  comment and error text allow them.
- Of several contexts of the active cluster the last by name serves, not the current
  one.
- docs/logs.md (section 5) masks keys before values; the code does it the other way
  round, and for card numbers it needs to. But then the generic pattern (sanitize.go:88)
  takes the name of a key of 32 or more characters for a secret, the key is no longer
  found, and its value stays: `SPRING_DATASOURCE_PRODUCTION_DB_PASSWORD=hunter2` becomes
  `***=hunter2`, against section 4.1 and docs/logs.md:162, by which the key is preserved
  and the value masked. The names of harmless long keys are masked as well, and so are
  UUIDs and any other word of 32 such characters, although docs/logs.md:115 leaves UUIDs
  out.
- The value of a key is replaced where it first occurs in the match (sanitize.go:239), so
  `token=token` becomes `***=token` and keeps its value, against docs/logs.md:162.
- A whole run of digit groups is one candidate for a card number (sanitize.go:64):
  `4111 1111 1111 1111 42` is not valid as a whole, and stays, against docs/logs.md:104. The
  check is not repeated on a part of it.
- An unquoted value ends at a comma, a brace or a quote (sanitize.go:348), so that the rest
  of one that holds such a character stays; docs/logs.md:160 shows the pattern, but
  section 4.1 says that the values are masked.
- Keys of JSON with a prefix (`"db_password": ...`) are not matched, against section
  4.1 of docs/logs.md.
- A PEM block that begins within a quoted value and ends behind it takes the closing quote
  along, so that what stands before it in the quotes is not masked; one that ends within the
  value leaves the rest of it. `WellFormed` leaves these logs out.
- docs/fallbackText.md has nested structs in tables of their own where the code puts them
  inline (section 11), leaves out fields without a tag where tables fall back to their
  JSON name (section 3), and promises one row per element (section 7): a cell with a
  line end or a bar breaks its row, since nothing is escaped.
- docs/architecture.md:358 gives `jobs_create` an opt-in, up to ten retries on a name
  collision and a cleared suspend; the code has none of these, and registers the tool
  always (tools/register.go:122).
- docs/oidc.md:165 says that unknown client ids are registered; `/authorize` judges
  their redirect URI and inserts nothing.
- `workloads_scale` truncates to int32: 4294967296 scales to 0 and succeeds
  (workloads_scale.go:101).
- `helm_rollback` of a release that is stuck marks the stuck revision as deployed,
  reports a success and rolls nothing back (helm_rollback.go:113), although
  docs/architecture.md:394 says that it always goes one revision back and helm_status.go:136
  recommends it for that. The recommendation also calls it safe to retry the upgrade; Helm
  refuses one as long as the stuck one is pending, i.e. until such a call has unlocked the
  release. So the advice takes two calls (`AdviceTakesTwoCalls`). After a rollback that
  succeeded the next one goes back to where that came from, so that repeated calls toggle
  between the last two contents.
- `UpdateStatus` (helm_rollback.go:110) stores a copy read before: a release whose upgrade
  fails, ends or is superseded between the read and the write is marked as deployed just
  the same, and so is one whose upgrade works for more than 30 minutes. `UnlocksInPlace` is
  all that holds of it.
- An upgrade that gets in between the read of a `helm_rollback` and its write makes it go
  two revisions back (helm_rollback.go:99), against docs/architecture.md:394. `RollsBackOne`
  is about calls that nobody disturbed.
- helm_status.go:125 calls a failure recent only when it is older than 15 minutes.
- docs/architecture.md:317 filters events of a pod by uid, the code by kind and name;
  325 and 544 have `pods_log` refuse a pod of several containers, the code takes the
  default one; 545 has `jobs_log` of a Job without pods return empty `streams` and says
  that this is not an error, as the comment at jobs_log.go:121 still does, but the code
  returns an error (line 123); 348 and 352 cap pods and jobs at 5, the code does not;
  333 makes `kind` optional for all workload tools, `workloads_scale` requires it.
- README.md:49 offers `workloads_scale` for DaemonSets; the code refuses them. It names
  `hpa_list`, the tool is `horizontalpodautoscaler_list`, and lacks `workloads_restart`.
- The help text of `--extensions` says that all is the default; the default is helm.
  `--as` is ignored inside a cluster.
- The window that is reported with averages is that of memory (usage.go:137 ff.).
- A failed list of pods makes `nodes_describe` and `persistentvolumeclaims_describe`
  say that nothing is allocated or nobody uses the claim.
- The stamp for a Flux source is taken before the source is read (fluxcd/flux.go:448).

## Proofs

Every safety property that the runs check is also a theorem, except the one about the
text of structs, which are trees (see below): it holds for every value of the constants
that satisfies their assumptions, i.e. for any number of clients, handlers, codes,
contexts, workloads and revisions, any limits, any times to live and any width of
integers.

| Module | Theorems |
|---|---|
| `LoginProofs`, of the proxy | `InductiveInvariant` (`IInv`), `TypeCorrect`; from `IInv`: `CodesAreSingleUse`, `OneCode`, `TokenBinding`, `RestartSafety`, `CodeLifetime`, `SessionLifetime`. `Capacity`, `Refusals`, `RedirectBinding`: the limits and the registered URIs. `LoginRefinement`: the proxy implements `LoginFlow` |
| `LoginProofs`, of the client | `LoginInvariant` (`LoginIInv`), `ProxyUnderneath` (`LoginSpec => Spec`), `Discovery`, `RestartTolerance`, `NothingWasted` |
| `ToolServerProofs` | `InductiveInvariant`, `TypeCorrect`, `CallerIdentity`, `ClusterRouting`, `OptIn`, `Admission`, `AnonymousCache` |
| `CronJobsProofs` | `TypeCorrect`, `RetrySafety`, `ForeignEdits`, `SwitchRefinement` (it implements `SuspendSwitch`) |
| `WorkloadsProofs` | `InductiveInvariant`, `TypeCorrect`, `Unambiguous`, `RestartComplete`, `ScaleHonest` |
| `HelmReleasesProofs` | `TypeCorrect`, `RollbackHonest`, `UnlocksStuck`, `AdviceInTwoCalls` |
| `FluxResourcesProofs` | `TypeCorrect`, `CopyInvariant`, `ForeignEdits`, `SourceHonest` |
| `ReadsProofs` | `TypeCorrect`, `UsageHonest`, `Complete`, `LogsHonest` |
| `LogAnswersProofs` | `ExactlySecrets`, `SecretsGone`, `CheckDigit` |

Almost none of these properties is inductive. What each proof adds:

*Proxy.* A token is delivered at `/token`, but that it is right depends on a session
inserted at `/authorize` several calls before, so
`IInv` says of each stage that it agrees with the one before, and that there is only
one of it. `CodesInv`: a code is unused, in the map, in the hands of one `/token` call,
or spent. `SessionsInv`: a state is drawn by one `/authorize`, then in the map, then
with one callback, within one run of the server. `LoginsInv`: the provider knows
only states that were sent to it, and a callback that holds a token holds the one for
its own state. `GrantsInv`: what a code stands for is what its session said, and
sessions and codes are one to one. `DeliveriesInv`: what was delivered is what its code
stood for. The proof has one lemma per conjunct that shows that each action keeps it,
with frame lemmas for the actions that leave its variables alone. Three additions:

- `LimitsInv` for the limits: only the entries of a finite map can be counted. Nothing
  is assumed of it, since the maps begin empty and an insertion adds one.
- `RedirectInv` for the redirect URIs: every place where a login waits (a call, a
  session, a code) is `BoundTo` its client's registration from the admission on, and the
  registry only forgets, or learns under ids that nobody has been given.
- For the refinement, `IInv` is enough. Each action leaves the phase of a login as it was
  or closes it (`Framed`), as a restart or a sweep does to many at once, except that at
  most one login gets a session, a code or a token (`Advances`).

*Client over the proxy.* Each step of the client, of others and of mishaps is a step of
the proxy or leaves it alone, so `IInv` holds underneath. `LoginIInv` ties the client's
memory to it. `RegistrationInv`: as long as the map knows the client's id, it knows it
for the URI and from the time the client remembers, from this run. `RequestInv`: the call
made for the client is the one it waits for. `AttemptInv`: the session of its attempt is
there unless this run did not begin it or it expired, and so is the code.
`NoSignInIsWasted` needs all of it, since others meanwhile push the maps to their
limits.

*Tool server.* `CacheInv` says that a cached client is what its context's
kubeconfig entry gives, `CallsInv` that a call in flight passed the gate and that a
resolved one holds a client that fits it, `ToolsInv` that a server that is starting has
no tools.

*CronJobs.* `MadeInv`: a Job that a call made under a chosen name bears that name, so a
second one cannot exist. For the refinement the step of a handler on the detailed
switch is matched with the moment of the abstract one: the patch, or the first Get if
nothing is to be done.

*Workloads.* `CallOK` says what holds of one call while others write: a workload that
was steady is still to be asked about or has been found (`LookOK`), is acted on and, for
a name without a kind, alone (`ActOK`); stamps are no older than the call (`StampOK`),
what is done has younger pods (`DoneOK`), and a count nobody disturbed is the one asked
for (`ScaleOK`). Lemmas show that a write of another handler or client keeps each part.

*Helm.* The history only grows, or is uninstalled (`Followed`). `NewerOK` and
`Undisturbed` place each call in it, `MarkOK` keeps the content and the age of what is
to be unlocked as they were when it was read, so that the stale write (`UnlockFacts`) is
one of the status alone, and `HistoryOK` rules out a stuck first revision.

*Flux.* `CopyInv`: a copy whose resourceVersion is current is the stored object but for the
handler's own edit. It makes an Update undo nothing. `SourceInv` says the same of the
answer about a source.

*Reads.* Every plan has the shape that `PlanOK` describes, which is proved plan by plan
and then used instead of the plans. `ReadsOK` says that each read behind a call has all
that was there throughout, `LogsOK` that the logs are those of the Job's pods or the
newest of them, and `UsageOK` that an average belongs to the object at hand.

*Logs.* Nothing is inductive here: an answer is what `Sanitize` or
`luhnValid` computes. The work is in what these compute for every log, which is
proved in layers.

- Recursion. `Recursion` shows that a function defined step by step up to `n` exists,
  `Induction` proves something of each of its values: among the finitely many steps where
  it fails there is no least one. `Scan` applies both to `Replaced`, and `ScanInvariant` is
  what every pass needs: whatever holds of the empty output and is kept by copying a token
  and by putting a replacement, holds at the end, given that the scan stands behind the
  last match. `FirstOfIs` and the lemmas on it (`BlockLengthIs`, `KeyLengthIs`,
  `CardLengthIs`, `LineLengthIs`) say how far a match goes.
- Blocks (`BlocksGone`). After their pass no end is behind a begin. What stands for a piece
  of the log has a begin or an end only if the piece has one (`Stands`), so the later
  passes bring none together.
- Formats (`FormatsGone`). `Clean` is the type of a token that is no value, no long key
  and no URL with user information. Each pattern leaves none of its own and later ones
  write only masks, so the value pass takes tokens to `Clean` ones, and so do lines and
  the log.
- The check digit. `LuhnValidReference` compares the loop from the right, with its
  alternating flag, with the sum by positions. A digit contributes a permutation of 0..9 in
  either role, so that changing one changes the sum modulo 10 (`ChangeDetected`), and
  exactly one last digit makes it 0 (`OneCheckDigit`).
- Exactly the secrets (`ExactlySecrets`). A pass puts one mask where `Reference` has one for
  each token, so every step of this proof is up to merged masks: `Merged(us, vs)` gives
  each token of `vs` its place in `us`, in which only masks share one. It is transitive
  (`MergedTwice`), `OneMask` does not see it (`MergedOneMask`), and a replacement comes to a
  reference if each of its pieces does (`MergedScan`). Each pass then has a reference of its
  own that says by positions what it masks (`BlockRef`, `CardRef`, `ValueRef`, `KeyRef`):
  `BlocksMerged`, `CardsAsRef`, `ValuesAsRef`, `KeysAsRef`. What remains is that these
  compose to `Reference`, i.e. that what one pass masks does not change what the next one has
  to. Two invariants show it. `Covers`: a pass before that of keys masks a key only with its
  value, and no quote of a value that it leaves, so that what is left is still assigned to
  the same keys (`Covering`). `InOrder`: merging masks neither takes a value from its key nor
  brings a run of digits to another (`Merging`, `RunMerged`). `BlocksFirst` uses them to take
  the blocks out of `Reference`, `LineByItself` to cut the rest (`LineRef`) into lines,
  `KeysOfValues` to go from the keys of a line to its values.
- What is left (`SecretsGone`). Of assignments and card numbers it follows from the above,
  since the answer is the reference with some masks merged (`SanitizedAsRef`). In the
  reference all of the value of a sensitive key is masked and no key is (`ValuesHidden`), and
  merging masks uncovers none of it (`AssignmentsGone`). Groups of digits next to each other
  in the answer were so in the log, where a card number among them would be one that the
  reference masks (`NumbersGone`). So a value that some pass makes another one miss would
  have to show up here, also behind a key whose name is gone.

`FormatsGone` and `BlocksGone` hold for every sequence of tokens, the rest of it needs
`WellFormed` and `Recognisable`, and the check digit neither. What `WellFormed` requires
of blocks and assignments came out of the proof: `Covering` needs it, and TLC finds logs
without it of which the code leaves something of a value (see above).

### Assumptions

TLC evaluates each on the runs. All modules assume that the missing value `None` is
nothing else and that requests and initial objects have their types. Beyond that:

- `OAuthProxy`: limits and times are natural numbers, and the limits are not 0.
- `ToolServer`: a set of contexts has a first and a last one (`SortedContexts`), which is
  finiteness in the form the proof needs.
- `Workloads`: names are finitely many; the width has more than two bits, and
  `WidthAssumption` states of powers of two what holds for every width, because the
  provers know nothing of powers. In the code the width is 32.
- `HelmReleases`: the first revision of a history has not the status of an upgrade or
  rollback under way, since Helm gives these only to revisions that follow another.
- `Reads`: the number of changes to the cluster is a natural number.
- `LogAnswers`: logs are sequences of tokens and well-formed; numbers are sequences of
  digits. `Recognisable` is no assumption: the properties name the logs they are about.
- `ClientLogin`: `RoadsAssumption` says what a road is: the first value that proxies
  put into a forwarded header is of the origin the client uses, and without the header
  it is what the request itself shows. It does not mention the code that reads the
  headers. `PeerAssumption`: the client asks on loopback ports and with requests of the
  proxy's types.

### Only checked by TLC

Liveness (`ExpiredAreSwept`, `GetsInAgain`, `RequestsAreHandled`), which is out of the
prover's reach. `TextSaysTheSame`: structs are trees of any depth, and the operators of
`Formatter` that go down them are RECURSIVE, about which nothing can be proved; no
module with a theorem uses them. The two runs that disagree with the documents have
violations, and no theorems.

## Not modelled

Ages, label selectors, and the types of `tools/types.go` with the copying of fields into
them (`tools/helpers.go`): one expression for each field, and no state; which fields an
answer has, caps on events and windows of averages. Line ends and bars within the values
of a text. The logger and the command line: output, and flags with defaults; what their
configuration leads to is how `ToolServer` starts. Timeouts and shutdown of the HTTP
server, which only end calls; the lazily built metrics clients, which are the same for
everyone. Signatures, key rotation and discovery of OIDC belong to go-oidc and appear as
a verdict on each token. Packaging.

A Flux source has no property of its own: the stamp for it is taken before it is read
(fluxcd/flux.go:448), so the code promises less for it than for the object.

## Plan

Done, in this order: `LoginFlow`, `OAuthProxy` and its proofs; `ToolServer` and its
proofs; `SuspendSwitch` and `CronJobs`; `Workloads`; `HelmReleases`; `FluxResources`;
`Reads`; `ClientLogin` over the proxy; `Sanitizer`, `Formatter` and their answers; then the
refinements, the limits of the proxy, and the safety of all tools and of the client as
theorems; then what the sanitizer computes, on recursive functions.

To do:
1. The tokens in `Accepted` of `ClientLogin` are those that pass the gate of `ToolServer`,
   but nothing in the models ties the two together yet.
2. The status that `jobs_list` derives from conditions.
