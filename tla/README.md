# kubernetes-mcp-server in TLA+

A model of the parts of kubernetes-mcp-server that are concurrent, keep state or
can fail half-way: how a running server moves from one configuration, kubeconfig
or cluster to the next while requests are being served; how a request is let in,
limited, checked and sent on; what each tool does to the cluster; and how bytes
get from a backend into a result. The modules are translated from the Go source
under `src/`; TLC checks them on small instances and TLAPS proves the
safety properties for every instance. `PROJECT.json` maps each definition to the
lines it stands for (about 45 % of the implementation).

## 1. The system

The server answers MCP requests (tools, prompts, resources) on stdio or HTTP by
talking to one or more Kubernetes clusters.

| part | state it keeps | operations | talks to |
|---|---|---|---|
| MCP server, `pkg/mcp/mcp.go`, `tools_gosdk.go` | `reloadMu`, `configuration` (atomic), the SDK's registrations, the `enabled*` bookkeeping | `ReloadConfiguration`, `applyToolsetsLocked`, `reapplyToolsets`, tool handlers, `Close` | SDK, provider |
| kubeconfig provider and managers, `pkg/kubernetes/provider_kubeconfig.go`, `manager.go` | `p.mu`, `p.cfg`, the `managers` map, each manager's configuration pointer | lazy `managerForContext`, `reset`, `ReloadConfig`, `PublishKubernetesConfig`, `GetDerivedKubernetes` | kubeconfig file, clusters, watcher group |
| watcher group, kubeconfig and workspace watchers, `watcher_group.go`, `watcher/kubeconfig.go`, `pkg/kcp` | the current pair of watchers, `closed`, debounce timers, last known workspaces | `WatchTargets`, `Replace`, `Close`, polls | fsnotify, kcp tenancy API; calls back into the provider under `reloadMu` |
| cluster-state watcher, `watcher/cluster.go` | `lastKnownState`, ticker, debounce timer, the discovery cache it shares | poll, debounce, reload, recapture, `Close` | API server; calls `reapplyToolsets` |
| SIGHUP handler, `cmd/root.go`, `pkg/oauth/state.go`, `pkg/config/state.go` | the published configuration and OAuth snapshot (two atomics), the signal channel | read, discover, publish, reload, roll back, stop | MCP server, OIDC issuer, log sink |
| log sink, `pkg/logging/sink.go` | writer, open file, `mu` | `Write`, `Reload`, `Close` | file system |
| HTTP layer, `pkg/http` | the cached openid-configuration and its single flight | authorize, proxy and generate metadata | the two published states, the issuer |
| request limits, `pkg/mcp/middleware.go` | slot counter, map of per-session limiters | acquire and release, find or create a limiter, reap | live configuration |
| token-exchanging provider, `provider_token_exchange.go`, `pkg/tokenexchange` | a one-entry cache, an HTTP client with a TLS enforcer, a token file | exchange, replace, clear | the two published states, token endpoint |
| access-control round tripper and validators, `accesscontrol_round_tripper.go`, `*_validator.go` | RESTMapper, schema cache, single flight | check and send each Kubernetes request | the manager's configuration, the user, the API server |
| tools and prompts, `pkg/toolsets`, `pkg/kubevirt`, `pkg/kiali`, `pkg/obs`, `pkg/netobserv`, `pkg/helm` | none between calls | read, write and collect | clusters and backends |
| backend response limit, exec output, result budget | bytes read, bytes kept, bytes written | capped reads and writes | every tool |
| configuration loading, output, metrics, telemetry | essentially none | parse, format, record | |

Interactions that make it hard:

* Three kinds of goroutine (SIGHUP, kubeconfig or workspace callback, cluster-state
  callback) queue on `reloadMu`; tool calls take no such lock and fall between any
  two steps of an apply.
* One configuration lives in five places (published state, OAuth snapshot,
  `s.configuration`, `p.cfg`, every manager). They are replaced one after the
  other, and taken back one after the other when a later step fails.
* HTTP requests and token exchanges load the two published states one after the
  other, in different orders, and share caches filled for other requests.
* Watchers are stopped and started from callbacks that those same watchers run.
* Time: polls, debounce windows, reaping, expiring caches; coalesced signals.
* Failure of one step of several: discovery, reset, convert, apply; a request to
  the cluster that is refused, or carried out without an answer.

What makes each part correct is stated with its module below. The list of hazards
in `PROJECT.json` gives, for each, the line where it bites and the properties that
would catch it.

## 2. Modules

| module | code | state and actions |
|---|---|---|
| `KubeConfigProvider` | `provider_kubeconfig.go`, `manager.go` | managers and configurations are numbered in the order they appear, so "older" is `<`; one operator per provider method |
| `ServerReload` | `mcp.go`, `tools_gosdk.go` | one action per step of `applyToolsetsLocked` between which another goroutine may run: `Collect` (with lazy managers built by `ProbeTarget`), `Convert`, `CommitRemove`/`CommitAdd` item by item, `Publish`, `StoreConfiguration`, `Bookkeep`; `ReloadProvider`, `RollBackProvider`; resets; a tool call in its steps (`CallDispatch`, `CallSnapshot`, `CallDerive` or `CallDeriveSlow`, which may end it, `CallReturn`) |
| `ReloadContract` | the promise of `ReloadConfiguration` | `Call`, `Commit`, `Return`, `Acknowledge` |
| `SighupHandler` | `root.go`, `oauth/state.go` | the handler's straight-line code cut at every store and call |
| `LogSink` | `sink.go` | writers under the shared lock, a swap under the exclusive one, descriptors numbered by their open |
| `PublishedStates` | what `root.go` promises to whoever loads the two states | publish the snapshot, publish the configuration, keep them or take them back |
| `Authorization` | `authorization.go`, `validateOAuth` | a request's two loads and the decision for every kind of token |
| `WellKnown` | `wellknown.go` | proxying, the cache and its TTL, one fetch for all that miss it, copies and overrides, clients that leave |
| `HttpServer` | `http.go` | routes a request to one of the two, next to `PublishedStates` |
| `ClusterStateWatcher` | `watcher/cluster.go` | polling goroutine, ticker, debounce timer, timer goroutines and the shared discovery cache, in discrete time |
| `WatcherGroup` | `watcher_group.go`, `watcher/kubeconfig.go`, `pkg/kcp/provider.go`, `workspace.go`, `workspace_watcher.go` | pairs of watchers, file events or polls, timers, callbacks and `NewServer` inside `WatchTargets`, failing resets, lists and file watches, `Close`; what a recursive discovery finds and what the first-level poll sees are two numbers |
| `RequestLimits` | `middleware.go` | a request's way through the slot pool and the rate limiter, cut where the live configuration is read and where a mutex is released; the reaper; time |
| `AccessControl` | `accesscontrol_round_tripper.go`, `*_validator.go`, `auth.go` | from a URL to the resource it addresses, the RESTMapper's reset, denied lists, access review, schema validation with its cache and single flight, confirmation, EULA; reloads and new APIs |
| `TokenExchange` | `provider_token_exchange.go`, `token_exchange.go`, `pkg/tokenexchange` | two loads, the one-entry cache and its key, the shared enforcer and client, credentials, request, response |
| `ToolSteps` | | the vocabulary in which handlers are written: requests, failures, branches, loops, text |
| `KubernetesCore`, `CoreTools`, `TektonTools`, `KubevirtTools`, `PlatformTools`, `ObservabilityTools`, `MeshTools` | `pkg/kubernetes` operations and every toolset | one program per tool or prompt, with the hints and the RBAC it declares |
| `ToolCalls` | `tools_gosdk.go`, `confirmation`, `mcp.go` | runs one program: filter, confirmation, steps, result, against an API server that refuses requests or loses answers and other writers; the text being built is the innermost builder, a scratch's commit step remembers the one around it, and `unseen` the cuts of scratches that it does not show |
| `ToolDiscipline` | the same handlers, read without running them | no state of its own: which requests are in a program, in which order they may come, and which come after a look at the room left in the text |
| `ResponseLimit`, `ExecOutput`, `ResultBudget` | `responselimit.go`, `pods.go`, `resultbudget.go` | bytes by their number: any reader, two streams, nested sections that are committed or copied, texts in UTF-8 or not (`plain`) |
| `ResultPath` | | composes the three: fetch, exec, write, and the last check of the result's text |
| `*Proofs` | | theorems |
| `MC*` | | instances for TLC |

How they are composed: `ServerReload` extends `KubeConfigProvider` (the lock
holder's steps call the provider's) and implements `ReloadContract`;
`SighupHandler` extends that same `ReloadContract`, as its view of the MCP server,
and `LogSink`, and implements `PublishedStates`; `HttpServer` composes
`Authorization` and `WellKnown` with `PublishedStates`; `ToolDiscipline` extends
`ToolCalls`. So the three big modules are
checked apart, each against the promise of its neighbour.

Data is abstracted to what the properties tell apart: a configuration is a number
(with, where it matters, the settings that matter), a toolset surface is a set of
item names per kind, a cluster is a version, a kubeconfig file or a list of
workspaces is a number, a token is what it claims and whether its issuer signed it,
a text is its length. Conversion, discovery, requests and file opening succeed or
fail by choice.

## 3. Runs

| run | what it asks | what it shows |
|---|---|---|
| `reload_safety` | two reloads, a kubeconfig callback, a cluster-state callback and a tool call in every interleaving | the SDK serves exactly the live surface whenever the lock is free; a failed reload leaves nothing in the provider; a call never runs under access control older than the configuration it loaded; the commit reaches every installed manager (`SurfaceIsLive`, `ProviderFollowsLive`, `AccessControlNotOlderThanSnapshot`, `CommitCoversClients`); `ServerReload` implements `ReloadContract` (`ReloadMeetsContract`) |
| `reload_liveness` | the same with kubeconfig edits and failing resets | whoever waits for `reloadMu` is served and gives it back (`EveryWaiterServed`) |
| `sighup` | edits, signals, failing discovery, failing and rejected reloads, log rotation, shutdown | copies agree at rest and a snapshot's provider belongs to its settings (`StatesAreCoherent`); the log sink neither leaks nor writes to a closed file nor reopens after `Close` (`SinkIsSound`); no signal is lost (`EverySignalIsHandled`); the handler implements `PublishedStates` (`PublishesAsPromised`) |
| `http` | two requests, for `/mcp` or for metadata, while configurations are published and taken back, clients leave and the cache expires | what is admitted was verified as one of the configurations of its time asks (`NeverAdmittedUnverified`); an older provider is seen only after a rollback (`OldProviderOnlyAfterRollback`); metadata belongs to an issuer of the request's time and is not stale (`MetadataIsCurrent`), carries nobody else's overrides (`OverridesAreOnesOwn`); `temporarily_unavailable` only during a reload, and a failure only with the upstream (`FailsOnlyForCause`) |
| `watcher` | changes, failing reads and reloads, slow reloads, mapper resets, `Close` | an undisturbed recapture swallows no change (`KnownMeansApplied`); the watcher catches up (`CatchesUp`); `Close` returns (`CloseTerminates`) |
| `group` | kubeconfig edits or workspace changes at any level, failing resets, lists and file watches, `WatchTargets`, `Close`, also while `NewServer` starts the first pair | `Close` stops the group's pair (`ClosedPairIsStopped`); a replaced pair is stopped, but for the first cluster-state watcher (`OnlyCurrentPairRuns`); a change that finds the provider at rest is loaded, unless it is of a file that could not be watched or below the first level of workspaces (`SettledEditIsLoaded`); resets come to an end (`ResetsEnd`) |
| `limits` | `max_in_flight` lowered, raised and switched off, the rate limit changed, two sessions, reaping | no slot is lost and only requests that were there before a reload exceed the cap (`PoolIsSound`); a session gets what a bucket of its own would give it, neither more (`BurstRespected`) nor less (`RejectedForOwnRequests`) |
| `access` | namespaced, cluster-wide, collection and subresource requests, two at a time, under reloads, new APIs and an expiring schema | nothing denied is sent (`DeniedIsNotSent`); nothing unconfirmed is sent and nobody is asked for nothing (`ConsentIsKept`); a refusal is true of the roles, resources and manifest of its time, or the list or schema it needed could not be fetched, or was overtaken as section 5 says (`RefusedForAReason`); in the end every request has ended or waits for the user (`EveryRequestEnds`) |
| `access_subresource` | `PERMISSION_DENIED` means that RBAC denies the operation (`docs/specs/validation.md`) | violated, see section 5 |
| `exchange` | two calls, reloads of either state, cache clears, token-file rotation | each token is exchanged exactly as the snapshot and configuration the call loaded say (`ExchangesAsConfigured`), in TLS if they require it, and never passed on itself (`TokenIsGuarded`); assertions are used once and a rotated token is not sent (`CredentialsAreFresh`) |
| `tools` | every tool and prompt, every path through its handler, every server mode | read-only mode never writes, no unconfirmed destruction, repeating an idempotent tool changes nothing more, the declared RBAC suffices (`DeclarationsHold`); rejected arguments change nothing, success hides no write that was seen to fail and no update is lost (`WritesAreHonest`); no fetch is started on a text that was cut, and only three named collectors start one after a scratch was cut that their text does not show (`NoFetchAfterCut`); every handler passes the static check of `ToolDiscipline` (`HandlersAreDisciplined`), which the theorems about the other three assume |
| `result_path` | readers with short, empty and failing reads at the cap, two exec streams, nested sections that fill the budget exactly, are cut or are copied, of any bytes | no response over the cap passes for a whole one, one that fits is not refused, bodies are closed once (`ResponseIsHonest`); exec output says what it lacks (`ExecIsHonest`); a text built under the budget is accepted by the last check, whatever its bytes, and says once that it was cut when they are UTF-8 and bring no notice of their own (`BudgetIsKept`); nested sections do not hold more than the limits together (`RetentionIsBounded`) |

Every property of a passing run has a mutant: a plausible slip in the mapped code
under which TLC finds the property violated. Where a property is a conjunction of
named parts, each part is stated and commented on its own. The modules' `TypeOK`
document the variables; six of them are theorems, and none is the point of a run.

### Bounds

* `reload_*`: one SIGHUP goroutine, one callback of each kind, one call, two
  contexts, two items, three configurations (the initial one and two reloads, so
  that a failed reload can be followed by a successful one) and three managers (one
  per context and one built lazily while the lock is held). The liveness instance
  trades the call and the third configuration for three kubeconfig contents.
* `sighup`: four configurations, two edits, files that differ in the provider's
  settings, in the served settings only, and in the log destination.
* `http`: two requests (one fetching, one sharing the fetch or hitting the cache),
  one reload (kept or taken back) between four contents, tokens that match either
  configuration, one or none; one tick, which is the TTL.
* `watcher`: two changes, two failures, two timer goroutines (a callback may still
  run when the next one fires), a poll interval of two ticks and a window of one.
* `group`: two changes, one failure (of a reset, a list or a file watch), two timer
  goroutines; the number of resets is not bounded. Five pairs at a time are never all
  in use.
* `limits`: two requests, two sessions, caps 0, 1 and 2, two rate limits, two
  reloads. The refill rate is the smallest for which an idle entry is full again
  when it may be reaped; with a lower one (`rate_limit_rps` below `burst / 600`)
  the reaper hands out tokens early.
* `access`: one caller with eleven kinds of request, a scale of a namespace among
  them (`findResourceTypeIndex` misreads it); one that creates pods, and so shares the
  schema cache, or starts a virtual machine, so that the lists of two discoveries race;
  two configurations, two changes of the cluster.
* `exchange`: two callers with two calls each, two changes, nine configurations that
  differ in one option from the first.
* `tools`: one call at a time (handlers share nothing but the cluster, whose other
  writers are there), loops of up to two items, five modes. `Within` and `Exposed`,
  what is inside each step, are computed from the programs in `MCToolCalls`, and TLC
  evaluates `StepsAssumption` on them.
* `result_path`: caps of one and two bytes under bodies of up to four, two result
  limits above the notice's length, sections two deep. A text that is not `plain` may
  be cut any number of bytes early.

Deadlock checking is off where the bounds or the process's end stop the system; it
is on in `http`, `limits` and `tools`.

### Fairness

* `ServerReload`: the lock holder keeps running, as none of its steps waits for a
  goroutine that could wait for it; strong fairness of each acquisition, because
  `sync.Mutex` in starvation mode hands the lock to the longest waiter.
* `SighupHandler`: the handler and `ReloadConfiguration` are scheduled, a write to
  the log ends, and a waiting exclusive lock of an `RWMutex` blocks later readers.
  Nothing is assumed of edits, signals or requests.
* `ClusterStateWatcher`: time passes, goroutines run, the API server answers (with
  an error, perhaps), and `select` does not prefer the ticker for ever.
* `WatcherGroup`: events, polls and timers happen, goroutines run, the lock is
  handed out fairly. A timer that is due fires, so the workspace poll interval is
  taken to be longer than the debounce window (60 s and 5 s by default).
* `AccessControl`: some request that can go on does; the user and the API server
  answer.
* The others state no liveness: nothing bounds how long a tool or a client takes.

## 4. Proofs

`ServerReloadProofs` proves, for all contexts, items, surfaces, callbacks, calls and
bounds, under `ProviderAssumption` and `ReloadAssumption` (names are distinct, there is
at least one surface): type correctness, `SurfaceIsLive`, `ProviderFollowsLive`,
`AccessControlNotOlderThanSnapshot`, `CommitCoversClients`, `ResourcesBeforeTools` (an
action property no run needs: it follows the order of the commits), and that
`ServerReload` implements `ReloadContract`. The properties speak of moments when the
lock is free or a call runs, so none is inductive. `IndInv` says what holds at every
step of the holder, in four layers, each proved from the ones before it: `LockInv` (who
may be in which phase), `ConfigInv` (`p.cfg` is the live configuration in quiet phases
and the candidate during an apply), `SdkInv` (kinds already committed serve the new
surface, later ones the old one, the current one is part-way), `ClientInv` (no installed
manager is older than the live configuration, and none of a running call older than its
snapshot, installed or not). The refinement maps the phase in which the configuration is
stored to the contract's `Commit`.

`SighupHandlerProofs` proves type correctness, `StatesAreCoherent`, `SinkIsSound` and
that the handler implements `PublishedStates`, for any configurations, edits and
descriptors. `IInv` is made of two halves that share nothing but the destination of the
log: `Coherence` says, for every place the handler can be at, which of the
configuration, the snapshot, the server's copy and the candidate agree and which
provider belongs to which settings; `SinkInv` says which descriptors are open and who
may still write to them, and so why a swap waits for the writers. The refinement maps
the place the handler is at to the stage of the abstract publication.

`HttpServerProofs` proves all properties of `http` for any requests, configurations and
tokens. It takes from the handler only what `PublishedStates` promises, which
`SighupHandlerProofs` has proved: `PublishedInv` (what the two states are at each stage
of a publication and its rollback). `AuthFollows` says of a request, by its place, that
what it has loaded was published at some moment since it came, and what its token was
verified against; `ProxyFollows` says the same of a metadata request, of the flight it
may share and of the cache entry it may copy.

`CallProofs` follows a request to its handler and through it. Its first part is about
`RequestLimits`: it proves `PoolIsSound` in its two parts for any number of requests
and configurations, under `LimitsAssumption` (finitely many requests and sessions). The
counter alone is not inductive about the cap: the mutex holder may have read a cap that
has been replaced since. `LimitIsLiveOrOld` says that it then was there at the reload
and that nobody has taken a slot since, because the mutex admits one request at a time.
It also proves `BurstRespected` and the action property `RejectedForOwnRequests` for
every instance with `FullBeforeReaped`: for each rate limit that is on, an entry idle
for longer than the reap age has refilled its burst. This is a hypothesis of the two
theorems and not an assumption of the module, because the code does not enforce it: with
`rate_limit_rps` below `burst / 600` a reaped session starts again with more tokens than
it had. `RateInv` says that, until a request with an old limit has crossed a new one, a
limiter in the map and the bucket that was never discarded hold the same tokens, and
that whatever was discarded or reaped was full.

Its second part proves the other three invariants of `tools`, `DeclarationsHold`,
`WritesAreHonest` and `NoFetchAfterCut`, for any tools, modes, programs of any nesting
and loops of any length, under `Tools \subseteq Disciplined`. What the ninety handlers
are is data, and nested data at that; so the theorems do not go through them one by
one but say why running a program cannot go wrong when its text is in order. A tool is
`Disciplined` when each request in its program is declared (`Declares`), a write that
fails ends the call (`ReportsFailures`) and, of any two steps that can come one after
the other, the first makes nothing in the second late and, unless it leaves the text
alone, the second does not fetch before it looks at the room left (`IsSequential`).
The hypothesis is what `HandlersAreDisciplined` checks on the real toolsets: one of the
modes filters nothing, so every entry is called. The recursion over a program is in the
constants `Within` and `Exposed`; of them the proof knows only `StepsAssumption`, that
they are closed under what a step puts in its place.
`CallInv` is the inductive invariant: the steps that are left may stand in their order
(`TodoOK`) and are the tool's own, and so is what was asked and written
(`OwnRequests`); the call was let through (`Admitted`); none of the steps left is late
after what was done (`NothingLate`); once the text is cut, what is left looks before it
fetches (`CutIsSeen`); a scratch is cut unseen only in the ways its tool is named for
(`UnseenIsNamed`); a failure that did not end the call is one that is ignored
(`FailureEndsCall`). The lemmas on programs show that a sequence in order stays so when
its head is replaced by what it puts there, when a loop is unrolled, two rounds standing
for any number, and when a prefix is dropped by `break` or by an abandoned section.

`WatcherProofs` proves, for any number of pairs, timers, contents and failures, type
correctness of `WatcherGroup`, `ClosedPairIsStopped` and `OnlyCurrentPairRuns`. `Inv`
adds who holds `reloadMu` (`MuHeld`), that nothing happens before `NewServer` has
started the first primary watcher (`NothingBeforeBoot`), that the pair a `WatchTargets`
has read stays the group's (`SnapIsPair`), and that a watcher started after `Close`
belongs to somebody who has yet to look at `closed` again (`StoppedOrRechecked`);
without the last one `ClosedPairIsStopped` is lost between the start and the second
look. Its second part proves `KnownMeansApplied` of `ClusterStateWatcher`,
without any assumption on the two periods. `StateInv` says that while reloads run
undisturbed the cache is filled at most once, so that everything they have read is what
it holds, and that outside of them `lastKnownState` and the toolsets in place agree,
unless one of them was read in vain.

`AccessControlProofs` proves type correctness, `DeniedIsNotSent`, `ConsentIsKept` and
`RefusedForAReason` for any requests, API groups, roles, configurations and prefix of
the server's URL. The first part shows that what the round tripper reads from a path is
what the API server reads from it, for every request that `IsCall` admits, which are
those Kubernetes clients make (`CallsAssumption`), with one exception that the
properties name too: a subresource of a namespace is taken for a resource in it
(`Misread`). `EntriesAssumption` says that a resource has one kind. The second part is
`Inv`: `Requests` says of each request, by its place, which checks it has passed and
under which configuration (`Sound`), `Discovered` and `SchemaNewer` that the caches hold
only what the cluster has served and that a schema a request found expired is not used
for it, `NoneLost` that an API which was there when a request came can still be found by
it; the properties speak only of requests that were sent or refused, and a manifest is
called invalid when it is or when the fetch of its schema failed (`schemaFailed`). The attempt to
prove `RefusedForAReason` showed, and TLC confirmed, that it did not hold as first
stated: a list of APIs that another request read before an API was installed may be
stored after, and a request that came in between is told that the resource does not
exist. The model now records what was listed then, and the property names the case.

`ResultPathProofs` proves all properties of `result_path`, and that in a call whose
texts are `plain` a section that was cut cuts its parent (`CutReachesParent`), for any
limits, lengths and depth, under the assumptions of the three components (the notice is
longer than a rune and a separator). `resultbudget.go:79` walks back over any number of
continuation bytes, so the walk is bounded only for a `plain` call, which has no more
of them in a row than a rune has and no text with a notice of its own; `NeverRejected`
and `RetentionIsBounded` hold of every call. `PathInv` joins `BudgetInv` (what a scratch
may hold and what its parent accepts add up, `Sound` for all texts and `Marked` for
plain ones), `BodyInv` (the consumer has what the body handed out,
up to the byte that was too much) and `ExecInv` (one counter for both buffers, a loss
exactly when it was cut). `RetentionIsBounded` is a sum over sections of any depth, the
recursive function `Held`. The library's induction theorems cannot be used, so the
proofs go by a least counterexample: `LeastNumber` takes it from the well-foundedness
of `<`. `SumsExist` and `HeldSums` show in this way that `Held` has the values its
definition gives, `HeldLeavesRoom` that at each depth what is held around a scratch
and that scratch's own limit stay within the result's limit together.

`TokenExchangeProofs` proves all properties of `exchange`, and that a configuration
which leaves the cache leaves no idle connections (`DroppedIsReleased`), for any number
of callers, calls and configurations. `Inv` says that the cache's entry has the cache's
key and that a configuration a call holds, shared or not, was built from settings equal
to the ones it loaded; `Creds` adds that an assertion under way has not been spent and
that a federated token under way was read after the call began.

Only model-checked:

* the liveness properties (`EveryWaiterServed`, `EverySignalIsHandled`, `CatchesUp`,
  `CloseTerminates`, `SettledEditIsLoaded`, `ResetsEnd`, `EveryRequestEnds`): fairness
  is outside the prover's reach;
* `HandlersAreDisciplined`: a fact about the toolsets as they are, which TLC evaluates
  for each of them and the theorems on handlers assume;
* the violation run, whose property is false.

## 5. Where the code and its documents disagree

One disagreement is a run: `access_subresource`. `CanI` reviews verb, group and
resource without the subresource (`auth.go:26`), so for an identity that may create
`pods/exec` and not `pods`, a command is refused with `PERMISSION_DENIED` although
RBAC grants it.

Others were met while modelling. The properties state them as exceptions, or the
models show them; they have no run of their own.

* `mcp.go:377` says a concurrent tool call cannot observe new tools with old access
  control; the SDK serves a new tool (`mcp.go:369`) before the publication.
* `mcp.go:690` says a rejected convert does not change clients; a manager that is
  built lazily meanwhile keeps the candidate (`mcp.go:717`).
* `oauth/state.go:95` says the snapshot must be published together with a reloaded
  configuration. They are two stores and two loads: a token may be judged by the
  audience of one and the issuer of the other, and the token exchange may combine
  them either way. `root.go:352` says HTTP auth never observes new flags with the old
  provider; it does when the configuration it loaded is taken back before it loads
  the snapshot (`OldProviderOnlyAfterRollback`). A reload that removes
  `authorization_url` has requests told `temporarily_unavailable`
  (`UnavailableOnlyInReload`).
* `wellknown.go`: URL and client of a fetch may come from two snapshots, and a
  direct fetch has no timeout of its own.
* `workspace_watcher.go:183` says that without the tenancy API the provider still
  functions using kubeconfig-based discovery. A list that fails is not an error for
  `DiscoverWorkspacesRecursive` (`workspace.go:77`), so the fallback in
  `provider.go` is not reached: the provider keeps the default workspace only. When
  the new watcher can list them again, it takes the workspaces as known and they
  stay away until one is created or deleted (`SettledEditIsLoaded`). Workspaces
  below the first level are discovered but not polled, so a change there is loaded only
  with the next one at the first level.
* `kubeconfig.go:51-62`: without files, or when fsnotify fails, `Watch` returns without
  watching, and the error of `watcher.Add` is ignored; nobody is told that edits go
  unnoticed (`deaf` in `SettledEditIsLoaded`).
* An edit of the kubeconfig between the read of a reset and the new `Watch`
  (`provider_kubeconfig.go:58`), or before the first one, is seen by nobody, and a
  reset that fails on a half-written file is not tried again.
* `cluster.go:125`: when the poll interval is not longer than the debounce window,
  each poll restarts the window and the reload starves. A poll in progress when
  `Close` is called may arm the timer again (`cluster.go:130`). The state recorded
  after a reload is captured anew; when a poll refreshed the shared cache meanwhile,
  a change can be recorded as known without having been applied (`KnownMeansApplied`).
* `NewServer` calls `WatchTargets` without `reloadMu`; a reset in that window leaves
  the first cluster-state watcher running (`OnlyCurrentPairRuns`).
* A RESTMapper reset lists the API groups and stores the list later. When an API is
  installed in between, the mapper stays without it until the next reset, and requests
  for it are refused as not found (`listed` in `RefusedForAReason`). A subresource of a
  namespace (`/api/v1/namespaces/<ns>/scale`) is checked as if it were a resource in
  that namespace (`Misread`).
* `validation.md:119` says `INVALID_FIELD` is a field that does not exist or has the
  wrong type; a schema that could not be fetched is reported with it as well
  (`schema_validator.go:157`), to everybody who waited for the fetch, whatever their
  manifests (`InvalidMeansWrong`).
* `memory-bounds.md:69` says a collector does not start another fetch once it was
  truncated. The health check copies excerpts with their notice into a text that is not
  cut (`health_check.go:253-281`) and goes on to list for its next section. A block of
  pod logs that are not UTF-8 may be cut so early that it fits with its notice, and the
  next task's logs are fetched. A scratch with no room, or with nothing but blanks, is
  dropped (`resultbudget.go:167`, `:228`). `CutGoesUnseen` names the three collectors,
  `cluster-health-check`, `pipeline-troubleshoot` and `tekton_pipelinerun_logs`, and for
  each the ways.
* For the same reasons a text may carry two notices (`plain` in `OneNotice` and
  `CutReachesParent`).
* `pods_delete` ignores errors of listing and deleting a managed pod's services and
  routes (`pods.go:99`, `:113`): it deletes the pod, reports success and leaves them
  (`SuccessMeansWritten`).
* `middleware.go:453`: a request that read the previous rate limit discards the
  limiters of the new one (`crossed` in `BurstRespected`).
* `vm_clone` is declared idempotent and uses `generateName`; `vm_create` declares no
  `create` for its server-side apply; `pods_run` overwrites an object of the same
  name and is not declared destructive. `ToolCalls` names each as an exception.

## 6. Not modelled, and what is left

* Configuration loading (defaults, files, drop-ins, environment): a sequential
  function of its inputs. Its verdict, accepted or not, is an input of
  `SighupHandler`.
* The single-cluster provider: `KubeConfigProvider` with one context. The lazy
  managers of the kcp provider: the same steps as the kubeconfig provider's, with an
  unknown workspace refused instead of tried.
* Formatting, schemas, prompts' texts, metrics, tracing: nothing another request or a
  reload could see.
* Signing of assertions, TLS, Helm's own actions, client-go, fsnotify, the MCP SDK:
  external; they are modelled by what the server relies on. A Helm install stores its
  record and creates the chart's objects; its updates of the record, the deletion of
  hooks and the adoption of objects that exist are left out.
* The structured content and the content blocks that `overResultLimit` also counts: the
  property is about the text that is built under the budget.
* In `AccessControl`, a kind the RESTMapper has not learned yet is checked by its
  group and version only, as in the code.
* Middlewares of `pkg/http/middleware.go` that limit bodies and log: no shared state.

What would come next: the merge order of configuration files and drop-ins as an
operator with a reference definition; the kcp provider's lazy managers, should they
come to differ from the kubeconfig provider's. A new toolset needs its programs and
one more line in `MCToolCalls`; the theorems on handlers then hold of it as soon as
`HandlersAreDisciplined` does.
