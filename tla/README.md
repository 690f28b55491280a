# A TLA+ model of the Kubernetes MCP server

This directory specifies the server in two layers.  The first is what keeps state
and changes it concurrently: the background watchers, the reload of tools and
prompts, the providers of Kubernetes clients, the reload of the configuration on
SIGHUP, the OAuth snapshot under HTTP requests, the rate limiter.  The second is
what a single call does to a cluster: access control and confirmation, the
requests of the tools, the answers put together from many reads.  TLC checks the
modules on small instances; TLAPS proves the central safety properties for every
value of the constants.
Every definition is a reading of the Go source; `PROJECT.json` maps each one to
its lines.

## The system

The server offers the tools and prompts of its toolsets to MCP clients and runs
them against Kubernetes clusters.  What it offers follows two things that change
while it runs: its configuration (re-read on SIGHUP) and the clusters it sees
(a kubeconfig file, the API groups of a cluster, the workspaces of kcp).

| Component | Source | State | Operations |
|---|---|---|---|
| MCP server core | `pkg/mcp/mcp.go`, `tool_filter.go` | configuration and its cached toolsets, enabled lists, the SDK's registry | `NewServer`, `ReloadConfiguration`, `reloadToolsets`, `Close` |
| Watchers | `pkg/kubernetes/watcher/`, `pkg/kcp/workspace_watcher.go` | started flag, stop/stopped channels, debounce timer, last known state | `Watch`, `Close`, event/tick handling, debounced callback |
| Providers | `pkg/kubernetes/provider_*.go`, `manager.go`, `pkg/kcp/provider.go` | managers per context, default context, current watchers | `reset`, `WatchTargets`, `GetDerivedKubernetes`, `GetTargets`, `Close` |
| Tool and prompt calls | `pkg/mcp/gosdk.go`, `prompts_gosdk.go` | none of their own | choose a target, get clients, run the handler |
| Signals and shutdown | `cmd/root.go`, `pkg/http/http.go`, `pkg/oauth/state.go` | pending signals, OAuth snapshot, HTTP server | SIGHUP handler, `Serve`, `Shutdown` |
| Rate limiter | `pkg/mcp/middleware.go` | a limiter per session, the current limit | one check per request, reaping |
| Configuration | `pkg/config/` | none: files are merged and checked | `Read`, `deepMerge`, `Validate` |
| HTTP authorization | `pkg/http/authorization.go`, `wellknown.go` | cache of a document, fetches under way | validation of a token, proxy of the well-known documents |
| Token exchange | `pkg/tokenexchange/`, `pkg/kubernetes/*token_exchange.go`, `sts.go` | cached STS configuration | exchange of a token for a target, derived clients |
| Access control, confirmation | `pkg/kubernetes/accesscontrol_round_tripper.go`, `pkg/confirmation/` | rules of a client, rules in force | checks of a tool call and of a request, elicitation, fallback |
| Kubernetes operations | `pkg/kubernetes/` (`resources.go`, `pods.go`, ...) | a shared RESTMapper | sequences of API requests |
| Toolsets | `pkg/toolsets/` | none | handlers: what they insist on, send and conclude |
| Kiali and KubeVirt clients | `pkg/kiali/`, `pkg/kubevirt/` | none | mesh graph and health, virtual machines |
| Helm client | `pkg/helm/` | none | calls of the Helm library |

How they interact: the provider owns two watchers.  A change of the kubeconfig
runs `reset`, `WatchTargets` and `reloadToolsets` in the goroutine of a debounce
timer; a change of the cluster state runs `reloadToolsets` in another; SIGHUP
runs `ReloadConfiguration` and so `reloadToolsets` in a third, and stores a new
OAuth snapshot.  Tool and prompt calls run in goroutines of the SDK and share the
configuration and the provider with all of them.  Over HTTP each of them has
passed the authorization middleware, which reads the snapshot, before the rate
limiter and the tool-level rules; its requests to the cluster pass the access
control of the provider's clients, which keep the rules of the start.

Hard parts: reloads overlap without a lock; `Close` waits for a goroutine that
wants the mutex `Close` holds; timers fire after they were stopped; state is
captured twice around a reload; a reset that fails in the middle; a file that
changes between two loads; a snapshot that is loaded several times by one
request; objects that are read, changed and written back by several requests,
any of which may fail.  `PROJECT.json` lists each hazard with its line and
the properties that cover it.

What makes each component correct:

- Watchers: one background goroutine, no channel closed twice, `Close` returns,
  every change is followed by a reload, and nothing else is.
- Server core: when nothing is under way the clients see exactly what the
  configuration and the clusters call for; on the way no tool that stays is
  missing; the last change wins.
- Providers: a call always finds usable clients of the context it names, and the
  last usable kubeconfig takes effect.
- Signals: the last SIGHUP is not lost; whoever loads the OAuth snapshot finds
  parts that belong together; the snapshot follows the configuration in force,
  and never one that was rejected.
- HTTP authorization and token exchange: documents, validations and exchanges
  are those of an issuer configured during the request; no failure lets a token
  through as it came.
- Rate limiter: no session gains from a bucket that is dropped or replaced, and
  the buckets of sessions that are gone do not stay.
- Access control: what is denied is not sent, what has to be confirmed has been,
  and nobody is asked for nothing.
- Operations: tools do what their annotations say, in every failure; an answer
  without error is true; nothing is overwritten unseen.
- Diagnostics: every part of an answer is accounted for and counted once; a
  heading holds for what is under it.

## Modules

| Module | What it is |
|---|---|
| `Watcher` | the life cycle that the three watchers share |
| `KubeconfigWatcher` | `Watcher` with file events |
| `PollingWatcher` | `Watcher` with polls, for `ClusterState` and `WorkspaceWatcher` |
| `ToolRegistry` | abstract: what clients may rely on while the tools change |
| `ToolReload`, `MCToolReload` | the server's reloads, which implement `ToolRegistry` |
| `KubeProvider`, `MCKubeProvider` | the kubeconfig and single-cluster providers, and calls |
| `KcpProvider`, `MCKcpProvider` | the kcp provider: the walk of the workspaces, resets and calls without a lock |
| `SighupReload`, `MCSighupReload` | the main program: startup, SIGHUP, OAuth snapshot, shutdown |
| `OAuthState` | the snapshot as HTTP requests see it |
| `WellKnown`, `OAuthCalls` | both extend it: the proxy of the documents; a token on its way to the cluster |
| `OAuthRequests`, `MCOAuthRequests` | the two composed, under reloads |
| `RateLimiter`, `MCRateLimiter` | the rate limiting middleware |
| `RequestPaths` | what access control makes of a path |
| `AccessControl`, `MCAccessControl` | a tool call and its requests past all that may stop them |
| `ApiServer` | the API server as the tools use it: versions, discovery, a log of changes |
| `Lists` | pure: what is filtered out of a list, for the next and for the prompts |
| `VMResolution`, `ToolPlans` | pure: what `vm_create` chooses; the requests of each tool |
| `ToolCalls` | calls under way, request by request (extends the three above) |
| `Operations`, `MCOperations` | the tools, other clients, and the properties of what they change |
| `MeshHealth`, `MeshGraph` | the health summary; the mesh graph with its goroutines |
| `HealthReports` | the two diagnostic prompts |
| `Diagnostics`, `MCDiagnostics` | the last two composed |
| `WatcherProofs` | theorems about the watchers, with files and with polls |
| `ToolReloadProofs`, `KubeProviderProofs`, `KcpProviderProofs`, `SighupReloadProofs`, `AccessControlProofs` | theorems about the module they are named for |
| `HttpProofs` | theorems about `OAuthRequests` and `RateLimiter` |
| `ToolProofs` | theorems about `Operations` and `Diagnostics` |

### The watchers

A section of code under `w.mu` is one action; `Close` is two, since it releases
the mutex while it receives from `stoppedCh`.  `pc` says where each caller of
`Watch` and `Close` stands, `selecting` and `handling` count background
goroutines, `timer` is the debounce timer.  `WatchStarts`, `WatchSpawns` and
`WatchAborts` are the three ways through `Watch`; `CloseIdle`, `CloseSignals`
and `CloseFinishes` those through `Close`.  A fired timer becomes a callback,
which is counted until it returns.

`KubeconfigWatcher` adds events: a change counts only while the goroutine has the
files, and closing the fsnotify watcher drops what is queued.  `PollingWatcher`
adds the state of the world, the discovery cache through which `ClusterState`
reads (and which only a poll invalidates), and `lastKnownState`.  Its constant
`Overlap` says whether a reload may last into the next poll, `Steady` that what
no cache holds keeps still between a reload and the capture after it.

### The reloads

`ToolReload` has one action per read or write of shared state in
`reloadToolsets`: the filters are built, `Toolsets()` returns or fills its
shared cache one append at a time, each toolset is filtered, the previous list
is read, one call removes, one call per item adds, the new lists are stored.
`Reloaders` are the goroutines, `Concurrent` says whether they may overlap.
`isToolApplicable` is evaluated with the configuration as it is at that moment,
as in the code, where the method value reads through the pointer that
`ReloadConfiguration` swaps.  The trailing `WatchTargets` of a reload is a
matter of the watchers (it starts those that are not started).

`ToolRegistry` is what a client sees: an update has a target; items leave and
come without any that stays being gone; it ends when list and target agree.
The mapping is `exposed <- registered`, `advertised <- enabled`, and for the
target the list wanted by the reload that is applying one.

### The providers

`KubeProvider` is both providers, by `strategy`.  `managers` is `p.managers`
(nil is `Absent`), `default` is `p.defaultContext`; a manager is the context it
talks to and the change of the file it was made from.  A reset is three steps:
the first load (`ResolveContext`), the second (`Install`), and `Close` of the
watchers (`ReplaceWatchers`); for the kubeconfig provider they are under `p.mu`
(`Locked`), for the other any call may run between them.  `ResetFails` is each
way out with an error.  The lookup and the making of a manager in
`managerForContext` are separate steps, since it lets go of the lock between
them.  The watcher is reduced to whether it watches, has an event, and has
armed its timer, as `KubeconfigWatcher` shows it behaves.  A manager for the
empty context is made in one step, though it loads the file twice.

### Signals and the OAuth snapshot

`SighupReload` is one behaviour of `cmd/root.go`: `Init` is `Complete` and
`Validate`, for any files and flags with which the server starts.  `handler`
says where the goroutine of `setupSIGHUPHandler` stands: waiting (`idle`), about
to read the main file (`main`) or the drop-in (`dropIn`), in
`ReloadConfiguration` (`apply`), comparing the OAuth state (`oauth`), asking the
issuer for an OIDC provider (`create`).  Each place is a point at which files
may be edited, another signal sent or the snapshot loaded.  The handler's
channel holds one signal (`sigHupCh`); `Serve`, in HTTP mode, has registered one
of its own (`sigChan`), from which any signal starts the shutdown.

A file is a record with some of the settings; the merge is `@@`, which is what
`deepMerge` does to leaves.  Flags go over the files at startup and not on a
reload; a server without a port clears `require_oauth` at startup.  The snapshot
carries the issuer its provider was made for, so that a mix of two shows.
`behind` remembers that no provider could be made for the configuration in force:
the issuer gave an error, or the certificate authority could not be read
(`CreateFails`).  An issuer that takes the request and never answers is neither an
error nor a step: no client there has a timeout, so the handler stays in `create`.
From `Apply` on the tools are `ToolReload`'s affair; `reloadToolsets` declares an
error, but the conversions it could come from never return one, so a
configuration that is accepted always reaches the comparison of the OAuth state.

The handler is there only with `--config` or `--config-dir`.  Without, a SIGHUP
has Go's default effect and ends a server on stdio, where
`docs/configuration.md:99` says that it is ignored.  And the rules of `Validate`
see a reload without the flags: a server started with `--require-oauth` over
files with an `authorization_url` has every reload rejected.  The run
`SighupReload` has such a server among its initial states; it keeps what it
started with.

### The kcp provider

`KcpProvider` has no lock because the code has none: `LoadFails` leaves what
`reset` wrote before its error, `StoreManagers` publishes an empty map that
`FillOne` and `FillDefault` fill, and a call that makes a manager reads
`p.restConfig` (`Copy`), then the address and the map (`Make`).  The walk is one
action per list (`ListChildren`), in any order of the workspaces it has found; a
list that fails finds nothing, and the walk goes on.  `failing` is the set of
workspaces whose lists fail at the moment.  `Tree` is what the walk is for, defined
apart from it as the least set that holds the default workspace and what the lists of
its members find.  `overlap` is chosen once: whether calls may make managers while a reset
runs.  Nothing watches the kubeconfig here; a change of it takes effect with the
next change of the workspaces.

### Requests over HTTP

A reload replaces the snapshot between any two loads of it (`Store`), and a request
loads it at each step that the code does: for the URL, for the client, for the
overrides, for the validation, for the exchange.  `seen` keeps the snapshots in
force during the request, which is what the properties compare with.  `WellKnown`
is `ServeHTTP` and `fetchOpenIDConfiguration`: the upstream document, or one made
from the openid-configuration of the cache or of a fetch that several requests
share (`flights`), then the overrides on a copy.  `OAuthCalls` goes from the header
through `AuthorizationMiddleware`, `ExchangeTokenInContext` (by strategy or with
the cached STS configuration) to `Manager.Derived`.  `Init` takes any
configuration that `Validate` accepts.  Tokens are told apart by who made them and
for whose users; every fetch, validation and exchange may fail.

### The rate limiter

A call reads the settings (`Read`), takes the mutex and finds, makes or discards
buckets (`Lock`), and spends after it has released it (`Allow`), so that it may
hold a bucket that is no longer in the map.  Time is ticks: `lastSeen` counts them
up to the bound that matters.  A session without an identifier, as on stdio, passes
without limit in the code and is not in the model.  `RateAssumption` asks for
limits that refill a bucket within the ten minutes after which it is dropped; the
code accepts slower ones, and a session that comes back then has more than it
should.

### Access control

`RequestPaths` is the parsing by counting segments, with the server's own prefix;
`Meant`, by which the properties speak, is the resource a client asked for when the
path was made.  `AccessControl` takes a call past the tool-level rules, read from
the configuration in force, and each request of its handler past denied resources,
the validators in the order in which they are installed, and the kube-level rules,
all of the provider's start.  What a schema or a review says is a choice; the review
of the RBAC validator is itself a request that passes the same transport.
A subresource of a namespace is taken for an unknown resource in that namespace, and
refused (`AccessAssumption` says that no resource has its name).

### Operations

A tool is a plan (`ToolPlans`): the requests its handler sends, in order, with the
arguments it insists on.  `ToolCalls` has an action per request, which may fail, and
keeps what was read from one to the next; calls and other clients interleave.
`ApiServer` has optimistic concurrency where the code updates, none where it applies
(server-side apply with force), and logs who changed what.  `VMResolution` gives for
each of the searches over Go maps the set of what it may return.  Read-only tools are
their reads; the text they make of them is left out.

`HintsHold` holds an idempotent tool to its annotation: called again with the same
arguments, when nothing has happened since but what the repetition does, it changes
nothing, however far it gets.  It is asked of manifests whose documents are about one
object each (`Apart`): of two that are about the same object the first undoes what the
second did, and if the second is refused then, the repetition has changed something.

### Diagnostics

`MeshGraph` is the four goroutines, their shared maps under the mutex and the wait;
the health answer is then counted an entity at a time in any order, as maps are
ranged over.  `MeshHealth` holds the calculation; `SummaryExact` states what it should
come to over the whole answer, without order and without merging.  `HealthReports` is
the two prompts, read by read over a world that changes and reads that fail; its
property says what each heading may claim, given the worlds since the report began
(`ClusterTruthful`, `GuideCoherent`), and what may be left out (`ClusterWhole`,
`GuideWhole`): a section or a part for a request that failed, and none for the failure
of another, or what was not there; of the events, those beyond the limit.  It does not ask
that the reader is told of each failure, which the code does not do everywhere
(Observations).

## Runs

| Run | Question |
|---|---|
| `KubeconfigWatcher` | two callers, two changes: `ChannelProtocol`, `NoSpuriousReload`, `CloseStopsGoroutine`, `ChangeReloads` |
| `PollingWatcher` | two kinds, three states (one unreachable), failing reloads: `BaselineApplied`, `ReloadsConverge` |
| `ToolReload` | two goroutines that take turns, two configurations, two worlds: `SettledExact`, `ImplementsRegistry`, `ReloadsSettle` |
| `KubeProvider` | both providers, two calls, two callbacks, five kubeconfigs: `CallsSurvive`, `RightCluster`, `FileTakesEffect` |
| `KcpProvider` | a tree of three levels, two addresses, a call, lists that fail, kubeconfigs broken in three ways and repaired: `RightWorkspace`, `TargetsExact`, `ChildrenOffered` |
| `SighupReload` | two edits, two signals, files that cannot be read, are rejected or name an issuer that fails or never answers: `SnapshotConsistent`, `OAuthAgrees`, `SignalTakesEffect` |
| `SighupReloadFlags` | a server started with `--read-only` (`FlagsHold`): **violated**, a reload drops the flag |
| `OAuthRequests` | two requests, two issuers, a reload, five configurations: `DocumentOfConfiguredIssuer`, `OverridesNotSticky`, `VerifiedByConfigured`, `ExchangedWhereConfigured`, `ClusterCredential`, `EveryRequestAnswered` |
| `RateLimiter` | two sessions, two calls, three settings: `RateHeld`, `IdleDropped` |
| `AccessControl` | nine shapes of request, four configurations, a reload: `NothingDeniedDelivered`, `RequestsConfirmed`, `ToolsConfirmed`, `NotAskedInVain` |
| `Operations` | two calls of 24 kinds, another client: `HintsHold`, `ManifestApplied`, `OwnDefinitionsKnown`, `PodsDeleteExact`, `CreatedAsAsked`, `SeenBeforeReplaced` |
| `Diagnostics` | four worlds, three health answers, a change and two failures: `EveryPartAccounted`, `SummaryExact`, `ReportsTruthful` |

All hold but the one that is marked.

What follows is not among the runs: properties that TLC refutes with the
configuration of a run and the change given here.  Each is a limit of the run that
has it otherwise.

| From | Change | Property | What TLC finds |
|---|---|---|---|
| `KubeconfigWatcher` | | `CloseReturns` | `Watch` returns early and leaves nobody to close `stoppedCh`; `Close` waits for ever |
| `PollingWatcher` | `Overlap = TRUE` | `ReloadsConverge` | a reload that outlasts the poll interval loses a change |
| `ToolReload` | `Concurrent = TRUE` | `FiltersHonoured` | overlapping reloads leave tools of the old configuration under a read-only one |
| `KubeProvider` | `Prompts = TRUE` | `TargetsAreContexts` | a prompt that names no context makes a target with the empty name |
| `KubeProvider` | | `AllCallsSurvive` | a kubeconfig that cannot be used leaves the single-cluster provider a nil manager, which the next call dereferences (the test at `provider_single_test.go:69` has it return clients) |
| `KubeProvider` | `Whole = FALSE` | `RightCluster` | a manager is stored under the name found by the second load and talks to the context found by the first |
| `KubeProvider` | `Steady = FALSE` | `FileTakesEffect` | a change between the last load and the new watch makes no event |
| `KcpProvider` | `Steady = FALSE` | `ChildrenOffered`, `TargetsExact` | a workspace that comes between the walk and the watcher's first list, or a list that fails during the walk only, is taken for known; a walk that the outage meets half-way has part of the tree |
| `KcpProvider` | | `TreeOffered` | a list below the default workspace that fails during the walk is not tried again, since the watcher polls the children of the default one only |
| `KcpProvider` | | `RightServer` | a reset that fails over a server without workspaces leaves its address beside the old credentials |
| `KcpProvider` | | `CallsSurvive` | a file without a current context: `findOrCreateWorkspaceContext` dereferences nil |
| `KcpProvider` | | `FallsBack` | workspaces that cannot be listed are skipped, so the fallback to the kubeconfig, which the comment at `workspace_watcher.go:178` speaks of, never happens |
| `SighupReload` | | `LastSignalRead` | an issuer that takes the request and never answers leaves the handler in `create` (`oauth/state.go:97-125` sets no timeout), and no later SIGHUP is read, though `docs/configuration.md:97` says reload at runtime |
| `SighupReload` | | `StopsOnlyWhenAsked` | in HTTP mode SIGHUP reloads and shuts the server down; `docs/configuration.md:97` says reload |
| `AccessControl` | | `KubeRulesReloaded` | kube-level rules that a reload adds are not asked about |

Bounds.  Two callers of `Watch` and `Close` are enough for every pair of calls
to race, and the two callbacks (`MaxCallbacks`) for a reload to overlap the
next.  Two or three changes make one before, one during and one after a reload.
Two toolsets let the shared cache be half filled; the four tools have each
annotation and each filter decide something.  The five kubeconfigs are one
context, two with and without a current one, the only one that is chosen by
itself, and none.  Two changes of the kcp server make an outage begin and end around
a workspace that comes, and three levels a child that only the recursion finds;
`Outages` has one, of a workspace that is the root of one address and within the tree
of the other, and `Sought` the workspace that only the recursion finds, which a call
asks for besides the default one.  Two changes of the kubeconfig let it break and be
repaired.
Two edits and two signals let an edit fall between the reads
of two files and a signal arrive while the handler is busy; five contents of a
file set an issuer with and without `require_oauth`, a field that needs no new
provider, an unknown toolset, and nothing.

Two HTTP requests can share a fetch and a cache; one reload (`MaxReloads`) between
any two steps is what makes two loads of the snapshot differ, and the configurations
of the start cover each way a credential is chosen.  A reload of the rate limits is
not bounded, ages are.  One tool call with two requests (`MaxRequests`) has a request
confirmed and one that is not; calls share nothing but the configuration in force.
Two tool calls and one change by another client (`MaxOthers`) make every
read-change-write meet a change of what it read.  A report sees at most two worlds
(`MaxChanges`) and two failures, one for each of the reads a heading is made from.
The lists that the code cuts at 20 events and at the worst entities are cut at two.
The counters that bound the runs (these, `MaxFailures`, `MaxWrites`, `MaxEdits`,
`MaxSignals`) appear only in guards of what the environment does; `MaxCallbacks`
delays a timer.

`CHECK_DEADLOCK FALSE` stands where a run really ends: in `ToolReload` and
`SighupReload` when the reloads, edits and signals that the bounds allow are used up
and settled or the server has stopped; in `OAuthRequests`, `AccessControl`,
`Operations` and `Diagnostics` when all calls have been answered; in `RateLimiter`
when the server has been closed.  What must happen before is a liveness property of
the run.  In the others something can always be done again.

Assumptions made by constants, and what happens without them (the table above has the
traces):

- `ToolReload` with `Concurrent = FALSE` is the server while no two of its three
  sources of reloads are active at once.
- `PollingWatcher` with `Overlap = FALSE`: a reload ends within the poll interval
  (30 s).  With `Steady = FALSE` a workspace that changes between a reload and the
  capture after it is lost.
- `KubeProvider` with `Whole`: the file keeps still between the two loads of a
  reset.  With `Steady`: it keeps still from there until fsnotify has it.
- `KcpProvider`: a reset ends before the next timer fires, the file keeps still
  between its two loads, and a list ends, if only with an error, though neither the
  walk nor the watcher sets a timeout; with `Steady`, workspaces and outages keep still from the
  walk to the watcher's first list.  `TargetsExact` is for resets during which no
  call makes a manager: one that does stores it into the new map, where a workspace
  that is gone comes back.

Fairness.  The Go scheduler runs a goroutine that can run, and the runtime fires
timers and tickers: weak fairness of those steps, the handler of SIGHUP, the
`select` of `Serve` and the goroutines of HTTP requests among them.  A fetch that
requests share ends, since it has a timeout (`pkg/http/wellknown.go:267`).  No fairness is
assumed where a request waits for a server that it has asked itself (`Remote`: the
proxied document, the validation, the exchange), which lasts as long as its client
waits, nor where the SIGHUP handler waits for an issuer (`Proceed`), which may be for
ever: `EveryRequestAnswered` and `SignalTakesEffect` say what holds while those waits
end.  In `KcpProvider` a reset goes on and a list ends, and of the timer of its
watcher strong fairness is assumed: where calls and resets take turns (`overlap`) a
call that makes a manager only delays it in the model.  In `PollingWatcher` the stop case of `select`
and the tick compete, and a callback may disable a tick: strong fairness of both,
since `select` chooses at random among ready cases.  Nothing makes a file change, a
cluster change, a signal, a request or a call happen, and nothing makes a failing
reload succeed beyond the bound on failures.  The runs of `RateLimiter`,
`AccessControl`, `Operations` and `Diagnostics` check safety and assume no fairness.

## Proofs

All theorems hold for any sets of threads, contexts, tools, states and so on.

- `WatcherProofs`: `ChannelProtocol` and type correctness, for files and for polls.
  Both modules' steps are steps of `Watcher` or leave its variables alone, so one
  invariant, `LifecycleInv`, serves both.
  `ChannelProtocol` alone is not inductive: it needs to know that at most one
  caller is inside `Watch` and one inside `Close`, that `stopCh` is closed exactly
  while one is draining, and that a closed `stoppedCh` means no goroutine.
  `NoSpuriousReload` follows from `ReloadInv`, which counts a change wherever it
  is: event, being handled, timer, reload.
- `PollingBaselineApplied` assumes `Steady` and not `Overlap`; its invariant says
  that polls and reloads take turns and that a callback about to capture will
  find what its reload found.
- `ToolReloadProofs`: `ReloadTypeOK` for any reloads; `ReloadSettledExact` and
  `ReloadImplementsRegistry` for reloads that do not overlap, from `SerialInv`:
  what the cache of toolsets holds (`CacheInv`), what has been collected
  (`CollectInv`, unless the clusters changed under it) and how far the SDK is
  (`ApplyInv`).
- `KubeProviderProofs`: `ProviderTypeOK` and `ProviderCallsSurvive` with no
  assumption on when the file is written (`DefaultInv`: there is always a manager
  for the default context); `ProviderRightCluster` assumes `Whole` (`ClusterInv`:
  a manager is kept under the context it talks to).
- `SighupReloadProofs`: `SighupTypeOK`, which says too that what is in force has
  passed `Validate`; `SighupSnapshotConsistent` and `SighupOAuthAgrees`, for any
  files, flags, issuers and number of signals.  `OAuthAgrees` speaks of an idle
  handler; `OAuthInv` carries it through the reload: up to `apply` the snapshot
  is that of the configuration in force, after it the new configuration is.
  The assumption is that a file over a configuration is a configuration.
- `HttpProofs`, first part: `RequestsTypeOK` and the five safety properties, for any
  number of requests, issuers and reloads.  The invariant says what each variable of a
  request was taken from: a URL in hand is one of an issuer seen (`SeenOK`), an
  idle request holds nothing (`IdleOK`), a header that is the client's own has not
  passed an exchange (`TokenOK`), a cached STS configuration is used only for the
  issuer it was made for (`ConfigOK`), the cache and the flights hold documents of the
  issuer they are kept under, whole (`CacheOK`), and so does what a request has found
  (`DocumentOK`, `FoundOK`, `RegistrationOK`).
- `HttpProofs`, second part: `RateIsHeld` and `IdleAreDropped`, with the types of the
  limiter, for any finite sets of sessions and calls, any settings within
  `RateAssumption` and any number of reloads of them.  `RateHeld` compares what a session
  is granted with an ideal bucket that is never dropped, and is not inductive: a call may
  still hold a bucket that has left the map.  `LimiterInv` says that a bucket has one
  session (`OneOwner`), that a call that holds one has been seen lately (`CallsSeen`),
  that a bucket in the map or in a call's hand never has more than the ideal one, and that
  where there is none the ideal one is full (`NothingGained`), and that the reaper comes in
  time (`ReaperOnTime`).  That a free bucket can be found for a new session is a matter of
  counting: hence the finite sets.
- `AccessControlProofs`: `AccessTypeOK` and the four safety properties, for any rules,
  tools and requests, and any number of calls and reloads.  The first half is about
  paths: the shape of the path of a well-formed request (`ShapeOfPath`), with a prefix
  or without (`PrefixStripped`), gives by counting segments the resource, name and
  namespace that were meant (`ParsedIsMeant`).  The second carries through a call what
  it may have been asked (`ProgressOK`, `ToolOK`, `RequestOK`).  It assumes
  `PathAssumption` and `AccessAssumption`: requests are well formed, fallbacks are
  those that `Read` accepts, and no subresource of a namespace is a known resource.

- `KcpProviderProofs`: `KcpTypes`, which says too that a call that runs has clients, and
  `WorkspaceIsRight`, for any tree, any number of calls and whatever changes meanwhile.
  `KcpInv` follows a reset: it has one default workspace all along (`OneDefault`), every
  manager is for the workspace under which it is found (`ManagersOwn`), the map being
  filled holds what the walk has found unless calls make managers (`FillSound`).
  `TargetsAreExact` assumes `Steady`; under it `WalkSound`, the other half of
  `KcpInvariant`, says that what has been found is in `Tree`, and that the children of what
  has been listed have been found.  That the walk then is the whole tree needs no
  induction over it, since `Tree` is the least set that is closed (`TreeLeast`), and holds
  for circular children as well.
- `ToolProofs`, first part (`Operations`), for any requests, any cluster to begin with and
  any number of calls and of changes by others: `NothingUnseenIsReplaced`,
  `DefinitionsAreKnown`, `ManifestsAreApplied`, `HintsAreKept`,
  `PodsAreDeletedExactly` and `VMsAreCreatedAsAsked`.  `OperationsInv` is a conjunction, each part of which uses those
  before it.  Every object is what the change of its version's number made
  of it (`VersionsTell`), and so is what an update goes by (`ReadsKept`): of equal
  versions they are equal, and an update that is not refused replaces what was read.  A
  plan is what its tool began with or what is left of that (`PlansKept`), so a read-only
  tool has no step that writes.  The documents that are no longer to be sent are those from the front of
  the manifest, and each has been stored (`ManifestsGotTo`).  A mapper that was filled
  before a definition was stored is dropped by whoever stores it (`MapperFresh`).  For
  `PodsDeleteExact`, which is about what happened in between, `DeletionsKept` says for
  each number of steps that are left what has gone and what may still be there: everything
  that is gone exposed the pod, and everything that exposes it is found, yet to be listed,
  or gone.

  That a repetition changes nothing is about two calls and all that lies between them,
  so the first has to leave something for the second to find.  Objects lie on the path
  of their scope (`PathsKept`), so that the namespace a document is given on its way, once
  or twice, is the same object in the end (`AtTarget`); a tool that names one object keeps
  to it (`NamedKept`), and its last change leaves it deleted or scaled (`ReachedKept`); the
  documents of a manifest that have been sent are all there, none having replaced another
  (`AppliedKept`).  `RepeatsKept` then says that no number of steps of the repetition has
  added to the log: what it applies, the server finds as it is, what it scales has that
  scale, and what it deletes it does not find.

  `CreationsKept` follows the choice of `vm_create` from the document that is drafted to
  the object that is stored.  The choice itself is right (`RenderedAsAsked`) since what is
  filtered out of a list is what the list has of the set (`FilteredHas`), and the first of
  it therefore one of the size and performance if there is any (`MatchSuits`).

  `OperationsAssumption` is about requests, which are well formed and have documents for
  manifests only, about the cluster, whose objects are where the API server keeps them,
  and about the versions with which it begins; `CatalogAssumption` says that no instance
  type has the empty name.
- `ToolProofs`, second part (`Diagnostics`): `MeshPartsAccounted` for any answers of Kiali
  in any order (`MeshKept`: an outcome is an error exactly when it is listed as one, and a
  result waits for all four goroutines), `SummariesAreExact` for any health answer, and
  `ReportsAreTruthful` for any worlds, changes and failures.  `ReportInv` says of each
  part of a report from which world of the story its answer is; `ReportFull` what is
  missing: of the sections asked for so far no more than there have been failures
  (`SectionsAsked`), and of the parts of a guide, when nothing failed, those that some world
  did not have (`MachineMissed` and its like).  The lists cut at `EventLimit` and filtered by namespace are sequences of
  any length; `Filtered`, the recursive function that `Lists` has in place of
  `SelectSeq`, of which the prover knows no definition, keeps the elements that pass and
  no others, by the least length for which it would not.  `ReportsAssumption` says that no
  namespace of a cluster has the empty name, and that no object is what stands for none.

  `SummariesAreExact` is about sums over sets and about a sort.  Induction is first-order
  here: a set of numbers, or of subsets of a finite set, that a step can be taken in is all
  of them, as the least number, or a smallest subset, that is left out would not be
  (`Stepwise`, `Shrinking`).  `MapThenSumSet` takes its summands in an order that nobody
  knows; `SummingAdds` shows that any may be the first, and one summand more by one is a
  sum more by one (`SumGrows`).  `HealthKept` says of the entities counted so far that each
  status has as many as there are, in all and summed over the namespaces, and that the
  list of the UNHEALTHY has them all (`CountDoes`).  The exchange sort holds the greatest
  of what it has compared at the place it settles (`SettledDoes`) and loses no entry, so
  that what the limit cuts off is no worse than what is shown (`RankedDoes`).  That
  UNHEALTHY is what `Unhealthy` says, without order and without merging, is `StatusIs`.
  `HealthAssumption` says that entities are in namespaces of the answer, that counts are
  not negative, and that a service has no workload statuses.

Model-checked only: the liveness properties (`CloseStopsGoroutine`,
`ChangeReloads`, `ReloadsConverge`, `ReloadsSettle`, `FileTakesEffect`,
`ChildrenOffered`, `SignalTakesEffect`, `EveryRequestAnswered`), which rest on
fairness and are out of the prover's reach.  Every safety property that a run checks is
proved.

The type invariants are proved and, but for that of `OAuthRequests`, in no run (that of
`Operations` is not proved, and stated for the reader; `CallsShaped` is what the proofs use of it); the invariants behind the theorems (`LimiterInv`, `KcpInv`, `OperationsInv` and
their parts) were checked with TLC under the configurations of the runs, and are in none,
since they say what the proofs need and no more of the code.

## Not modelled

- `WatchTargets` without the lock (`provider_kubeconfig.go:187`): a watcher replaced by
  a reset in between is started after it was closed.  It takes the watchers, the
  provider and the main program in one model; no property covers it.  The order of a
  shutdown belongs to the same.
- Two accesses to one Go map at the same moment, in the kcp provider, which end the
  program.
- In-cluster configurations; kubeconfig details that decide namespaces and TLS.
- The forms and signatures of the token exchangers, which are one exchange that may
  fail; SSE sessions, which get their token through the context of their own request
  (`authorization.go:115-117`).
- The Helm client, whose state is the library's; Kiali's calls other than the mesh
  graph, and the handlers of the Helm, Kiali, kcp and config toolsets, which pass one
  request on.
- Metrics, telemetry, logging, the text and layout of results, schemas of tools.

## Observations

Met while reading, and no subject of a property:

- Providers.  `TokenExchangeProvider` has no implementer outside of tests.  The comment
  at `mcp.go:380` says the provider is reloaded; it keeps the configuration of the
  start.  With kcp and `require_oauth` a reset asks for a derived client without a
  token, which passthrough refuses, so the provider cannot be made.
  A kcp context whose cluster is missing is dereferenced by the next call for another
  workspace (`provider.go:201-202`).  The kcp watcher sees the children of the
  default workspace only.  `kcp_workspace_describe` takes "name or path", but a path,
  as the list prints it, is looked up as a name.
- OAuth.  A reload that removes `authorization_url` makes a server that was started with
  one refuse all calls.  With the built-in STS a token goes on unexchanged if a reload
  removes the provider between validation and exchange.  An exchange that answers
  without a token leaves a blank `Bearer ` and so an anonymous client.
  `RequireOAuth` is cleared for stdio (`root.go:191`), so what `Derived` refuses without
  a token is not reached over HTTP.
- Access control.  A request outside of a call's context, as Helm makes them, fails with
  "no MCP session" where a kube-level rule fits it.
- Operations.  `pods_run` has `DestructiveHint` false and applies with force over what
  exists (`core/pods.go:255`, `api/toolsets.go:189-190`); `vm_clone` has
  `IdempotentHint` true and uses `generateName` (`vm/clone/tool.go:42`); `vm_create` is
  not idempotent, since it ranges over maps.  A port beyond 32 bits is truncated
  (`core/pods.go:402`).  A size `large` may choose `c1.2xlarge`, whose name holds it, and
  a type found by name may be one of the cluster for one of the namespace.  A restart
  whose second update fails leaves the machine `Halted`.  `ResourcesList` narrows to the
  default namespace when its review fails.
- Reports.  "Limit to 20 most recent events" takes the first 20 in list order; a
  namespace whose events cannot be listed has "No recent events"; "All namespaces
  (Total: 0)" when the list fails; "No volumes configured" when both reads failed; the
  events of a virtual machine include those of others whose name begins with its own.
- Mesh.  An app with a workload scaled to 0 after one that is down is NOT_READY and not
  UNHEALTHY; entities that are NOT_READY or UNKNOWN count as HEALTHY for the mesh; the
  error rate of a namespace is a sum; a health answer that does not parse is an empty
  summary without an error, while another part that is not JSON fails the whole call.
  The comment near `kiali.go:154` says that larger answers are cut; they are an error.
