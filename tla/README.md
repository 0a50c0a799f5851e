# Specifications of the multicluster observability addon

These TLA+ modules model the parts of the addon whose correctness depends on the order
in which things happen or on pieces that must fit together: event handlers that share a
cache, controllers that read through caches and write to the API server, renderings that
run concurrently for every managed cluster and depend on the feedback of earlier ones,
dashboards whose selectors, queries and links must agree with each other and with what
the clusters send. TLC checks the modules on small instances; TLAPS proves for all
instances every safety property, invariant or action property, that TLC finds to hold.

`PROJECT.json` maps each definition to the lines it models and lists the runs, their
properties, the hazards the properties are aimed at, the findings and the theorems.

## The system

The addon runs as one process on the hub of a multicluster installation. Three
controllers share it:

- the **addon manager** (`internal/controllers/addon`, on the open-cluster-management
  addon framework) renders, for each managed cluster the addon is installed on, a
  ManifestWork: the values function of `internal/addon/helm/values.go` calls one
  options builder per signal (metrics, logging, tracing, COO, right-sizing), each
  reading objects of the hub without a cache;
- the **watcher** (`internal/controllers/watcher`) notices that an object copied
  into some ManifestWork has changed, and asks the addon manager to render the
  clusters concerned;
- the **resource creator** (`internal/controllers/resourcecreator`) keeps the
  default metrics resources on the hub and lists them, per placement, in the
  ClusterManagementAddOn (CMAO).

What they render runs elsewhere: the work agent applies it on each cluster and reports
back; operators there act on it; the consoles of the hub show the dashboards.

| Component | State | Operations | Interacts with | What makes it correct |
|---|---|---|---|---|
| Reference cache (`watcher/cache.go`) | two maps under a read-write lock | Add, Remove, GetNamespaces | called by informer goroutines of the watcher | lookups answer what the works carry; nothing leaks; no call blocks for ever |
| Watcher (`watcher/controller.go`) | reference cache, workqueue | handlers of ManifestWork, Secret, ConfigMap, hub-settings events; Reconcile | informers; `addonManager.Trigger` | an outdated copy in a ManifestWork is never forgotten |
| Resource creator, default stack (`metrics/resource`, `addon/common`) | none of its own: objects and CMAO on the API server, informer caches | one pass: default agent, apply agents, configs and rules, list them in the CMAO, delete orphans | users, the observability operator, its own watches | what it owns is in place when it rests; users' edits survive; it does come to rest |
| Right-sizing ConfigMaps (`analytics/rightsizing/handlers`) | one ConfigMap per feature | Build ensures and reads; the resource creator sweeps | the MultiClusterObservability operator (MCO) and users write them too | gone when the feature is off, in force on every selected cluster when on |
| COO takeover (`metrics/handlers`, `metrics/manifests`, metrics chart) | ManifestWork feedback, the annotation of a pod template | decide whether the addon deploys its own Prometheus operator; have it restarted when CRDs appear | work agent, OLM, endpoint operator, Deployment controller | exactly one operator per agent, aware of its CRDs; nothing left behind |
| Options and values (`addon/options.go`, `addon/helm`, handlers of logging, tracing, COO) | none | a fold over the customized variables; one section per signal | reads listed objects, Secrets and subscriptions of the hub | works end up with what the variables call for; one pass does not undo the last |
| Health check (`addon/addon.go`) | none | decision over the feedback | options of the moment | healthy if and only if what was asked for is there and works |
| Right-sizing rules and scrape configs (`analytics/rightsizing`) | none | which series are recorded, which federated | Prometheus of the clusters | the hub has the series its dashboards read |
| Dashboards (`pkg/perses`, `internal/perses`, `coo/manifests`) | none | pages of selectors, panels and links; which are served | Perses consoles | no page waits for ever, lacks its data, or links into nothing |

Hard to test, and listed line by line under `hazards`: the order of events from
different informers; reads from a cache that lags behind; passes that fail half
way; two controllers creating and deleting the same object; renderings that depend on
the feedback of earlier renderings; the process exiting by design (`main.go`, on a change
of the TLS profile); server-side apply, which creates what it does not find; features
switched separately that serve pages, rules and collection of the same thing.

## The modules

| Module | Models | Extends or uses |
|---|---|---|
| `ReferenceIndex` | what the reference cache promises: an atomic table | |
| `ReferenceCache` | `cache.go`, at the grain of lock operations and loop iterations | instantiates `ReferenceIndex` for the refinement |
| `Watcher` | the watcher between the hub's objects and the addon manager | the cache as the atomic table proved of `ReferenceCache` |
| `StackResources` | the resource creator's pass for metrics | |
| `RightSizing` | the right-sizing ConfigMaps and their keepers | |
| `COOTakeover` | who runs the Prometheus operator of a cluster | |
| `Rendering` | from the customized variables to a work and a verdict on health | what metrics need is the subject of `COOTakeover` |
| `DashboardKit` | queries, selectors, panels, links: what dashboards are built from | |
| `FleetPanels`, `HostedControlPlanePanels`, `SloPanels`, `NetworkingPanels`, `ComputePanels`, `RightSizingPanels`, `IncidentPanels` | the panels, one module per package of the source | `DashboardKit` |
| `RecordingRules` | the series of right-sizing: recorded, federated | `DashboardKit` |
| `Dashboards` | pages, and which of them the hub's chart serves | the panel modules |
| `Console` | a reader of the pages while features are switched | `Dashboards`, `RecordingRules` |
| `ReferenceCacheProofs`, `WatcherProofs`, `StackResourcesProofs`, `RightSizingProofs`, `COOTakeoverProofs`, `RenderingProofs` | theorems | the module of the name, TLAPS |
| `DashboardsProofs` | lemmas about every dashboard and the catalogue of them | `Console`, TLAPS |
| `ConsoleProofs` | theorems about the console | `DashboardsProofs` |
| `MC...` | small instances for TLC | the module of the same name |

Definitions that begin with "Slip:" are mistakes the code does not make; they are
used by no specification. Each property is checked to fail when the definition that
follows is replaced by its slip.

### ReferenceCache

Each writer is a goroutine that calls Add or Remove for a ManifestWork, each reader
one that calls GetNamespaces. Variables are the two maps, the lock (`holders` of the
read lock, the `writer` that holds or waits for the write lock) and, per goroutine,
the program counter, arguments and what is left of its loop. The read-write lock is
Go's: a writer that has announced itself keeps new readers out, and gets in when the
readers inside have left. `Exclusive` says whether callers keep to the assumption the
code states at `cache.go:13-16`: a configuration is referenced by at most one
ManifestWork of a namespace.

### Watcher

The hub's objects are of four kinds by how the watcher treats them: `Tracked`
(copied with the original-resource annotation, found through the cache), `Shared`
(the images list and hub settings: every cluster with a ManifestWork is rendered),
`LocalOnly` (the local cluster is rendered) and others, which never trigger
anything. Of the shared ones, `Flags` are switches that are off when absent and
whose deletion the predicate drops: the MultiClusterHub with its network policies
(`controller.go:319-328`). Absent with it off is the same to a rendering and to the predicate,
so a flag is absent or has a value, and every change but `DeleteFlag` sends an event.
A rendering reads what it needs one object at a time
while they change, the images list first and the switches last (`Before`), and applies the work at the end; work events reach
the informer's store (`Observe`) and then the handler (`HandleWorkEvent`) in order,
events of different objects in any order. The addon framework and the work agent are
external, modelled from how the code relies on them: no two workers render one
cluster at once, failed renderings are retried, a report on a new generation has the
cluster rendered again (`internal/metrics/README.md`, "Status update trigger").

There is no order between the informers, and the code loses changes for lack of it. A
rendering reads a Secret, writes the work, the status report has the cluster rendered once
more, and that rendering reads the Secret again; the Secret changes then, its event is handled
before the event of the new work, finds no cluster in the cache, and is dropped, while the
rendering under way has already read the old content and leaves the work as it is.
`watcher_race` shows it as a violation of `NoCopyForgotten`. What repairs it, if anything, is
the periodic resync of the addon framework's informers, outside this repository.

The other runs and the theorem say that this is all that is lost. The history variable `missed` has, for each
cluster, the objects of which a change was not passed on to it: by an event that was handled
while an event of the cluster's work was still to come and that asked for no rendering of it (`Unaware`), or
by the deletion of a flag. It is cleared as soon as the object is read again, when the addon is reconfigured or
removed, and by a restart. `NothingForgotten` and `EventuallyInSync` speak of everything else,
in every interleaving. `missed` is read by no action.

### StackResources

One worker runs `Reconcile` step by step: each list, each apply, each delete is an
action, and any call may fail (`ApiError`) and discard what the pass has gathered. The
objects are agents (default, dummy, user-defined) and scrape configs or rules (the
operator's, users'); an object is reduced to the placements its annotation names, who
owns it, whether it has the labels it is listed by, and whether the addon's own
settings are in force. The caches lag object by object, which over-approximates the real
ones, which lag type by type. `Wakes` says which
writes the controller's watches let through; `Write` is a server-side apply or another
write, `AfterApply` what an apply makes of an agent, one that does not exist included.
A cached read and the write that follows it are one action where nothing the worker does
depends on what happens in between.

Left out: the second collector (user workloads run through the same code under another
label), the migration of placement labels, annotations that cannot be parsed, a missing
hub endpoint, a CMAO without an owner.
At most one placement called `global` is declared at a time.

### RightSizing

Builds of several clusters run at once with the resource creator's pass. Build gets the
ConfigMap, creates it if it is missing, gets it again and renders; errors of the first two
steps are only logged, errors of the third fail the rendering. The resource creator
gets it from its cache and deletes it. Each of the two has its own cached view of the
AddOnDeploymentConfig (`seenAdc`). The predicate on ConfigMap events lets creations and updates through and
ignores deletions. A content stands for the parsed rules and placement predicates;
`Selected` is the set of clusters its predicates match, `Broken` the contents that fail a
rendering. The features that are still to do are a set, of which `First` is the next one (Build and the sweep have a fixed order). What happens while a cluster has no
ManifestWork is the subject of `Watcher` and not repeated here.

### COOTakeover

The protocol of `internal/metrics/README.md` between the addon manager, the work agent, OLM,
the endpoint operator and the Deployment controller, for one cluster. A rendering is two
actions: `Begin` reads what the decision is made from (the feedback of the *last* work: OLM's
label on the anchor CRD, the times at which two CRDs were established), `Apply` writes the
work. The work agent applies the anchor, the endpoint operator, the agent with its
controller-id and the Deployment separately, and reports when what it sees differs from
what it reported. CRDs get the next value of `clock` when they are established; a pod
discovers, once, those that are there when it starts. From outside come: the addon
on and off, metrics on and off, the vendor's labels, COO installed and uninstalled with any of
its CRDs, and the eviction of the pod.

`AnchorRendered` is the reason the protocol can work at all: the work has the anchor whoever runs the
operator, as a work without it would report no label, the next rendering would deploy the
addon's operator again, and so on for ever; that is the mutant of `ComesToRest`.
The hub tells COO from the label alone. `OneOperatorWhenQuiet` asks for COO's operator only where
COO is installed, and for the addon's elsewhere, with the one exception `LeftBehind`: COO has gone and the
anchor with OLM's label has stayed, and then there is no operator at all (see below).

The annotation is rendered only where the vendor is OpenShift, so on other vendors
nothing restarts an operator that started before its CRDs: `OneOperatorWhenQuiet` asks for
`pod.knows` of OpenShift only. While COO is being installed there is a window in which the anchor is still in the
work as the addon's own, so that removing the addon just then deletes OLM's CRD;
`CleanWhenQuiet` speaks of the state at rest, when the ownership has been given up.

### Rendering

The customized variables are a function from keys to values, as strong as the code's own tests on them;
the fold of `BuildOptions` is written as the predicates it amounts to (the last value of a key counts).
Each section has what it renders and when it fails: a section that fails fails the
rendering, the work stays as it was and the cluster stays queued. `SecretCopy` is the
order in which namespaces are looked through, `Installs` the test on subscriptions, which
looks at what an earlier rendering has installed. On the cluster, `Apply`, `Reconcile` and
`Report` are the work agent's and the operators'. `HealthChecker` is the code's decision
over the reported fields under the variables of the moment; `Works` and `Demanded` are what it should
mean. The health check asks a vendor other than OpenShift for logs, and the hub for traces,
that no rendering gives them: `Supported` excludes both from `VerdictWhenQuiet`.
The Instrumentation is looked up under the name of the collector (`InstrumentationFound`), as
the code does, so one of another name fails every rendering with instrumentation; the run
has them named alike.

### Dashboards

A selector has the selectors its query reads, a panel its queries and links, a query the selectors and,
for right-sizing, the series it reads, and the labels of its rows where a link takes a
value from a row. Everything else of PromQL and layout is left out. `Dashboards` builds every page
the hub's chart serves from this repository's builders, and has the conditions under which it is served
(`Dashboards`, `AnalyticsDashboards`); `RecordingRules` has what the clusters record and
federate. `Console` is a reader: opens a page, has its selectors load in the order of
their dependencies, picks values, follows links, while features are switched and hub
and clusters follow at their own time. How a console loads a page is Perses', external:
a selector without options leaves those that read it without options, a value is kept if it is an
option and otherwise falls back to everything or to the first.

`LosesContext` lists the pages whose links give the row that was clicked and not the
cluster, metric or namespace it was found under, so that the page they open may fall
back to another: `LinksArrive` is about all other links. `NeverLoads` names the page whose selector for the type of
workload reads `$workload`, which that page does not have.

`NoDeadLink` speaks of steps: no step leads from a page that is served to one that is not. A page
that was open when its feature was switched off stays open, and a link of it may well lead to a page
that has gone with it; an invariant on the page shown would call that a dead link as soon as
features are switched twice.

## The runs

| Run | Bounds | Shows |
|---|---|---|
| `refcache` | 2 writers, 1 reader, 3 works (two of one namespace), 1 configuration, callers keep to the assumption | typing, exclusion, no stale reference, no empty set, no lost reference; refinement of `ReferenceIndex`; every call returns |
| `watcher` | hub and spoke; a Secret, an object of the hub's own, a flag, each present or absent; 3 changes, restarts included, no order between informers | an outdated copy has something pending that will refresh it, and is refreshed in the end, but for what is `missed` |
| `stack_safety` | 2 placements, 3 agents, 1 config, 2 changes of any kind, failures and restarts counted | what is owned is in place at rest, no stale listing, no orphan; users' CMAO edits are kept |
| `stack_liveness` | same; no user deletes an agent or declares a placement | the controller comes to rest |
| `rightsizing` | 2 clusters, 1 feature, 3 contents (one broken), 3 changes | ConfigMaps swept, edits rendered everywhere once MCO has written the keys, no endless create-delete loop |
| `takeover` | 1 cluster, 2 CRDs, 3 changes of any kind | at rest one operator, aware of its CRDs, unless `LeftBehind`; nothing of the addon left behind; it does come to rest |
| `rendering` | hub, spoke or other vendor, 5 choices of variables, 2 changes | at rest the work is what the variables call for and the verdict is true; renderings do not chase each other |
| `console` | all dashboards, one feature switched under way, any path of a reader | no dead link, no page without its data, links arrive, pages load |

Two goroutines are enough for every race of the cache, as an entry is written by one
call at a time and a third caller only repeats the part of the second; two works of one
namespace and one of another are needed for the assumption to matter. References to different configurations
meet only in the key of the work, whose two checks one configuration exercises. Any number of
configurations, readers and callers that do not keep
to the assumption are covered by the proofs of `Exclusion`, `NeverStale` and `NeverEmpty`. In the watcher the
races are between one rendering, one object and the two event streams of one cluster; the
second cluster separates the three ways of enqueueing. In the stack, right-sizing and
takeover runs two and three changes allow a change to hit a pass that reacts to an earlier one:
COO, for instance, comes, goes and the addon is removed meanwhile.
The second feature of right-sizing runs through the same code after the first and
shares no object with it. The choices of variables of `rendering` (`MCConfigs`) each
switch on another mix of signals, and two of them make the rendering fail on some
clusters; two changes are a change and its reversal before the first is applied. The
reader of `console` takes any number of steps: only the switching of features is bounded.
`CHECK_DEADLOCK FALSE` is set where the system stops once changes from outside are used up.

Four runs show where the code departs from what it says:

- `stack_agent_stuck`: an agent deleted between listing and apply is created anew by
  server-side apply, without the labels it is listed by; from then on the creation of the
  default agent fails with AlreadyExists and every pass ends there. The same happens with no user involved
  when the global placement is withdrawn and declared again while the cache of agents lags behind the
  worker's own deletion. This is why `stack_liveness` leaves out `delete` and `declare`.
- `watcher_race`: a change of a Secret that is handled before the event of the work with its copy goes
  unnoticed (`controller.go:208`); one cluster, two objects and two changes are enough.
- `rendering_secret`: the Secrets of logging and tracing are copied without the annotation
  by which the watcher finds the clusters that have a copy; a change of the Secret goes unnoticed.
- `console_vm_link`: the links of the overview of virtual machines take cluster and profile from
  columns that the rows do not have, and the page they open falls back to its first cluster.

Other disagreements are plain from the code, show up in the models as the exceptions named
above, and are listed under `hazards` where they have a line:

- once the dummy agent exists, a global placement declared later gets no default agent
  (`resource.go:419` against the comment at `resource.go:439`);
- user-defined scrape configs and rules do not wake the resource creator;
- with no right-sizing key set, features are on but not delegated, so nothing is rendered on a fresh install
  (`rightsizing/handlers/handler.go:47`), where `options.go:314-315` says that the default "ensures right-sizing works immediately";
- COO is uninstalled and leaves its CRDs: the anchor keeps OLM's label, which the addon takes for COO
  (`metrics/handlers/handler.go:555`), so that nobody runs the agent, against `metrics/README.md:64` ("MCOA detects its
  absence and re-installs its own"), until the user deletes the anchor too;
- the deletion of a MultiClusterHub with network policies on reaches no cluster (`watcher/controller.go:326`);
- once the addon's own logging subscription is of one channel, a change of the variable for the
  channel fails every rendering of the hub (`logging/manifests/values.go:77`);
- the comment at `resourcecreator/controller.go:150-152` says the right-sizing ConfigMaps are not created
  per cluster, "to avoid race conditions from concurrent Build() calls", while `ensureNamespaceConfigMap`
  does create them in Build. The race is in `RightSizing`; `SweptWhenQuiet` shows that it
  heals, thanks to the create event;
- an operator of the addon on a vendor other than OpenShift is not restarted for CRDs;
- the links of `LosesContext` and the page of `NeverLoads`.

### Fairness

- `ReferenceCache`: weak fairness of each goroutine's steps (the Go scheduler runs all of
  them), strong because getting the lock is one of them: a waiting writer keeps new readers
  out, and an unlocking writer lets the waiting readers in first, so Go's RWMutex starves neither.
- `Watcher`, `StackResources`, `RightSizing`: weak fairness of informers (they deliver
  what is on the API server), of the workers (controller-runtime and the addon
  framework hand out queued requests and retry failed ones) and of the work agent's report.
  In `RightSizing`, MCO is assumed to
  create the ConfigMap it misses in its own mode, which makes the liveness property harder.
- `COOTakeover`, `Rendering`: weak fairness of each action of the addon manager, the work
  agent, the endpoint operator, the Deployment controller and the operators: each is a
  controller that keeps working while there is something to do.
- `Console`: weak fairness of loading the selectors of the open page. Nothing is assumed of the reader.

There is no fairness of anything users do, of failures or of restarts, which are bounded instead:
liveness is a claim about what happens once they stop.

## The proofs

The theorems hold for all values of the constants under the named assumptions of each module, which
say that the values that stand for "none" are none of the others and that the kinds of things are
disjoint; sets of goroutines, works, objects, placements or changes may be of any size.

`ReferenceCacheProofs`, under `CacheAssumption`:

1. `TypeCorrect`: `TypeOK` is inductive.
2. `Exclusion`: `LockInv` ties the program counters to the lock (in a locked section a
   goroutine is `writer`, and no reader is inside; whoever is between RLock and RUnlock is
   among the holders).
3. `NeverStale`, `NeverEmpty`: neither is inductive, as in the middle of a loop the two maps
   disagree. `LoopInv` adds what a goroutine in its loop has still to do:
   while it drops references, those left are of its own work and not in the new set; while
   it adds, the stored set is the new one.
4. `NeverLost`: assumes `Exclusive`. `ClaimsInv` says that works of one namespace claim disjoint
   configurations, calls in flight included; `FoundInv` that each configuration of a work is found,
   unless the goroutine that holds the lock is about to add it. Without `ClaimsInv`, dropping the
   reference of one work could lose that of another, which is what the code's NOTE warns of.
5. `Refinement`: under the same assumption each step maps to a step of `ReferenceIndex` or
   to a stutter. A write takes effect in `Store`, or in its early return; a lookup in its
   return, where `ReadInv` says that what was collected is part of what the map says.

`WatcherProofs`:

1. `TypeCorrect`, and `NeverForgotten`: `NothingForgotten` is an invariant, whatever the order of events.
   `KnownInv` says that once all events of a work are handled the cache has what the work carries; `CopyInv`
   that what a cluster needs has been read, or will be, and copied, unless a request is pending for it; `FreshInv`
   is `NothingForgotten` of all objects. The step that matters is the handling of an object's event:
   either it asks for a rendering of the cluster, or an event of its work is still to come and the object is
   added to `missed`, or, by `KnownInv`, the cluster's work has no copy and by `CopyInv` a rendering is to come
   that makes one.

`StackResourcesProofs`, under `StackAssumption`:

1. `TypeCorrect`, and `WatchInvariant`: `OwnInv` (the addon's agents are owned whenever they exist),
   `SeenInv` (a cache differs from the API server only in what is still to be delivered), `WakeInv`
   (of an object whose changes the watches let through, what is to be delivered will wake the worker).
2. `UserEditsSurvive` follows from `SeenInv`: with a resource version that is still current, what the
   worker read is what it replaces.
3. `WrongIsAhead`, and from it `InPlace`, `NoStaleListing` and `NoOrphan`. None of the three is
   inductive: they speak of rest only. The invariant says for each thing that can be wrong (a listing of what is gone, an
   orphan, an object a placement lacks, an owned agent with settings of its own) that, unless
   something is pending that starts another pass, the pass under way still has it ahead: it is in
   a stage before the one that repairs it, or the object is still in `todo`, or its reference is in
   `desired`. `Untouched` is the heart: after a step that leaves nothing pending for an object, the
   object and the CMAO are as before and the caches agree with them. As a failed call or a restart leaves the request pending,
   failures need no case of their own.

`RightSizingProofs`, under `RightSizingAssumption`:

1. `TypeCorrect`, for any features and any `First` that picks one of them.
2. `Swept`, from `WakeInv` and `SweepInv`. `WakeInv`: of what was written and not yet seen, all that is still there
   will wake both controllers, although deletions wake nobody. `SweepInv`: a
   ConfigMap of a feature that is off, with nothing pending that starts another pass, is still in `todo` of
   the pass under way. A Build that lags behind can create such a ConfigMap at any time, but the creation is let through.
3. `Rendered`, from `RenderedInv`: with no request pending for a cluster, what its Build has rendered so
   far, or its last Build rendered, is right. An edit between the read and the end of the Build makes a request,
   a deletion makes none, which is why the property is about ConfigMaps that are there.

`COOTakeoverProofs`, under `TakeoverAssumption`:

1. `TypeCorrect`; `OneOperator` and `Clean` from `IInv`, whose parts say: a rendering under way or
   finished has read the current inputs, or the cluster is queued (`BuildInv`, `WorkInv`); no time is in the future
   (`ClockInv`); a pod of an annotation knows the CRDs whose times are in it, unless one came or went
   after, with a later time (`PodInv`); the agent belongs to nobody while it cannot exist (`AgentInv`).
   The argument is that a pod started too early carries an annotation that differs from the current times, so the state is not at rest.

`RenderingProofs`, under `RenderingAssumption` (versions are non-empty sequences of numbers, in any
number of components):

1. `TypeCorrect`.
2. `RenderedAtRest`, from `CurrentInv`: a work that is not queued has what is `Wanted`, operators aside.
   The property is about whole works, of which the operators depend on what is installed on the cluster, and that
   changes without a rendering; the manifests in `Wanted` depend on the variables, the kind of cluster and, on
   the hub, the ruler's rules, and each change of those queues the cluster (`WantedSame`).
3. `TrueVerdict` relates the verdict, which sees the feedback alone, to the cluster. At rest the feedback is of what is
   there (`FeedbackAtRest`); `CRDInv` says that an agent is never on a cluster without the CRD that is probed
   along with it, as the check for the version has nothing to look at otherwise;
   and `OlderThanMinimum` that the comparison of versions component by component, of
   unequal lengths too, finds exactly the operators that do not know scrape configs.

`DashboardsProofs` goes through the code page by page: what the queries of a table read and the labels
their rows carry, then for each dashboard that it has every selector that its queries and
selectors read (`Complete`) and which series it needs (`Supplied`), then the recording rules and
what of them is federated, then for each page with links that the target exists, has the selectors the link
sets, and can make of them what was promised (`LinksWithin`). Seven lemmas collect the pages,
and what follows uses those alone: `OneBoardPerName`, `PagesComplete` (but for `NeverLoads`),
`PagesSupplied` (for every choice of features with collection, the pages served read what is federated under the
same choice), `NeverLoadsPage`, `FleetLinks`, `AnalyticsLinks` and `CatalogueParts`.

`ConsoleProofs`, under `ConsoleAssumption`, for any features on at first and any number of switches.
The invariant is `TypeOK` with `ServedInv` (what is served follows some one choice of features),
`ClosedInv`, `ChoiceInv` (a selector that reads one its page lacks never has a value), `OptionsInv` (while
the series it lists arrive, no selector is without options) and `ContextInv`.

1. `LinksLand`: `ContextInv` is `LinksArrive` made inductive. That a value asked for is shown is not
   enough to know that it will be: it is an option only if the selectors it is listed under
   have what was asked for too. So it says of whatever a link promised that all the selectors it depends on are promised
   as well, and that it is asked for or may be everything.
2. `PanelsFull` from `OptionsInv`, `PagesComplete` and `PagesSupplied`.
3. `LinksLive` from `ServedInv`, `FleetLinks` and `AnalyticsLinks`: pages that link to each other are served under one condition.
   The one page that never loads cannot be left by a link, as all its links are in panels that need the type.

Proofs that failed showed two definitions to be imprecise: the arms of a CASE overlapped, in the health of
what the work agent applies and in the values a selector loads. TLC takes the first arm that holds, the
logic leaves open which; the arms are disjoint now and say what TLC took them to say.

Only model-checked: the liveness properties (`EveryCallEnds`, `EventuallyInSync`, `ComesToRest` of four modules,
`PageSettles`), as fairness and ENABLED are beyond this prover; and of the three
properties that fail there is nothing to prove.
No module uses RECURSIVE operators, which would keep it from being proved about.

## Not modelled

- The dashboards for virtualization, etcd and the API server under `pkg/perses` and `internal/perses` that no chart carries (about seven
  thousand lines of library that the program does not reach), and those built by the community
  mixins (Kubernetes, etcd, Thanos), whose queries are not in this repository.
- Data conversions without control of their own: the remote-write transpiler, hosted clusters,
  image overrides, resource requirements, tolerations, proxies, the
  specification of the log forwarder. PromQL arithmetic, thresholds, units, layout, wording, log messages.
- Wiring: the setup of the addon framework, flags, HTTP and TLS. The manifest order is a sort by a
  key that no two manifests share.
- The periodic resync of the informers, which is the addon framework's: without it what is `missed` stays so.
- In the resource creator: the label migration, malformed annotations, the merge of remote-write
  entries. They are listed as hazards without a property, with the reason.

`PROJECT.json` has the reason for each component.

## Possible extensions

1. `StackResources`: malformed annotations as another kind of agent, the label migration with its
   substring test, user-listed objects the cache does not have yet.
2. `Watcher`: hosted clusters and their ServiceMonitors, told apart from the objects of the hub's own.
3. `COOTakeover` and `Rendering` in one model: each has the other's part at rest.
