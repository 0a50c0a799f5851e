------------------------------ MODULE Watcher -------------------------------
(***************************************************************************)
(* internal/controllers/watcher/controller.go with the two controllers it  *)
(* sits between: the hub's API objects on one side, the addon manager that *)
(* renders a ManifestWork for each managed cluster on the other.           *)
(*                                                                         *)
(* A ManifestWork carries copies of Secrets and ConfigMaps of the hub.     *)
(* The watcher learns from ManifestWork events which cluster has a copy of *)
(* what (its reference cache), and on an event of a Secret or ConfigMap    *)
(* asks the addon manager to render those clusters again.  The question is *)
(* whether copies stay fresh when events of different kinds reach the      *)
(* watcher in any order, renderings read the hub while it changes, and the *)
(* process restarts.  They do not always: the watcher passes on nothing    *)
(* when it hears of an object before it hears of the work with the copy    *)
(* (two informers, no order between them), nor when an object goes whose   *)
(* deletion its predicate drops.  The history variable `missed' records    *)
(* exactly these cases, and the properties say that there are no others.   *)
(*                                                                         *)
(* The ConfigMaps of right-sizing, whose events are filtered too, are      *)
(* module RightSizing's.                                                   *)
(*                                                                         *)
(* The reference cache is the atomic table ReferenceIndex promises (proved *)
(* of ReferenceCache), with one ManifestWork per cluster.  The addon       *)
(* framework (its queue, retries, and its own ManifestWork watch) and the  *)
(* work agent that reports status are external.                            *)
(***************************************************************************)
EXTENDS Naturals, Sequences, FiniteSets

CONSTANTS
  Clusters,       \* managed clusters, each with its namespace on the hub
  LocalCluster,   \* the hub managing itself
  Configs,        \* the objects of the hub a rendering may read
  Tracked,        \* those copied with the original-resource annotation
  Shared,         \* those every cluster depends on: images list, hub settings
  LocalOnly,      \* those only the local cluster depends on
  Flags,          \* those shared ones that are a switch, off when absent, whose
                  \* deletion is not watched: the MultiClusterHub
  Values,         \* contents of an object
  Absent,         \* the object does not exist, or is not in the ManifestWork
  NoWork,         \* the cluster has no ManifestWork, or none is known
  Idle,           \* no rendering of the cluster is in progress
  MaxEvents       \* bound: changes made from outside in a behaviour

ASSUME WatcherAssumption ==
  /\ LocalCluster \in Clusters
  /\ Tracked \subseteq Configs /\ Shared \subseteq Configs /\ LocalOnly \subseteq Configs
  /\ Tracked \cap Shared = {} /\ Tracked \cap LocalOnly = {} /\ Shared \cap LocalOnly = {}
  /\ Flags \subseteq Shared
  /\ Absent \notin Values
  /\ \A S \in SUBSET Tracked : NoWork # S
  /\ NoWork \notin [Configs -> {Absent} \cup Values]
  /\ Idle \notin [todo : SUBSET Configs, read : [Configs -> {Absent} \cup Values]]
  /\ MaxEvents \in Nat

VARIABLES
  source,     \* the object's content on the hub
  attached,   \* clusters the addon is installed on
  wants,      \* the tracked objects each cluster's configuration names
  work,       \* the copies in each cluster's ManifestWork
  configEvents, \* events of each object the watcher has not handled
  workEvents, \* ManifestWork events of each cluster not handled, in order
  observed,   \* how many of them the informer's store has taken in
  table,      \* the reference cache: what each known work carries
  queue,      \* the watcher's workqueue
  missed,     \* history: objects whose last change each cluster was not told of
  triggered,  \* the addon manager's workqueue
  render,     \* what the rendering in progress has read and has still to read
  reporting,  \* clusters whose work agent will report status
  events      \* changes made from outside so far

hubVars == <<source, attached, wants>>
watcherVars == <<configEvents, workEvents, observed, table, queue, missed>>
renderVars == <<triggered, render, work, reporting>>
vars == <<hubVars, watcherVars, renderVars, events>>

Content == {Absent} \cup Values
Copies == [Configs -> Content]
Rendering == [todo : SUBSET Configs, read : Copies]
Known == {NoWork} \cup SUBSET Tracked

TypeOK ==
  /\ source \in Copies
  /\ attached \subseteq Clusters
  /\ wants \in [Clusters -> SUBSET Tracked]
  /\ work \in [Clusters -> {NoWork} \cup Copies]
  /\ configEvents \in [Configs -> Nat]
  /\ workEvents \in [Clusters -> Seq(Known)]
  /\ observed \in [Clusters -> Nat]
  /\ \A n \in Clusters : observed[n] <= Len(workEvents[n])
  /\ table \in [Clusters -> Known]
  /\ queue \subseteq Clusters
  /\ missed \in [Clusters -> SUBSET Configs]
  /\ triggered \subseteq Clusters
  /\ render \in [Clusters -> {Idle} \cup Rendering]
  /\ reporting \subseteq Clusters
  /\ events \in 0..MaxEvents
-----------------------------------------------------------------------------
\* What the rendering of a cluster reads.
Needs(n) == wants[n] \cup Shared \cup (IF n = LocalCluster THEN LocalOnly ELSE {})

\* What a rendering does without: the objects of the local cluster's own
\* (coo.go:51-66), and the switches (GetNetworkPoliciesEnabled).
Optional == LocalOnly \cup Flags

\* What a rendering reads before c: the images list first (handler.go:78), the
\* switches last (values.go:102), the others in any order.
Before(c) ==
  CASE c \in Flags -> Configs \ Flags
    [] c \in Shared \ Flags -> {}
    [] OTHER -> Shared \ Flags

\* Slip: copies without the annotation are taken for annotated ones.
KeysWithoutAnnotation(copies) == {c \in Configs : copies[c] # Absent}

\* The keys updateCache extracts from a work: its annotated copies.
TrackedKeys(copies) == {c \in Tracked : copies[c] # Absent}

\* Whether a list from the informer's store has a work of the cluster.
Listed(n) ==
  (IF observed[n] = 0 THEN table[n] ELSE workEvents[n][observed[n]]) # NoWork

\* The clusters an event of c is enqueued for: enqueueForConfigResource,
\* enqueueForAllManagedClusters, enqueueForLocalCluster.
Requests(c) ==
  CASE c \in Tracked -> {n \in Clusters : table[n] # NoWork /\ c \in table[n]}
    [] c \in Shared -> {n \in Clusters : Listed(n)}
    [] c \in LocalOnly -> {LocalCluster}
    [] OTHER -> {}

\* The clusters with a copy of c that the watcher, handling an event of c, has
\* not heard of yet: an event of their work is still to come.
Unaware(c) ==
  {n \in attached \ Requests(c) :
     /\ workEvents[n] # <<>>
     /\ work[n] # NoWork
     /\ c \in Tracked => work[n][c] # Absent}
-----------------------------------------------------------------------------
\* A hub with everything a rendering reads and its switches off, no addon yet.
Init ==
  /\ source \in {s \in Copies : \A c \in Configs : s[c] = Absent <=> c \in Flags}
  /\ attached = {}
  /\ wants = [n \in Clusters |-> {}]
  /\ work = [n \in Clusters |-> NoWork]
  /\ configEvents = [c \in Configs |-> 0]
  /\ workEvents = [n \in Clusters |-> <<>>]
  /\ observed = [n \in Clusters |-> 0]
  /\ table = [n \in Clusters |-> NoWork]
  /\ queue = {}
  /\ missed = [n \in Clusters |-> {}]
  /\ triggered = {}
  /\ render = [n \in Clusters |-> Idle]
  /\ reporting = {}
  /\ events = 0

(* Changes made from outside. *)

External == events < MaxEvents /\ events' = events + 1

\* An object is created, updated or deleted; a switch is turned by an update,
\* or created in position on.
ChangeConfig(c, v) ==
  /\ External
  /\ source[c] # v
  /\ source' = [source EXCEPT ![c] = v]
  /\ configEvents' = [configEvents EXCEPT ![c] = @ + 1]
  /\ UNCHANGED <<attached, wants, workEvents, observed, table, queue, missed, renderVars>>

\* An object with a switch that is on is deleted: no event of it passes the
\* predicate (controller.go:326).
DeleteFlag(c) ==
  /\ External
  /\ source[c] # Absent
  /\ source' = [source EXCEPT ![c] = Absent]
  /\ missed' = [n \in Clusters |-> IF n \in attached THEN missed[n] \cup {c} ELSE missed[n]]
  /\ UNCHANGED <<attached, wants, configEvents, workEvents, observed, table, queue, renderVars>>

\* The addon is installed on a cluster, or reconfigured there to use other
\* objects; the addon framework queues the cluster.
Configure(n, S) ==
  /\ External
  /\ n \notin attached \/ wants[n] # S
  /\ attached' = attached \cup {n}
  /\ wants' = [wants EXCEPT ![n] = S]
  /\ triggered' = triggered \cup {n}
  /\ missed' = [missed EXCEPT ![n] = {}]
  /\ UNCHANGED <<source, configEvents, workEvents, observed, table, queue, render,
                 work, reporting>>

Detach(n) ==
  /\ External
  /\ n \in attached
  /\ attached' = attached \ {n}
  /\ wants' = [wants EXCEPT ![n] = {}]
  /\ triggered' = triggered \cup {n}
  /\ missed' = [missed EXCEPT ![n] = {}]
  /\ UNCHANGED <<source, configEvents, workEvents, observed, table, queue, render,
                 work, reporting>>

\* The process exits (main.go exits on a change of the TLS profile, pods are
\* moved): what it held in memory is gone.  Starting again it lists every
\* object and every work, and the addon manager every installed addon.
Restart ==
  /\ External
  /\ configEvents' = [c \in Configs |-> IF source[c] = Absent THEN 0 ELSE 1]
  /\ workEvents' = [n \in Clusters |->
       IF work[n] = NoWork THEN <<>> ELSE <<TrackedKeys(work[n])>>]
  /\ observed' = [n \in Clusters |-> IF work[n] = NoWork THEN 0 ELSE 1]
  /\ table' = [n \in Clusters |-> NoWork]
  /\ queue' = {}
  /\ missed' = [n \in Clusters |-> {}]
  /\ triggered' = attached \cup {n \in Clusters : work[n] # NoWork}
  /\ render' = [n \in Clusters |-> Idle]
  /\ UNCHANGED <<hubVars, work, reporting>>

(* The watcher. *)

\* An event of an object; the three map functions of controller.go:163-229.
HandleConfigEvent(c) ==
  /\ configEvents[c] > 0
  /\ configEvents' = [configEvents EXCEPT ![c] = @ - 1]
  /\ queue' = queue \cup Requests(c)
  /\ missed' = [n \in Clusters |->
       IF n \in Unaware(c) THEN missed[n] \cup {c} ELSE missed[n]]
  /\ UNCHANGED <<hubVars, workEvents, observed, table, renderVars, events>>

\* The informer takes in the next event of a work, which lists then see.
Observe(n) ==
  /\ observed[n] < Len(workEvents[n])
  /\ observed' = [observed EXCEPT ![n] = @ + 1]
  /\ UNCHANGED <<hubVars, configEvents, workEvents, table, queue, missed, renderVars, events>>

\* Slip: an update of a known work does not reach the cache.
HandleWorkCreateOnly(n) ==
  /\ observed[n] > 0
  /\ observed' = [observed EXCEPT ![n] = @ - 1]
  /\ LET e == Head(workEvents[n]) IN
       table' = [table EXCEPT ![n] = IF e # NoWork /\ @ # NoWork THEN @ ELSE e]
  /\ workEvents' = [workEvents EXCEPT ![n] = Tail(@)]
  /\ UNCHANGED <<hubVars, configEvents, queue, missed, renderVars, events>>

\* A work is created, its generation changes, or it is deleted: Add or Remove
\* of the reference cache.
HandleWorkEvent(n) ==
  /\ observed[n] > 0
  /\ observed' = [observed EXCEPT ![n] = @ - 1]
  /\ table' = [table EXCEPT ![n] = Head(workEvents[n])]
  /\ workEvents' = [workEvents EXCEPT ![n] = Tail(@)]
  /\ UNCHANGED <<hubVars, configEvents, queue, missed, renderVars, events>>

\* Slip: a cluster that is being rendered is not triggered again.
ReconcileUnlessRendering(n) ==
  /\ n \in queue
  /\ queue' = queue \ {n}
  /\ triggered' = IF render[n] = Idle THEN triggered \cup {n} ELSE triggered
  /\ UNCHANGED <<hubVars, configEvents, workEvents, observed, table, missed, render,
                 work, reporting, events>>

\* WatcherReconciler.Reconcile hands the request to the addon manager.
Reconcile(n) ==
  /\ n \in queue
  /\ queue' = queue \ {n}
  /\ triggered' = triggered \cup {n}
  /\ UNCHANGED <<hubVars, configEvents, workEvents, observed, table, missed, render,
                 work, reporting, events>>

(* The addon manager. *)

\* A worker takes the cluster; no two workers have the same one.
StartRender(n) ==
  /\ n \in triggered
  /\ render[n] = Idle
  /\ n \in attached
  /\ triggered' = triggered \ {n}
  /\ render' = [render EXCEPT ![n] =
       [todo |-> Needs(n), read |-> [c \in Configs |-> Absent]]]
  /\ UNCHANGED <<hubVars, watcherVars, work, reporting, events>>

\* The addon is gone from the cluster: its work is deleted.
Undeploy(n) ==
  /\ n \in triggered
  /\ render[n] = Idle
  /\ n \notin attached
  /\ triggered' = triggered \ {n}
  /\ work' = [work EXCEPT ![n] = NoWork]
  /\ workEvents' = [workEvents EXCEPT ![n] =
       IF work[n] = NoWork THEN @ ELSE Append(@, NoWork)]
  /\ reporting' = reporting \ {n}
  /\ UNCHANGED <<hubVars, configEvents, observed, table, queue, missed, render, events>>

\* The values function reads the objects one after the other, uncached.
Read(n, c) ==
  /\ render[n] # Idle
  /\ c \in render[n].todo
  /\ Before(c) \cap render[n].todo = {}
  /\ source[c] # Absent \/ c \in Optional
  /\ render' = [render EXCEPT ![n] =
       [todo |-> @.todo \ {c}, read |-> [@.read EXCEPT ![c] = source[c]]]]
  /\ missed' = [missed EXCEPT ![n] = @ \ {c}]
  /\ UNCHANGED <<hubVars, configEvents, workEvents, observed, table, queue,
                 triggered, work, reporting, events>>

\* An object is missing: the rendering fails and is retried.
ReadMissing(n, c) ==
  /\ render[n] # Idle
  /\ c \in render[n].todo
  /\ Before(c) \cap render[n].todo = {}
  /\ source[c] = Absent
  /\ c \notin Optional
  /\ render' = [render EXCEPT ![n] = Idle]
  /\ triggered' = triggered \cup {n}
  /\ UNCHANGED <<hubVars, watcherVars, work, reporting, events>>

\* The work is written if it differs from the one on the hub.
Apply(n) ==
  /\ render[n] # Idle
  /\ render[n].todo = {}
  /\ render' = [render EXCEPT ![n] = Idle]
  /\ \/ /\ work[n] = render[n].read
        /\ UNCHANGED <<work, workEvents, reporting>>
     \/ /\ work[n] # render[n].read
        /\ work' = [work EXCEPT ![n] = render[n].read]
        /\ workEvents' = [workEvents EXCEPT ![n] =
             Append(@, TrackedKeys(render[n].read))]
        /\ reporting' = reporting \cup {n}
  /\ UNCHANGED <<hubVars, configEvents, observed, table, queue, missed, triggered, events>>

\* The work agent reports on the new generation; the addon framework renders
\* the cluster again (internal/metrics/README.md:115, "Status update trigger").
ReportStatus(n) ==
  /\ n \in reporting
  /\ reporting' = reporting \ {n}
  /\ triggered' = triggered \cup {n}
  /\ UNCHANGED <<hubVars, watcherVars, render, work, events>>

Outside ==
  \/ \E c \in Configs, v \in Content : ChangeConfig(c, v)
  \/ \E c \in Flags : DeleteFlag(c)
  \/ \E n \in Clusters, S \in SUBSET Tracked : Configure(n, S)
  \/ \E n \in Clusters : Detach(n)
  \/ Restart

WatcherStep ==
  \/ \E c \in Configs : HandleConfigEvent(c)
  \/ \E n \in Clusters : Observe(n) \/ HandleWorkEvent(n) \/ Reconcile(n)

ManagerStep(n) ==
  \/ StartRender(n) \/ Undeploy(n)
  \/ \E c \in Configs : Read(n, c) \/ ReadMissing(n, c)
  \/ Apply(n)

Next ==
  \/ Outside
  \/ WatcherStep
  \/ \E n \in Clusters : ManagerStep(n) \/ ReportStatus(n)

\* Informers deliver, queues are served and retried, agents report.
Fairness ==
  /\ \A c \in Configs : WF_vars(HandleConfigEvent(c))
  /\ \A n \in Clusters :
       /\ WF_vars(Observe(n))
       /\ WF_vars(HandleWorkEvent(n))
       /\ WF_vars(Reconcile(n))
       /\ WF_vars(ManagerStep(n))
       /\ WF_vars(ReportStatus(n))

Spec == Init /\ [][Next]_vars
FairSpec == Spec /\ Fairness
-----------------------------------------------------------------------------
(* Safety. *)

\* A rendering is to come; or one is under way and has still to read c, or has
\* read what the hub has now, or will change the work and so be followed by
\* another when the work agent reports.
Pending(n, c) ==
  \/ n \in triggered \cup queue \cup reporting
  \/ /\ render[n] # Idle
     /\ \/ c \in render[n].todo
        \/ render[n].read[c] = source[c]
        \/ \E d \in Configs \ render[n].todo : render[n].read[d] # work[n][d]

\* The cluster's work has not what the hub has now of an object it needs.
Outdated(n, c) ==
  /\ n \in attached
  /\ work[n] # NoWork
  /\ c \in Needs(n)
  /\ work[n][c] # source[c]

\* An outdated copy is never forgotten but for the changes the watcher could
\* not pass on: an event of the object is still to be handled, or a rendering
\* is pending that will read the new content (controller.go:121-161, 163-229).
\* Steps of the hub, two informers, two queues and a rendering interleave.
NothingForgotten ==
  \A n \in Clusters : \A c \in Tracked \cup Shared \cup LocalOnly :
    Outdated(n, c) => configEvents[c] > 0 \/ Pending(n, c) \/ c \in missed[n]

\* "WatcherReconciler triggers reconciliation in the AddonManager when
\* something changes in an upstream resource" (controller.go:39): no outdated
\* copy of a Secret or ConfigMap is forgotten at all.  The code breaks it: an
\* event of the object may be handled before that of the work with the copy.
NoCopyForgotten ==
  \A n \in Clusters : \A c \in Tracked :
    Outdated(n, c) => configEvents[c] > 0 \/ Pending(n, c)

(* Liveness. *)

\* Every cluster's work ends up with the current content of what it needs, but
\* for changes the watcher could not pass on, and the cache with what the works
\* carry, once changes stop.
InSync(n) ==
  IF n \in attached
  THEN (\A c \in Needs(n) \ Optional : source[c] # Absent) =>
         /\ work[n] # NoWork
         /\ \A c \in Needs(n) \ missed[n] : work[n][c] = source[c]
         /\ table[n] = TrackedKeys(work[n])
  ELSE work[n] = NoWork /\ table[n] = NoWork

\* Copies are eventually fresh on every cluster, across restarts, unless the
\* last change of an object was one the watcher could not pass on.
EventuallyInSync == \A n \in Clusters : <>[]InSync(n)
=============================================================================
