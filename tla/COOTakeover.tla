----------------------------- MODULE COOTakeover -----------------------------
(***************************************************************************)
(* Who runs the Prometheus operator of a managed cluster.                  *)
(*                                                                         *)
(* The addon deploys an operator of its own unless OLM has installed the   *)
(* cluster observability operator (COO).  The hub sees the cluster only    *)
(* through the feedback of an earlier ManifestWork: OLM's label on a       *)
(* placeholder CRD, the anchor (alertmanagers.monitoring.rhobs), and the   *)
(* time at which two further CRDs were established.  An operator discovers *)
(* CRDs when it starts, so these times go into an annotation of its pod    *)
(* template, to have it restarted (internal/metrics/handlers/handler.go,   *)
(* internal/metrics/manifests/values.go, internal/metrics/README.md).      *)
(*                                                                         *)
(* The work agent, OLM, the endpoint operator and the Deployment controller*)
(* are external, modelled from what the README and the manifests rely on.  *)
(***************************************************************************)
EXTENDS Naturals

CONSTANTS
  Crds,         \* prometheusagents and scrapeconfigs
  AgentCrd,     \* the first of them
  None,         \* no such object, no annotation, nobody
  Own,          \* the addon's operator, as the controller of an agent
  COO,          \* the cluster observability operator
  MaxEvents     \* bound: changes made from outside in a behaviour

ASSUME TakeoverAssumption ==
  /\ AgentCrd \in Crds
  /\ Own # COO /\ Own # None /\ COO # None
  /\ None \notin [Crds -> Nat]
  /\ None \notin [collect : BOOLEAN, vendor : BOOLEAN, subscribed : BOOLEAN]
  /\ MaxEvents \in Nat

VARIABLES
  attached,   \* the addon is installed on the cluster
  collecting, \* metrics are switched on and the hub has a Prometheus agent
  isOpenShiftVendor, \* the labels and claims of the cluster tell its vendor
  triggered,  \* the addon manager has the cluster queued
  build,      \* the rendering in progress
  work,       \* the ManifestWork
  feedback,   \* its status: what the work agent last reported
  anchor,     \* the alertmanagers CRD on the cluster
  crds,       \* when each of Crds was established, 0 if it is not there
  clock,      \* the last time at which a CRD was established
  endpoint,   \* the endpoint operator runs
  agent,      \* the controller-id of the Prometheus agent on the cluster
  deployment, \* the annotation in the operator's pod template
  pod,        \* the operator's pod: its template, the CRDs it discovered
  coo,        \* COO is installed
  events      \* changes made from outside so far

hubVars == <<attached, collecting, isOpenShiftVendor, triggered, build, work, feedback>>
spokeVars == <<anchor, crds, clock, endpoint, agent, deployment, pod>>
vars == <<hubVars, spokeVars, coo, events>>

NoTime == [c \in Crds |-> 0]
Unannotated == NoTime
Times == [Crds -> Nat]
Work == [collect : BOOLEAN, deployCOOResources : BOOLEAN, annotation : Times]
Feedback == [olm : BOOLEAN, times : Times]
NoFeedback == [olm |-> FALSE, times |-> NoTime]

TypeOK ==
  /\ attached \in BOOLEAN /\ collecting \in BOOLEAN /\ isOpenShiftVendor \in BOOLEAN
  /\ triggered \in BOOLEAN /\ endpoint \in BOOLEAN /\ coo \in BOOLEAN
  /\ build = None \/ build \in [collect : BOOLEAN, vendor : BOOLEAN, subscribed : BOOLEAN]
  /\ work = None \/ work \in Work
  /\ feedback \in Feedback
  /\ anchor = None \/ anchor \in [olm : BOOLEAN, owned : BOOLEAN]
  /\ crds \in Times /\ clock \in Nat
  /\ agent \in {None, Own, COO}
  /\ deployment = None \/ deployment \in Times
  /\ pod = None \/ pod \in [template : Times, knows : Times]
  /\ events \in 0..MaxEvents

Init ==
  /\ attached = FALSE /\ collecting \in BOOLEAN /\ isOpenShiftVendor \in BOOLEAN
  /\ triggered = FALSE
  /\ build = None /\ work = None /\ feedback = NoFeedback
  /\ \/ coo = FALSE /\ anchor = None /\ crds = NoTime
     \/ /\ coo = TRUE /\ anchor = [olm |-> TRUE, owned |-> FALSE]
        /\ crds = [c \in Crds |-> 1]
  /\ clock = 1
  /\ endpoint = FALSE /\ agent = None /\ deployment = None /\ pod = None
  /\ events = 0
-----------------------------------------------------------------------------
(* Changes made from outside. *)

External == events < MaxEvents /\ events' = events + 1

\* The addon is installed on the cluster, or removed from it.
SwitchAddon ==
  /\ External
  /\ attached' = ~attached
  /\ triggered' = TRUE
  /\ UNCHANGED <<collecting, isOpenShiftVendor, build, work, feedback, spokeVars, coo>>

\* Metrics are switched on or off, or their agent on the hub comes or goes.
SwitchCollection ==
  /\ External
  /\ collecting' = ~collecting
  /\ triggered' = TRUE
  /\ UNCHANGED <<attached, isOpenShiftVendor, build, work, feedback, spokeVars, coo>>

\* The labels that tell the vendor arrive after the import of the cluster.
LearnVendor ==
  /\ External
  /\ ~isOpenShiftVendor
  /\ isOpenShiftVendor' = TRUE
  /\ triggered' = TRUE
  /\ UNCHANGED <<attached, collecting, build, work, feedback, spokeVars, coo>>

\* OLM installs COO and labels its CRDs, those it finds there included.
InstallCOO ==
  /\ External
  /\ ~coo
  /\ coo' = TRUE
  /\ anchor' = [olm |-> TRUE, owned |-> anchor # None /\ anchor.owned]
  /\ clock' = clock + 1
  /\ crds' = [c \in Crds |-> IF crds[c] = 0 THEN clock + 1 ELSE crds[c]]
  /\ UNCHANGED <<hubVars, endpoint, agent, deployment, pod>>

\* COO goes.  The user may delete CRDs it leaves, the anchor among them.
UninstallCOO(S) ==
  /\ External
  /\ coo
  /\ coo' = FALSE
  /\ anchor' \in {anchor, None}
  /\ crds' = [c \in Crds |-> IF c \in S THEN 0 ELSE crds[c]]
  /\ agent' = IF AgentCrd \in S THEN None ELSE agent
  /\ UNCHANGED <<hubVars, clock, endpoint, deployment, pod>>

\* The pod of the operator is evicted.
Evict ==
  /\ External
  /\ pod # None
  /\ pod' = None
  /\ UNCHANGED <<hubVars, anchor, crds, clock, endpoint, agent, deployment, coo>>
-----------------------------------------------------------------------------
(* The hub: Build reads the feedback twice, the framework applies the work. *)

\* cooIsSubscribed: the label reported of the anchor; none is no.
IsSubscribed == feedback.olm

Begin ==
  /\ triggered /\ build = None /\ attached
  /\ triggered' = FALSE
  /\ build' = [collect |-> collecting, vendor |-> isOpenShiftVendor,
               subscribed |-> collecting /\ isOpenShiftVendor /\ IsSubscribed]
  /\ UNCHANGED <<attached, collecting, isOpenShiftVendor, work, feedback, spokeVars, coo, events>>

\* Slip: the annotation says that the CRDs are established, not when.
AnnotationWithoutTime(b) ==
  IF b.collect /\ b.vendor /\ ~b.subscribed /\ \A c \in Crds : feedback.times[c] # 0
  THEN [c \in Crds |-> 1] ELSE Unannotated

\* Slip: no annotation is nil instead of empty.
AnnotationOrNil(b) ==
  IF b.collect /\ b.vendor /\ ~b.subscribed /\ \A c \in Crds : feedback.times[c] # 0
  THEN feedback.times ELSE None

\* The annotation of the pod template: the times, when all are reported.
\* Only OpenShift clusters without COO are given one.
Annotation(b) ==
  IF b.collect /\ b.vendor /\ ~b.subscribed /\ \A c \in Crds : feedback.times[c] # 0
  THEN feedback.times ELSE Unannotated

\* BuildValues: whether the addon deploys its operator, and the annotation.
Rendering(b) ==
  [collect |-> b.collect,
   deployCOOResources |-> b.collect /\ ~b.subscribed,
   annotation |-> Annotation(b)]

Apply ==
  /\ build # None
  /\ build' = None
  /\ work' = IF attached THEN Rendering(build) ELSE work
  /\ UNCHANGED <<attached, collecting, isOpenShiftVendor, triggered, feedback, spokeVars, coo, events>>

\* The addon is gone: the framework deletes the ManifestWork.
DeleteWork ==
  /\ ~attached /\ build = None /\ (work # None \/ triggered)
  /\ triggered' = FALSE
  /\ work' = None
  /\ feedback' = NoFeedback
  /\ UNCHANGED <<attached, collecting, isOpenShiftVendor, build, spokeVars, coo, events>>
-----------------------------------------------------------------------------
(* The work agent applies each manifest in its own time. *)

Collects == work # None /\ work.collect
Deploys == Collects /\ work.deployCOOResources

\* Slip: the deletion-orphan annotation is set the wrong way round.
OwnedUnlessDeployed == ~work.deployCOOResources

\* Without the deletion-orphan annotation the work owns the anchor.
OwnsAnchor == work.deployCOOResources

\* Slip: the anchor is part of the addon's own operator.
AnchorOfOwnOperator == Deploys

\* The work has the anchor whoever runs the operator: "continuous feedback"
\* (internal/metrics/README.md:52), else there would be no label to report.
AnchorRendered == Collects

\* Create only: an anchor that is there keeps its content, but not its owner.
ApplyAnchor ==
  /\ AnchorRendered
  /\ anchor' = [olm |-> anchor # None /\ anchor.olm, owned |-> OwnsAnchor]
  /\ anchor' # anchor
  /\ UNCHANGED <<hubVars, crds, clock, endpoint, agent, deployment, pod, coo, events>>

\* A manifest that left the work is deleted if the work owns the object.
RemoveAnchor ==
  /\ ~AnchorRendered
  /\ anchor # None /\ anchor.owned
  /\ anchor' = None
  /\ UNCHANGED <<hubVars, crds, clock, endpoint, agent, deployment, pod, coo, events>>

ApplyEndpoint ==
  /\ endpoint # Collects
  /\ endpoint' = Collects
  /\ UNCHANGED <<hubVars, anchor, crds, clock, agent, deployment, pod, coo, events>>

ControllerId ==
  IF ~Collects THEN None ELSE IF Deploys THEN Own ELSE COO

\* The Prometheus agent, which needs its CRD.
ApplyAgent ==
  /\ agent # ControllerId
  /\ crds[AgentCrd] # 0
  /\ agent' = ControllerId
  /\ UNCHANGED <<hubVars, anchor, crds, clock, endpoint, deployment, pod, coo, events>>

Template == IF Deploys THEN work.annotation ELSE None

ApplyDeployment ==
  /\ deployment # Template
  /\ deployment' = Template
  /\ UNCHANGED <<hubVars, anchor, crds, clock, endpoint, agent, pod, coo, events>>

\* The status of what is in the work; a CRD in it is read only.
Status ==
  [olm |-> AnchorRendered /\ anchor # None /\ anchor.olm,
   times |-> IF Collects THEN crds ELSE NoTime]

\* A report has the addon framework queue the cluster.
Report ==
  /\ work # None /\ feedback # Status
  /\ feedback' = Status
  /\ triggered' = TRUE
  /\ UNCHANGED <<attached, collecting, isOpenShiftVendor, build, work, spokeVars, coo, events>>
-----------------------------------------------------------------------------
(* On the cluster. *)

\* The endpoint operator applies a CRD it does not find.
EstablishCrd(c) ==
  /\ endpoint /\ crds[c] = 0
  /\ clock' = clock + 1
  /\ crds' = [crds EXCEPT ![c] = clock + 1]
  /\ UNCHANGED <<hubVars, anchor, endpoint, agent, deployment, pod, coo, events>>

\* A pod of the current template: at its start it discovers the CRDs.
StartPod ==
  /\ deployment # None
  /\ ~(pod # None /\ pod.template = deployment)
  /\ pod' = [template |-> deployment, knows |-> crds]
  /\ UNCHANGED <<hubVars, anchor, crds, clock, endpoint, agent, deployment, coo, events>>

StopPod ==
  /\ deployment = None /\ pod # None
  /\ pod' = None
  /\ UNCHANGED <<hubVars, anchor, crds, clock, endpoint, agent, deployment, coo, events>>
-----------------------------------------------------------------------------
Outside ==
  \/ SwitchAddon \/ SwitchCollection \/ LearnVendor \/ InstallCOO \/ Evict
  \/ \E S \in SUBSET Crds : UninstallCOO(S)

Hub == Begin \/ Apply \/ DeleteWork

Spoke ==
  \/ ApplyAnchor \/ RemoveAnchor \/ ApplyEndpoint \/ ApplyAgent
  \/ ApplyDeployment \/ Report \/ StartPod \/ StopPod
  \/ \E c \in Crds : EstablishCrd(c)

Next == Outside \/ Hub \/ Spoke

Spec == Init /\ [][Next]_vars

\* Each party goes on doing what it has to do; what comes from outside may
\* not come.
FairSpec ==
  /\ Spec
  /\ WF_vars(Begin) /\ WF_vars(Apply) /\ WF_vars(DeleteWork)
  /\ WF_vars(ApplyAnchor) /\ WF_vars(RemoveAnchor) /\ WF_vars(ApplyEndpoint)
  /\ WF_vars(ApplyAgent) /\ WF_vars(ApplyDeployment) /\ WF_vars(Report)
  /\ WF_vars(StartPod) /\ WF_vars(StopPod)
  /\ \A c \in Crds : WF_vars(EstablishCrd(c))
-----------------------------------------------------------------------------
\* Nothing is under way on the hub, and the cluster is as its work says.
Quiet ==
  /\ ~triggered /\ build = None
  /\ attached <=> work # None
  /\ work # None => feedback = Status
  /\ AnchorRendered => anchor # None /\ anchor.owned = OwnsAnchor
  /\ ~AnchorRendered => anchor = None \/ ~anchor.owned
  /\ endpoint = Collects
  /\ endpoint => \A c \in Crds : crds[c] # 0
  /\ agent = ControllerId \/ crds[AgentCrd] = 0
  /\ deployment = Template
  /\ deployment = None <=> pod = None
  /\ pod # None => pod.template = deployment

ManagedByOLM == anchor # None /\ anchor.olm

\* COO is gone, but OLM's label on the anchor it left is still there.
LeftBehind == ~coo /\ ManagedByOLM

\* At rest the agent of a cluster that collects metrics has exactly one operator
\* that answers for it, and it runs: COO where it is installed and OLM manages
\* the CRDs, else the addon's, started when all CRDs were established.  However
\* COO, the addon and the metrics settings came and went before, with one
\* exception.  The code takes the label of the anchor for COO itself
\* (handler.go:535-565): when COO is uninstalled and its CRDs are left, the addon
\* does not come back and nobody runs the agent, until a user deletes the anchor
\* as well, as in the third diagram of internal/metrics/README.md; line 64 of it
\* has the addon detect the absence of COO without that.
OneOperatorWhenQuiet ==
  Quiet /\ attached /\ collecting /\ ~LeftBehind =>
    \/ /\ isOpenShiftVendor /\ coo
       /\ agent = COO /\ deployment = None /\ pod = None
    \/ /\ agent = Own /\ pod # None
       /\ isOpenShiftVendor => ~ManagedByOLM /\ pod.knows = crds

\* At rest nothing of the addon is left on a cluster that does not have it
\* or does not collect metrics, and OLM's CRD is nobody's to delete.
CleanWhenQuiet ==
  Quiet =>
    /\ ~(attached /\ collecting) => pod = None /\ agent = None /\ ~endpoint
    /\ ManagedByOLM /\ isOpenShiftVendor => ~anchor.owned

\* The rounds of rendering, applying and reporting come to an end.  What a
\* rendering decides changes what there is to report, and the report what the
\* next one decides: no decision may undo the ground it was taken on.
ComesToRest == <>[]Quiet

=============================================================================
