------------------------------ MODULE Rendering ------------------------------
(***************************************************************************)
(* From the AddOnDeploymentConfig to a verdict on the addon's health.      *)
(*                                                                         *)
(* The hub renders one ManifestWork per cluster out of the customized      *)
(* variables, the configuration objects the addon lists and, on the hub    *)
(* itself, what is installed there (internal/addon/options.go, internal/   *)
(* addon/helm/values.go and the handlers and manifests of logging, tracing *)
(* and COO).  It judges the addon by the feedback of the resources it      *)
(* probes, against the variables of the moment (internal/addon/addon.go).  *)
(*                                                                         *)
(* What metrics themselves need to be rendered is taken to be there: see   *)
(* COOTakeover.  The work agent, OLM, the operators on the cluster and the *)
(* queues of the addon framework are external.                             *)
(***************************************************************************)
EXTENDS Integers, Sequences

CONSTANTS
  Configs,    \* the AddOnDeploymentConfigs: functions from keys to values
  Forwarders, \* the ClusterLogForwarders on the hub
  Collectors, \* the OpenTelemetryCollectors on the hub
  Instrumentations, \* whether there is an Instrumentation, named like the collector
  Versions,   \* the versions a Prometheus operator writes on the scrapeconfigs CRD
  None,       \* no such object
  MaxEvents   \* bound: changes made from outside in a behaviour

ASSUME RenderingAssumption ==
  /\ Instrumentations \subseteq {"none", "sameName", "otherName"}
  /\ \A v \in Versions : v \in Seq(Nat) /\ v # <<>>
  /\ MaxEvents \in Nat

VARIABLES
  kind,       \* "hub", "openshift" (a spoke) or "other" (another vendor)
  adc,        \* customized variables
  forwarder,  \* the ClusterLogForwarder the addon lists
  collector,  \* the OpenTelemetryCollector it lists
  instrumentation, \* the Instrumentation it lists
  secret,     \* version of the exporters' Secret, per namespace it may be in
  rules,      \* the hub's ruler has the rules of the cardinality dashboards
  queued,     \* the addon manager has the cluster queued
  work,       \* the ManifestWork
  applied,    \* the ManifestWork the agent has applied
  subs,       \* the operators' Subscriptions on the cluster
  health,     \* what the operators say of the resources
  version,    \* of the Prometheus operator, <<>> before it wrote any
  fields,     \* the feedback the hub has
  events      \* changes made from outside so far

inputs == <<kind, adc, forwarder, collector, instrumentation, secret, rules>>
spoke == <<applied, subs, health, version>>
vars == <<inputs, queued, work, spoke, fields, events>>

Operators == {"clo", "coo"}
Reporting == {"platformAgent", "userAgent", "clf", "uiplugin"}
Probed == Reporting \cup {"scrapeCRD", "otel"}
DefaultChannel == "stable-6.3"
MinPrometheusOperator == <<0, 79, 0>>
NoCopy == <<"none", 0>>
NoWork == [manifests |-> {}, channel |-> DefaultChannel, copies |-> <<NoCopy, NoCopy>>]
-----------------------------------------------------------------------------
(* Options, from the customized variables. *)

Set(key) == key \in DOMAIN adc
Is(key, value) == Set(key) /\ adc[key] = value

PlatformMetrics == Is("platformMetricsCollection", "prometheusagents")
UserMetrics == Is("userWorkloadMetricsCollection", "prometheusagents")
Metrics == PlatformMetrics \/ UserMetrics
MetricsUI == Is("platformMetricsUI", "uiplugins") /\ PlatformMetrics
PlatformLogs == Is("platformLogsCollection", "clusterlogforwarders")
UserLogs == Is("userWorkloadLogsCollection", "clusterlogforwarders")
Logs == PlatformLogs \/ UserLogs
Traces == Is("userWorkloadTracesCollection", "opentelemetrycollectors")
Instrumented == Is("userWorkloadInstrumentation", "instrumentations")
IncidentDetection == Is("platformIncidentDetection", "uiplugins")
Delegated == Is("rightSizingDelegated", "true")
\* Right-sizing is on where MCO has not written its key yet.
RightSizing(key) == ~Set(key) \/ Is(key, "enabled")
Channel ==
  IF Set("openshiftLoggingChannel") /\ ~Is("openshiftLoggingChannel", "")
  THEN adc["openshiftLoggingChannel"] ELSE DefaultChannel

\* A value that cannot be read fails the rendering and the health check alike.
OptionsFail ==
  \/ Set("metricsHubHostname") /\ adc["metricsHubHostname"] \in {"", ":"}
  \/ \E port \in {"nodeExporterHostPort", "nodeExporterInternalPort"} :
       Set(port) /\ adc[port] \notin 1..65535
  \/ Metrics /\ ~Set("metricsHubHostname")
-----------------------------------------------------------------------------
(* Rendering, one section per signal: when it fails and what it renders. *)

IsHub == kind = "hub"
IsOpenShift == kind # "other"

\* A Secret of the cluster's namespace goes before that of the configuration's.
SecretFound == \E ns \in DOMAIN secret : secret[ns] # 0
SecretCopy ==
  LET ns == IF secret["cluster"] # 0 THEN "cluster" ELSE "config"
  IN  <<ns, secret[ns]>>

\* A subscription on the hub must be of the channel the addon is made for; one
\* of the addon's own is kept, another's is left alone.  Nothing is known of the
\* subscriptions of a spoke.
WrongChannel(op, channel) == IsHub /\ subs[op] # None /\ subs[op].channel # channel
Installs(op) == IsHub => subs[op] = None \/ subs[op].ours

RendersLogs == Logs /\ IsOpenShift
\* The inputs of the pipelines that have an output.
Detected == UNION {p.inputs : p \in {q \in forwarder.pipelines : q.outputs}}

LoggingFails ==
  \/ forwarder.listed # 1
  \/ ~forwarder.complete
  \/ forwarder.secret /\ ~SecretFound
  \/ WrongChannel("clo", Channel)
  \/ PlatformLogs /\ "platform" \notin Detected
  \/ UserLogs /\ "application" \notin Detected

LoggingManifests == {"clf"} \cup {op \in {"clo"} : Installs(op)}

RendersTraces == Traces /\ ~IsHub /\ IsOpenShift

\* A Secret is copied if it is mounted where an exporter looks for it; without
\* exporters, or without a mount for it, the error is dropped, and the Secret too.
ExporterSecret == collector.exporters /\ collector.mounted /\ collector.used
\* The Instrumentation is looked for under the name of the collector.
InstrumentationFound == instrumentation = "sameName"

TracingFails ==
  \/ collector.listed # 1
  \/ Instrumented /\ ~InstrumentationFound
  \/ ExporterSecret /\ ~SecretFound

TracingManifests == {"otel"} \cup {m \in {"instrumentation"} : Instrumented}

RendersUI == MetricsUI /\ IsHub
RightSizingUI ==
  /\ IsHub /\ Delegated
  /\ \/ RightSizing("platformNamespaceRightSizing")
     \/ RightSizing("platformVirtualizationRightSizing")

COOFails == WrongChannel("coo", "stable")

COOManifests ==
  LET ui == RendersUI \/ IncidentDetection \/ RightSizingUI
  IN  {m \in {"uiplugin"} : ui}
      \cup {op \in {"coo"} : ui /\ Installs(op)}
      \cup {m \in {"dashboards"} : RendersUI}
      \cup {m \in {"cardinalityDashboards"} : RendersUI /\ rules}
      \cup {m \in {"analyticsDashboards"} : IsHub /\ (IncidentDetection \/ RightSizingUI)}

MetricsManifests ==
  {m \in {"platformAgent"} : PlatformMetrics}
    \cup {m \in {"userAgent"} : UserMetrics /\ IsOpenShift}
    \cup {m \in {"scrapeCRD"} : PlatformMetrics \/ (UserMetrics /\ IsOpenShift)}

\* One section that fails fails the whole rendering: the work stays as it was.
RenderFails ==
  \/ OptionsFail
  \/ RendersLogs /\ LoggingFails
  \/ RendersTraces /\ TracingFails
  \/ IsOpenShift /\ COOFails

Rendered ==
  [manifests |-> MetricsManifests
                   \cup (IF RendersLogs THEN LoggingManifests ELSE {})
                   \cup (IF RendersTraces THEN TracingManifests ELSE {})
                   \cup (IF IsOpenShift THEN COOManifests ELSE {}),
   channel |-> Channel,
   copies |-> <<IF RendersLogs /\ forwarder.secret THEN SecretCopy ELSE NoCopy,
                IF RendersTraces /\ ExporterSecret THEN SecretCopy ELSE NoCopy>>]
-----------------------------------------------------------------------------
(* The health check: the feedback against the options. *)

\* Slip: a version without a component is older than one with it.
IsOlderIfShorter(v1, v2) ==
  LET Part(v, i) == IF i <= Len(v) THEN v[i] ELSE -1
  IN  \E i \in 1..Len(v2) :
        Part(v1, i) < Part(v2, i) /\ \A j \in 1..(i - 1) : Part(v1, j) = Part(v2, j)

\* Component by component; a missing one counts as 0.
IsOlder(v1, v2) ==
  LET Part(v, i) == IF i <= Len(v) THEN v[i] ELSE 0
      Longest == IF Len(v1) > Len(v2) THEN Len(v1) ELSE Len(v2)
  IN  \E i \in 1..Longest :
        /\ Part(v1, i) < Part(v2, i)
        /\ \A j \in 1..(i - 1) : Part(v1, j) = Part(v2, j)

Reports(r) == r \in DOMAIN fields.status
Available(r) == Reports(r) /\ fields.status[r] = "good"

CheckScrapeConfigCRD ==
  Reports("scrapeCRD") =>
    /\ fields.version # <<>>
    /\ ~IsOlder(fields.version, MinPrometheusOperator)

CheckMetrics ==
  Metrics =>
    /\ PlatformMetrics => Available("platformAgent")
    /\ UserMetrics /\ IsOpenShift => Available("userAgent")
    /\ CheckScrapeConfigCRD

CheckLogging == Logs => Available("clf")
CheckTracing == Traces => Available("otel")
CheckMetricsUIPlugin == MetricsUI => Available("uiplugin")

\* It runs whenever the work's status or the addon changes.
HealthChecker ==
  /\ DOMAIN fields.status # {}
  /\ ~OptionsFail
  /\ CheckMetrics
  /\ CheckLogging
  /\ CheckTracing
  /\ IsHub => CheckMetricsUIPlugin

\* Slip: the feedback of resources nobody probes is kept as well.
FeedbackOfAll ==
  [status |-> [r \in applied.manifests |-> IF r \in Reporting THEN health[r] ELSE "good"],
   version |-> version]

\* What the work agent reads on the cluster.  Of a collector it is the replicas
\* asked for, of the others a condition their operator sets.
Feedback ==
  [status |-> [r \in applied.manifests \cap Probed |->
                 IF r \in Reporting THEN health[r] ELSE "good"],
   version |-> version]
-----------------------------------------------------------------------------
Statuses == {"none", "unknown", "good", "bad"}
Manifests == Probed \cup Operators
               \cup {"instrumentation", "dashboards", "cardinalityDashboards", "analyticsDashboards"}
Copies == {"none", "cluster", "config"} \X (0..MaxEvents + 1)
IsWork(w) ==
  /\ w.manifests \subseteq Manifests
  /\ w.copies \in Copies \X Copies

TypeOK ==
  /\ kind \in {"hub", "openshift", "other"}
  /\ adc \in Configs /\ forwarder \in Forwarders /\ collector \in Collectors
  /\ instrumentation \in Instrumentations
  /\ secret \in [{"cluster", "config"} -> 0..MaxEvents + 1]
  /\ {rules, queued} \subseteq BOOLEAN
  /\ IsWork(work) /\ IsWork(applied)
  /\ \A op \in Operators : subs[op] = None \/ subs[op].ours \in BOOLEAN
  /\ health \in [Reporting -> Statuses]
  /\ version = <<>> \/ version \in Versions
  /\ DOMAIN fields.status \subseteq Probed
  /\ events \in 0..MaxEvents

Init ==
  /\ kind \in {"hub", "openshift", "other"}
  /\ adc \in Configs /\ forwarder \in Forwarders /\ collector \in Collectors
  /\ instrumentation \in Instrumentations
  /\ secret = [ns \in {"cluster", "config"} |-> IF ns = "config" THEN 1 ELSE 0]
  /\ rules = FALSE
  /\ queued = TRUE
  /\ work = NoWork /\ applied = NoWork
  /\ subs = [op \in Operators |-> None]
  /\ health = [r \in Reporting |-> "none"] /\ version = <<>>
  /\ fields = [status |-> <<>>, version |-> <<>>]
  /\ events = 0
-----------------------------------------------------------------------------
(* The hub. *)

\* Slip: the cluster is queued again after each rendering.
RenderAndRequeue ==
  /\ queued
  /\ ~RenderFails
  /\ work' = Rendered
  /\ UNCHANGED <<inputs, queued, spoke, fields, events>>

\* The addon manager renders the cluster.  A rendering that fails is tried again
\* and again: the cluster stays queued and the work as it is.
Render ==
  /\ queued
  /\ ~RenderFails
  /\ work' = Rendered
  /\ queued' = FALSE
  /\ UNCHANGED <<inputs, spoke, fields, events>>
-----------------------------------------------------------------------------
(* The cluster. *)

\* The work agent makes the cluster match the work: Subscriptions it no longer
\* lists are removed, those it lists are put back.  Its status wakes the hub.
NewSubs ==
  [op \in Operators |->
     CASE op \in work.manifests ->
            [channel |-> IF op = "clo" THEN work.channel ELSE "stable", ours |-> TRUE]
       [] op \in applied.manifests \ work.manifests -> None
       [] OTHER -> subs[op]]

Apply ==
  /\ work # applied \/ NewSubs # subs
  /\ applied' = work
  /\ subs' = NewSubs
  /\ health' = [r \in Reporting |->
                  CASE r \notin work.manifests -> "none"
                    [] r \in work.manifests \cap applied.manifests -> health[r]
                    [] OTHER -> "unknown"]
  /\ version' = IF "scrapeCRD" \in work.manifests THEN version ELSE <<>>
  /\ queued' = TRUE
  /\ UNCHANGED <<inputs, work, fields, events>>

\* The operator of a resource sees it and sets its condition.
Reconcile(r) ==
  /\ health[r] = "unknown"
  /\ health' = [health EXCEPT ![r] = "good"]
  /\ UNCHANGED <<inputs, queued, work, applied, subs, version, fields, events>>

\* The CRD of the scrape configs is established by some operator's version.
Establish ==
  /\ "scrapeCRD" \in applied.manifests
  /\ version = <<>>
  /\ version' \in Versions
  /\ UNCHANGED <<inputs, queued, work, applied, subs, health, fields, events>>

Report ==
  /\ fields # Feedback
  /\ fields' = Feedback
  /\ queued' = TRUE
  /\ UNCHANGED <<inputs, work, spoke, events>>
-----------------------------------------------------------------------------
(* Changes made from outside. *)

External == events < MaxEvents /\ events' = events + 1

\* The customized variables change: the addon's configuration hash does too.
EditConfig ==
  /\ External
  /\ adc' \in Configs \ {adc}
  /\ queued' = TRUE
  /\ UNCHANGED <<kind, forwarder, collector, instrumentation, secret, rules,
                 work, spoke, fields>>

\* So it does for the objects the addon lists.
EditReferences ==
  /\ External
  /\ forwarder' \in Forwarders /\ collector' \in Collectors
  /\ <<forwarder', collector'>> # <<forwarder, collector>>
  /\ queued' = TRUE
  /\ UNCHANGED <<kind, adc, instrumentation, secret, rules, work, spoke, fields>>

\* The Secrets of logging and tracing are copied without the annotation the
\* watcher looks for, so nothing is queued.
WriteSecret(ns) ==
  /\ External
  /\ secret' = [secret EXCEPT ![ns] = events + 2]
  /\ UNCHANGED <<kind, adc, forwarder, collector, instrumentation, rules,
                 queued, work, spoke, fields>>

\* Slip: nobody watches the ruler's ConfigMap.
EditRulesUnwatched ==
  /\ External
  /\ rules' = ~rules
  /\ UNCHANGED <<kind, adc, forwarder, collector, instrumentation, secret,
                 queued, work, spoke, fields>>

\* The watcher queues the local cluster when the ruler's ConfigMap changes.
EditRules ==
  /\ External
  /\ rules' = ~rules
  /\ queued' = (queued \/ IsHub)
  /\ UNCHANGED <<kind, adc, forwarder, collector, instrumentation, secret,
                 work, spoke, fields>>

\* Somebody subscribes to an operator, or drops a subscription, the addon's included.
Subscribe(op) ==
  /\ External
  /\ subs[op] = None
  /\ \E channel \in {"stable", DefaultChannel} :
       subs' = [subs EXCEPT ![op] = [channel |-> channel, ours |-> FALSE]]
  /\ UNCHANGED <<inputs, queued, work, applied, health, version, fields>>

Unsubscribe(op) ==
  /\ External
  /\ subs[op] # None
  /\ subs' = [subs EXCEPT ![op] = None]
  /\ UNCHANGED <<inputs, queued, work, applied, health, version, fields>>

\* A resource breaks, or is repaired.
Break(r) ==
  /\ External
  /\ health[r] \in {"good", "bad"}
  /\ health' = [health EXCEPT ![r] = IF health[r] = "good" THEN "bad" ELSE "good"]
  /\ UNCHANGED <<inputs, queued, work, applied, subs, version, fields>>

Next ==
  \/ Render \/ Apply \/ Establish \/ Report
  \/ \E r \in Reporting : Reconcile(r) \/ Break(r)
  \/ EditConfig \/ EditReferences \/ EditRules
  \/ \E ns \in {"cluster", "config"} : WriteSecret(ns)
  \/ \E op \in Operators : Subscribe(op) \/ Unsubscribe(op)

Spec == Init /\ [][Next]_vars

\* Controllers and operators go on working; what comes from outside need not come.
Fairness ==
  /\ WF_vars(Render) /\ WF_vars(Apply)
  /\ WF_vars(Establish) /\ WF_vars(Report)
  /\ \A r \in Reporting : WF_vars(Reconcile(r))

FairSpec == Spec /\ Fairness
-----------------------------------------------------------------------------
(* Properties. *)

\* Nothing is left to do but what comes from outside.
Quiet ==
  /\ queued => RenderFails
  /\ work = applied /\ NewSubs = subs
  /\ \A r \in Reporting : health[r] # "unknown"
  /\ "scrapeCRD" \in applied.manifests => version # <<>>
  /\ fields = Feedback

\* The signals that are switched on and that this cluster can be given, by the
\* resources that carry them.
Demanded ==
  {r \in Probed :
     \/ r = "platformAgent" /\ PlatformMetrics
     \/ r = "userAgent" /\ UserMetrics /\ IsOpenShift
     \/ r = "scrapeCRD" /\ (PlatformMetrics \/ (UserMetrics /\ IsOpenShift))
     \/ r = "clf" /\ Logs
     \/ r = "otel" /\ Traces
     \/ r = "uiplugin" /\ MetricsUI /\ IsHub}

\* Logs of another vendor and traces of the hub are asked of it by the health
\* check and never rendered.
Supported ==
  /\ Logs => IsOpenShift
  /\ Traces => kind = "openshift"

\* Scrape configs are known to operators from 0.79 on, however many parts the
\* version has.
KnowsScrapeConfigs(v) == v[1] > 0 \/ (Len(v) > 1 /\ v[2] >= 79)

Works(r) ==
  /\ r \in applied.manifests
  /\ r \in Reporting => health[r] = "good"
  /\ r = "scrapeCRD" => KnowsScrapeConfigs(version)

\* At rest the verdict is the truth: the addon is healthy if and only if every
\* resource that carries a signal asked for is there and works, whatever changed
\* between the rendering, its feedback and the check (addon.go healthChecker
\* against helm/values.go GetValuesFunc).  Not so for logs of another vendor and
\* traces of the hub, on which the two disagree (Supported).
VerdictWhenQuiet ==
  Quiet /\ ~OptionsFail /\ Supported /\ Demanded # {} =>
    (HealthChecker <=> \A r \in Demanded : Works(r))

\* At rest the cluster has what the current variables and objects call for, or
\* they cannot be rendered: no change that matters goes by unnoticed.
RenderedWhenQuiet ==
  Quiet => RenderFails \/ applied.manifests \ Operators = Rendered.manifests \ Operators

\* Renderings and reports do not wake each other for ever, nor does the hub
\* install and remove an operator in turn because of what it finds there (its own
\* subscription, coo.go:42): everything comes to rest once changes from outside
\* cease.
ComesToRest == <>[]Quiet

\* "WatcherReconciler triggers reconciliation in the AddonManager when something
\* changes in an upstream resource" (controllers/watcher/controller.go:39): at
\* rest the copies on the cluster are of the current Secret.
SecretFreshWhenQuiet ==
  Quiet /\ ~RenderFails => \A i \in 1..2 : applied.copies[i] \in {NoCopy, SecretCopy}

=============================================================================
