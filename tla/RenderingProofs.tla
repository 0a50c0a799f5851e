--------------------------- MODULE RenderingProofs ---------------------------
(***************************************************************************)
(* Proofs about the rendering of a cluster and the verdict on its health,  *)
(* for any configurations, objects, versions and changes from outside.     *)
(***************************************************************************)
EXTENDS Rendering, TLAPS

\* What the current variables and objects call for, operators aside: unlike the
\* whole of what is rendered, it does not depend on what is installed there.
Wanted ==
  MetricsManifests
    \cup (IF RendersLogs THEN {"clf"} ELSE {})
    \cup (IF RendersTraces THEN TracingManifests ELSE {})
    \cup (IF IsOpenShift THEN COOManifests \ Operators ELSE {})

\* A work that is not queued to be rendered is current: whatever changes what
\* is wanted queues the cluster.
CurrentInv == ~queued => work.manifests \ Operators = Wanted

\* An agent is never rendered without the CRD that is probed along with it.
WithCRD(w) == {"platformAgent", "userAgent"} \cap w.manifests # {} => "scrapeCRD" \in w.manifests
CRDInv == WithCRD(work) /\ WithCRD(applied)

SubsInv == subs = [op \in Operators |-> subs[op]]

IInv == TypeOK /\ SubsInv /\ CurrentInv /\ CRDInv
-----------------------------------------------------------------------------
USE RenderingAssumption

\* What is rendered.

LEMMA RenderedManifests == Rendered.manifests \ Operators = Wanted
<1>1. Rendered.manifests = MetricsManifests
                   \cup (IF RendersLogs THEN LoggingManifests ELSE {})
                   \cup (IF RendersTraces THEN TracingManifests ELSE {})
                   \cup (IF IsOpenShift THEN COOManifests ELSE {})
  BY DEF Rendered
<1>2. MetricsManifests \cap Operators = {} /\ TracingManifests \cap Operators = {}
  BY DEF MetricsManifests, TracingManifests, Operators
<1>3. LoggingManifests \ Operators = {"clf"}
  BY DEF LoggingManifests, Operators
<1> QED BY <1>1, <1>2, <1>3 DEF Wanted

\* Nothing else enters into it than the kind of cluster, the variables and, on
\* the hub, the ruler's rules.
LEMMA WantedSame ==
  ASSUME kind' = kind, adc' = adc, rules' = rules \/ kind # "hub"
  PROVE  Wanted' = Wanted
<1>1. \A key, v : Is(key, v)' = Is(key, v) /\ Set(key)' = Set(key)
  BY DEF Is, Set
<1>2. MetricsManifests' = MetricsManifests
  BY <1>1 DEF MetricsManifests, PlatformMetrics, UserMetrics, IsOpenShift
<1>3. RendersLogs' = RendersLogs
  BY <1>1 DEF RendersLogs, Logs, PlatformLogs, UserLogs, IsOpenShift
<1>4. RendersTraces' = RendersTraces /\ TracingManifests' = TracingManifests
  BY <1>1 DEF RendersTraces, Traces, IsHub, IsOpenShift, TracingManifests, Instrumented
<1>5. (COOManifests \ Operators)' = COOManifests \ Operators
  <2>1. RendersUI' = RendersUI /\ (RendersUI => kind = "hub")
    BY <1>1 DEF RendersUI, MetricsUI, PlatformMetrics, IsHub
  <2>2. IncidentDetection' = IncidentDetection
    BY <1>1 DEF IncidentDetection
  <2>3. RightSizingUI' = RightSizingUI
    BY <1>1 DEF RightSizingUI, RightSizing, Delegated, IsHub
  <2>4. COOManifests \ Operators =
          {m \in {"uiplugin"} : RendersUI \/ IncidentDetection \/ RightSizingUI}
            \cup {m \in {"dashboards"} : RendersUI}
            \cup {m \in {"cardinalityDashboards"} : RendersUI /\ rules}
            \cup {m \in {"analyticsDashboards"} : IsHub /\ (IncidentDetection \/ RightSizingUI)}
    BY DEF COOManifests, Operators
  <2>5. (COOManifests \ Operators)' =
          {m \in {"uiplugin"} : RendersUI' \/ IncidentDetection' \/ RightSizingUI'}
            \cup {m \in {"dashboards"} : RendersUI'}
            \cup {m \in {"cardinalityDashboards"} : RendersUI' /\ rules'}
            \cup {m \in {"analyticsDashboards"} : IsHub' /\ (IncidentDetection' \/ RightSizingUI')}
    BY DEF COOManifests, Operators
  <2>6. IsHub' = IsHub
    BY DEF IsHub
  <2>7. RendersUI /\ rules <=> RendersUI' /\ rules'
    BY <2>1
  <2> QED BY <2>1, <2>2, <2>3, <2>4, <2>5, <2>6, <2>7
<1>6. IsOpenShift' = IsOpenShift
  BY DEF IsOpenShift
<1> QED BY <1>2, <1>3, <1>4, <1>5, <1>6 DEF Wanted

LEMMA RenderedWithCRD == WithCRD(Rendered)
<1>1. {"platformAgent", "userAgent"} \cap Rendered.manifests \subseteq MetricsManifests
  BY RenderedManifests DEF Wanted, Operators, TracingManifests, COOManifests
<1>2. {"platformAgent", "userAgent"} \cap MetricsManifests # {} => "scrapeCRD" \in MetricsManifests
  BY DEF MetricsManifests
<1>3. MetricsManifests \subseteq Rendered.manifests
  BY DEF Rendered
<1> QED BY <1>1, <1>2, <1>3 DEF WithCRD

LEMMA RenderedType == TypeOK => IsWork(Rendered)
<1> SUFFICES ASSUME TypeOK PROVE IsWork(Rendered)
  OBVIOUS
<1>1. Wanted \subseteq Manifests
  BY DEF Wanted, MetricsManifests, TracingManifests, COOManifests, Operators, Manifests, Probed,
     Reporting
<1>2. Rendered.manifests \subseteq Manifests
  BY <1>1, RenderedManifests DEF Manifests
<1>3. SecretCopy \in Copies /\ NoCopy \in Copies
  BY DEF TypeOK, SecretCopy, NoCopy, Copies
<1>4. Rendered.copies \in Copies \X Copies
  BY <1>3 DEF Rendered
<1> QED BY <1>2, <1>4 DEF IsWork
-----------------------------------------------------------------------------
\* The version check: component by component, a version is older than 0.79.0 if
\* and only if the operator does not know scrape configs.
LEMMA OlderThanMinimum ==
  ASSUME NEW v \in Seq(Nat), v # <<>>
  PROVE  IsOlder(v, MinPrometheusOperator) <=> ~KnowsScrapeConfigs(v)
<1> DEFINE Part(w, i) == IF i <= Len(w) THEN w[i] ELSE 0
           longest == IF Len(v) > 3 THEN Len(v) ELSE 3
<1>1. /\ Len(MinPrometheusOperator) = 3
      /\ Part(MinPrometheusOperator, 1) = 0
      /\ Part(MinPrometheusOperator, 2) = 79
      /\ \A i \in 3..longest : Part(MinPrometheusOperator, i) = 0
  BY DEF MinPrometheusOperator
<1>2. Len(v) \in Nat /\ Len(v) >= 1 /\ longest \in Nat /\ longest >= 3
  OBVIOUS
<1>3. \A i \in 1..longest : Part(v, i) \in Nat
  BY <1>2
<1>4. Part(v, 1) = v[1] /\ (Part(v, 2) >= 79 <=> Len(v) > 1 /\ v[2] >= 79)
  BY <1>2
<1>5. IsOlder(v, MinPrometheusOperator) <=>
        \E i \in 1..longest :
          /\ Part(v, i) < Part(MinPrometheusOperator, i)
          /\ \A j \in 1..(i - 1) : Part(v, j) = Part(MinPrometheusOperator, j)
  BY <1>1 DEF IsOlder
<1> HIDE DEF Part, longest
<1>6. ASSUME NEW i \in 1..longest, Part(v, i) < Part(MinPrometheusOperator, i)
      PROVE  i = 2
  BY <1>1, <1>2, <1>3, <1>6
<1>7. IsOlder(v, MinPrometheusOperator) <=> Part(v, 2) < 79 /\ Part(v, 1) = 0
  BY <1>1, <1>2, <1>3, <1>5, <1>6
<1> QED BY <1>2, <1>3, <1>4, <1>7 DEF KnowsScrapeConfigs
-----------------------------------------------------------------------------
(* Type correctness. *)

NsType == secret \in [{"cluster", "config"} -> 0..MaxEvents + 1]

LEMMA InitTyped == Init => TypeOK /\ SubsInv
<1> SUFFICES ASSUME Init PROVE TypeOK /\ SubsInv
  OBVIOUS
<1>1. IsWork(work) /\ IsWork(applied)
  <2>1. NoCopy \in Copies
    BY DEF NoCopy, Copies
  <2>2. IsWork(NoWork)
    BY <2>1 DEF NoWork, IsWork
  <2> QED BY <2>2 DEF Init
<1>2. secret \in [{"cluster", "config"} -> 0..MaxEvents + 1]
  BY DEF Init
<1>3. health \in [Reporting -> Statuses]
  BY DEF Init, Statuses
<1>4. DOMAIN fields.status \subseteq Probed
  <2>1. fields.status = <<>>
    BY DEF Init
  <2>2. DOMAIN <<>> = {}
    OBVIOUS
  <2>3. DOMAIN fields.status = {}
    BY <2>1, <2>2, Zenon
  <2> QED BY <2>3
<1>5. SubsInv /\ \A op \in Operators : subs[op] = None
  BY DEF Init, SubsInv
<1>6. {rules, queued} \subseteq BOOLEAN /\ events \in 0..MaxEvents
  <2>1. rules = FALSE /\ queued = TRUE /\ events = 0
    BY DEF Init
  <2>2. rules \in BOOLEAN /\ queued \in BOOLEAN
    BY <2>1, Zenon
  <2>3. events \in 0..MaxEvents
    BY <2>1
  <2> QED BY <2>2, <2>3
<1>7. /\ kind \in {"hub", "openshift", "other"}
      /\ adc \in Configs /\ forwarder \in Forwarders /\ collector \in Collectors
      /\ instrumentation \in Instrumentations
      /\ version = <<>>
  BY DEF Init
<1> QED BY <1>1, <1>2, <1>3, <1>4, <1>5, <1>6, <1>7 DEF TypeOK

\* The steps of the hub and the cluster, and the others, one by one.
LEMMA NextCases ==
  ASSUME NEW ACTION P,
    Render => P, Apply => P, Establish => P, Report => P,
    \A r \in Reporting : Reconcile(r) => P,
    \A r \in Reporting : Break(r) => P,
    EditConfig => P, EditReferences => P, EditRules => P,
    \A ns \in {"cluster", "config"} : WriteSecret(ns) => P,
    \A op \in Operators : Subscribe(op) => P,
    \A op \in Operators : Unsubscribe(op) => P,
    UNCHANGED vars => P
  PROVE  [Next]_vars => P
BY Zenon DEF Next

TypeStep == TypeOK' /\ SubsInv'

LEMMA StepTyped == TypeOK /\ SubsInv /\ [Next]_vars => TypeOK' /\ SubsInv'
<1> SUFFICES ASSUME TypeOK, SubsInv PROVE [Next]_vars => TypeStep
  BY DEF TypeStep
<1> USE DEF TypeStep
<1>1. Render => TypeStep
  BY RenderedType DEF Render, TypeOK, SubsInv, inputs, spoke
<1>2. Apply => TypeStep
  <2> SUFFICES ASSUME Apply PROVE TypeStep
    OBVIOUS
  <2>1. SubsInv' /\ \A op \in Operators : subs'[op] = None \/ subs'[op].ours \in BOOLEAN
    BY DEF Apply, NewSubs, TypeOK, SubsInv
  <2>2. health' \in [Reporting -> Statuses]
    BY DEF Apply, TypeOK, Statuses
  <2>3. version' = <<>> \/ version' \in Versions
    BY DEF Apply, TypeOK
  <2> QED BY <2>1, <2>2, <2>3 DEF Apply, TypeOK, inputs
<1>3. Establish => TypeStep
  BY DEF Establish, TypeOK, SubsInv, inputs
<1>4. Report => TypeStep
  <2> SUFFICES ASSUME Report PROVE TypeStep
    OBVIOUS
  <2>1. DOMAIN fields'.status \subseteq Probed
    BY DEF Report, Feedback
  <2> QED BY <2>1 DEF Report, TypeOK, SubsInv, inputs, spoke
<1>5. ASSUME NEW r \in Reporting PROVE Reconcile(r) => TypeStep
  BY DEF Reconcile, TypeOK, SubsInv, inputs, Statuses
<1>6. ASSUME NEW r \in Reporting PROVE Break(r) => TypeStep
  BY DEF Break, External, TypeOK, SubsInv, inputs, Statuses
<1>7. EditConfig => TypeStep
  BY DEF EditConfig, External, TypeOK, SubsInv, spoke
<1>8. EditReferences => TypeStep
  BY DEF EditReferences, External, TypeOK, SubsInv, spoke
<1>9. EditRules => TypeStep
  BY DEF EditRules, External, TypeOK, SubsInv, spoke, IsHub
<1>10. ASSUME NEW ns \in {"cluster", "config"} PROVE WriteSecret(ns) => TypeStep
  <2> SUFFICES ASSUME WriteSecret(ns) PROVE TypeStep
    OBVIOUS
  <2>1. secret' \in [{"cluster", "config"} -> 0..MaxEvents + 1]
    BY DEF WriteSecret, External, TypeOK
  <2> QED BY <2>1 DEF WriteSecret, External, TypeOK, SubsInv, spoke
<1>11. ASSUME NEW op \in Operators PROVE Subscribe(op) => TypeStep
  <2> SUFFICES ASSUME Subscribe(op) PROVE TypeStep
    OBVIOUS
  <2>1. PICK channel : subs' = [subs EXCEPT ![op] = [channel |-> channel, ours |-> FALSE]]
    BY DEF Subscribe
  <2>2. SubsInv' /\ \A o \in Operators : subs'[o] = None \/ subs'[o].ours \in BOOLEAN
    BY <2>1 DEF SubsInv, TypeOK
  <2>3. /\ UNCHANGED <<inputs, queued, work, applied, health, version, fields>>
        /\ events < MaxEvents /\ events' = events + 1
    BY DEF Subscribe, External
  <2> QED BY <2>2, <2>3 DEF TypeOK, inputs
<1>12. ASSUME NEW op \in Operators PROVE Unsubscribe(op) => TypeStep
  <2> SUFFICES ASSUME Unsubscribe(op) PROVE TypeStep
    OBVIOUS
  <2>1. SubsInv' /\ \A o \in Operators : subs'[o] = None \/ subs'[o].ours \in BOOLEAN
    BY DEF Unsubscribe, SubsInv, TypeOK
  <2> QED BY <2>1 DEF Unsubscribe, External, TypeOK, inputs
<1>13. UNCHANGED vars => TypeStep
  BY DEF vars, inputs, spoke, TypeOK, SubsInv
<1> HIDE DEF TypeStep
<1> QED BY <1>1, <1>2, <1>3, <1>4, <1>5, <1>6, <1>7, <1>8, <1>9, <1>10, <1>11, <1>12, <1>13, NextCases

\* The state of the hub, the cluster and their queues is well typed, whatever
\* configurations and objects there are (Rendering, TypeOK).
THEOREM TypeCorrect == Spec => []TypeOK
<1>1. Init => TypeOK /\ SubsInv
  BY InitTyped
<1>2. TypeOK /\ SubsInv /\ [Next]_vars => (TypeOK /\ SubsInv)'
  BY StepTyped
<1> QED BY <1>1, <1>2, PTL DEF Spec
-----------------------------------------------------------------------------
(* A work that is at rest is current. *)

LEMMA StepCurrent == TypeOK /\ CurrentInv /\ [Next]_vars => CurrentInv'
<1> SUFFICES ASSUME TypeOK, CurrentInv, [Next]_vars, ~queued'
             PROVE  work'.manifests \ Operators = Wanted'
  BY DEF CurrentInv
<1>1. CASE Render
  <2>1. Wanted' = Wanted
    BY <1>1, WantedSame DEF Render, inputs
  <2> QED BY <1>1, <2>1, RenderedManifests DEF Render
<1>2. CASE ~Render
  <2>1. work' = work /\ kind' = kind
    BY <1>2 DEF Next, vars, inputs, spoke, Apply, Establish, Report, Reconcile, Break, EditConfig,
       EditReferences, EditRules, WriteSecret, Subscribe, Unsubscribe
  <2>2. ~queued
    BY <1>2 DEF Next, vars, inputs, spoke, Apply, Establish, Report, Reconcile, Break, EditConfig,
       EditReferences, EditRules, WriteSecret, Subscribe, Unsubscribe, TypeOK
  <2>3. adc' = adc /\ (rules' = rules \/ kind # "hub")
    BY <1>2 DEF Next, vars, inputs, spoke, Apply, Establish, Report, Reconcile, Break, EditConfig,
       EditReferences, EditRules, WriteSecret, Subscribe, Unsubscribe, IsHub, TypeOK
  <2> QED BY <2>1, <2>2, <2>3, WantedSame DEF CurrentInv
<1> QED BY <1>1, <1>2

LEMMA StepCRD == CRDInv /\ [Next]_vars => CRDInv'
<1> SUFFICES ASSUME CRDInv, [Next]_vars PROVE CRDInv'
  OBVIOUS
<1>1. work' = work \/ (work' = Rendered /\ applied' = applied)
  BY DEF Next, vars, inputs, spoke, Render, Apply, Establish, Report, Reconcile, Break, EditConfig,
     EditReferences, EditRules, WriteSecret, Subscribe, Unsubscribe
<1>2. applied' = applied \/ applied' = work
  BY DEF Next, vars, inputs, spoke, Render, Apply, Establish, Report, Reconcile, Break, EditConfig,
     EditReferences, EditRules, WriteSecret, Subscribe, Unsubscribe
<1>3. WithCRD(work')
  BY <1>1, RenderedWithCRD DEF CRDInv, WithCRD
<1>4. WithCRD(applied')
  BY <1>2 DEF CRDInv, WithCRD
<1> QED BY <1>3, <1>4 DEF CRDInv, WithCRD

LEMMA Invariance == Spec => []IInv
<1>1. Init => IInv
  BY InitTyped DEF Init, IInv, CurrentInv, CRDInv, WithCRD, NoWork
<1>2. IInv /\ [Next]_vars => IInv'
  BY StepTyped, StepCurrent, StepCRD DEF IInv
<1> QED BY <1>1, <1>2, PTL DEF Spec

\* Every change that matters is noticed: at rest a cluster has what the current
\* variables, objects and rules call for, or they cannot be rendered (values.go
\* GetValuesFunc against the watches of controllers/addon and watcher).
THEOREM RenderedAtRest == Spec => []RenderedWhenQuiet
<1>1. IInv => RenderedWhenQuiet
  BY RenderedManifests DEF IInv, CurrentInv, RenderedWhenQuiet, Quiet
<1> QED BY <1>1, Invariance, PTL
-----------------------------------------------------------------------------
(* The verdict. *)

\* At rest the feedback is of what the cluster has.
LEMMA FeedbackAtRest ==
  ASSUME Quiet, NEW r \in Probed
  PROVE  /\ Reports(r) <=> r \in applied.manifests
         /\ r \in Reporting => (Available(r) <=> r \in applied.manifests /\ health[r] = "good")
         /\ r \notin Reporting => (Available(r) <=> r \in applied.manifests)
         /\ fields.version = version
<1>1. /\ fields.version = version
      /\ fields.status = [x \in applied.manifests \cap Probed |->
                            IF x \in Reporting THEN health[x] ELSE "good"]
  BY DEF Quiet, Feedback
<1> QED BY <1>1 DEF Reports, Available

\* A check of what works at rest is the truth about it.
LEMMA WorksAtRest ==
  ASSUME Quiet, NEW r \in Probed \ {"scrapeCRD"}
  PROVE  Available(r) <=> Works(r)
BY FeedbackAtRest DEF Works

LEMMA CRDAtRest ==
  ASSUME TypeOK, Quiet, "scrapeCRD" \in applied.manifests
  PROVE  CheckScrapeConfigCRD <=> Works("scrapeCRD")
<1>1. fields.version = version /\ Reports("scrapeCRD")
  BY FeedbackAtRest DEF Probed
<1>2. version # <<>> /\ version \in Versions
  BY DEF Quiet, TypeOK
<1>3. IsOlder(version, MinPrometheusOperator) <=> ~KnowsScrapeConfigs(version)
  BY <1>2, OlderThanMinimum
<1>4. "scrapeCRD" \notin Reporting
  BY DEF Reporting
<1> QED BY <1>1, <1>2, <1>3, <1>4 DEF CheckScrapeConfigCRD, Works

\* What is demanded, read off the checks.
LEMMA WhatIsDemanded ==
  /\ "platformAgent" \in Demanded <=> PlatformMetrics
  /\ "userAgent" \in Demanded <=> UserMetrics /\ IsOpenShift
  /\ "scrapeCRD" \in Demanded <=> PlatformMetrics \/ (UserMetrics /\ IsOpenShift)
  /\ "clf" \in Demanded <=> Logs
  /\ "otel" \in Demanded <=> Traces
  /\ "uiplugin" \in Demanded <=> MetricsUI /\ IsHub
  /\ Demanded \subseteq {"platformAgent", "userAgent", "scrapeCRD", "clf", "otel", "uiplugin"}
BY DEF Demanded, Probed, Reporting

\* The verdict of the health check is the truth: at rest, but for logs of another
\* vendor and traces of the hub, the addon is healthy if and only if every
\* resource that carries a signal asked for is there and works (addon.go
\* healthChecker against values.go GetValuesFunc).
THEOREM TrueVerdict == Spec => []VerdictWhenQuiet
<1>1. ASSUME IInv, Quiet, ~OptionsFail, Supported, Demanded # {}
      PROVE  HealthChecker <=> \A r \in Demanded : Works(r)
  <2>t. TypeOK /\ CRDInv
    BY <1>1 DEF IInv
  <2>1. /\ Available("platformAgent") <=> Works("platformAgent")
        /\ Available("userAgent") <=> Works("userAgent")
        /\ Available("clf") <=> Works("clf")
        /\ Available("otel") <=> Works("otel")
        /\ Available("uiplugin") <=> Works("uiplugin")
    BY <1>1, WorksAtRest DEF Probed, Reporting
  <2>2. ASSUME Works("platformAgent") \/ Works("userAgent")
        PROVE  "scrapeCRD" \in applied.manifests
    BY <2>2, <2>t DEF Works, CRDInv, WithCRD
  <2>3. CheckMetrics <=>
          \A r \in Demanded \cap {"platformAgent", "userAgent", "scrapeCRD"} : Works(r)
    <3>1. CASE PlatformMetrics \/ (UserMetrics /\ IsOpenShift)
      <4>1. Works("scrapeCRD") => "scrapeCRD" \in applied.manifests
        BY DEF Works
      <4>2. CASE "scrapeCRD" \in applied.manifests
        <5>1. CheckScrapeConfigCRD <=> Works("scrapeCRD")
          BY <1>1, <2>t, <4>2, CRDAtRest
        <5> QED BY <5>1, <2>1, <3>1, WhatIsDemanded DEF CheckMetrics, Metrics
      <4>3. CASE "scrapeCRD" \notin applied.manifests
        <5>1. ~CheckMetrics
          BY <4>3, <2>1, <2>2, <3>1 DEF CheckMetrics, Metrics
        <5>2. ~Works("scrapeCRD") /\ "scrapeCRD" \in Demanded
          BY <4>1, <4>3, <3>1, WhatIsDemanded
        <5> QED BY <5>1, <5>2
      <4> QED BY <4>2, <4>3
    <3>2. CASE ~Metrics
      BY <3>2, WhatIsDemanded DEF CheckMetrics, Metrics
    <3>3. CASE ~PlatformMetrics /\ UserMetrics /\ ~IsOpenShift
      <4>1. Demanded = {}
        BY <1>1, <3>3, WhatIsDemanded DEF Supported, MetricsUI, IsOpenShift
      <4> QED BY <1>1, <4>1
    <3> QED BY <3>1, <3>2, <3>3 DEF Metrics
  <2>4. CheckLogging <=> \A r \in Demanded \cap {"clf"} : Works(r)
    BY <2>1, WhatIsDemanded DEF CheckLogging
  <2>5. CheckTracing <=> \A r \in Demanded \cap {"otel"} : Works(r)
    BY <2>1, WhatIsDemanded DEF CheckTracing
  <2>6. (IsHub => CheckMetricsUIPlugin) <=> \A r \in Demanded \cap {"uiplugin"} : Works(r)
    BY <2>1, WhatIsDemanded DEF CheckMetricsUIPlugin
  <2>7. (\A r \in Demanded : Works(r)) => DOMAIN fields.status # {}
    <3> SUFFICES ASSUME \A r \in Demanded : Works(r) PROVE DOMAIN fields.status # {}
      OBVIOUS
    <3>1. PICK r \in Demanded : Works(r)
      BY <1>1
    <3>2. r \in Probed /\ r \in applied.manifests
      BY <3>1 DEF Demanded, Works
    <3> QED BY <1>1, <3>2, FeedbackAtRest DEF Reports
  <2>8. HealthChecker <=>
          /\ DOMAIN fields.status # {}
          /\ CheckMetrics /\ CheckLogging /\ CheckTracing /\ (IsHub => CheckMetricsUIPlugin)
    BY <1>1 DEF HealthChecker
  <2> QED BY <2>3, <2>4, <2>5, <2>6, <2>7, <2>8, WhatIsDemanded
<1>2. IInv => VerdictWhenQuiet
  BY <1>1 DEF VerdictWhenQuiet
<1> QED BY <1>2, Invariance, PTL
=============================================================================
