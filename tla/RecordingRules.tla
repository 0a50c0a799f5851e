--------------------------- MODULE RecordingRules ---------------------------
\* The series of right-sizing: the recording rules a cluster evaluates, and those of their
\* series that the collector federates to the hub (internal/analytics/rightsizing). A series
\* is <<kind, level, name>>. A rule reads raw metrics, which the platform has, or the series
\* of other rules; of its expression only the series it reads are kept.
EXTENDS DashboardKit

Raw == {<<"kube_resourcequota">>, <<"kube_pod_container_resource_requests">>,
        <<"node_namespace_pod_container:container_cpu_usage_seconds_total:sum_irate">>,
        <<"container_memory_working_set_bytes">>, <<"kubevirt_vmi_vcpu_seconds_total">>,
        <<"kubevirt_vm_resource_requests">>, <<"kubevirt_vmi_cpu_usage_seconds_total">>,
        <<"kubevirt_vmi_memory_available_bytes">>, <<"kubevirt_vmi_memory_usable_bytes">>,
        <<"kubevirt_vm_running_status_last_transition_timestamp_seconds">>}

Rule(kind, level, name, reads) == [record |-> <<kind, level, name>>, reads |-> reads]

Build1dAggregationExpr(kind, level, name) == {<<kind, level, name, "5m">>}
BuildRecommendationExpr(kind, level, usage) == {<<kind, level, usage, "5m">>}

\* With labels: the profile and the aggregation, by which the dashboards select.
RuleWithLabels(kind, level, name, reads) == Rule(kind, level, name, reads)

\* Joined with the labels of the namespaces or not, a rule records the same series.
Rules5m(kind, level, sources) ==
  {[record |-> <<kind, level, name, "5m">>, reads |-> sources[name]] : name \in DOMAIN sources}

Rules1d(kind, level, names) ==
  {RuleWithLabels(kind, level, name, Build1dAggregationExpr(kind, level, name)) : name \in names}
  \cup {RuleWithLabels(kind, level, "cpu_recommendation",
                       BuildRecommendationExpr(kind, level, "cpu_usage")),
        RuleWithLabels(kind, level, "memory_recommendation",
                       BuildRecommendationExpr(kind, level, "memory_usage"))}

-----------------------------------------------------------------------------
(* Namespaces (namespace/prometheusrule.go).                               *)

ContainerSources ==
  [ cpu_request_hard |-> {<<"kube_resourcequota">>},
    cpu_request |-> {<<"kube_pod_container_resource_requests">>},
    cpu_usage |-> {<<"node_namespace_pod_container:container_cpu_usage_seconds_total:sum_irate">>},
    memory_request_hard |-> {<<"kube_resourcequota">>},
    memory_request |-> {<<"kube_pod_container_resource_requests">>},
    memory_usage |-> {<<"container_memory_working_set_bytes">>} ]

buildNamespaceRules5m == Rules5m("acm_rs", "namespace", ContainerSources)
buildNamespaceRules1d == Rules1d("acm_rs", "namespace", DOMAIN ContainerSources)
buildClusterRules5m == Rules5m("acm_rs", "cluster", ContainerSources)
buildClusterRules1d == Rules1d("acm_rs", "cluster", DOMAIN ContainerSources)

NamespaceRule ==
  buildNamespaceRules5m \cup buildNamespaceRules1d \cup buildClusterRules5m \cup buildClusterRules1d

-----------------------------------------------------------------------------
(* Virtual machines (virtualization/prometheusrule.go).                    *)

VMSources ==
  [ cpu_request |-> {<<"kubevirt_vmi_vcpu_seconds_total">>},
    memory_request |-> {<<"kubevirt_vm_resource_requests">>},
    cpu_usage |-> {<<"kubevirt_vmi_cpu_usage_seconds_total">>},
    memory_usage |-> {<<"kubevirt_vmi_memory_available_bytes">>,
                      <<"kubevirt_vmi_memory_usable_bytes">>} ]

buildVMRules5m == Rules5m("acm_rs_vm", "namespace", VMSources)
buildVMRules1d == Rules1d("acm_rs_vm", "namespace", DOMAIN VMSources)
buildVMClusterRules5m == Rules5m("acm_rs_vm", "cluster", VMSources)
buildVMClusterRules1d == Rules1d("acm_rs_vm", "cluster", DOMAIN VMSources)

VirtualizationRule ==
  buildVMRules5m \cup buildVMRules1d \cup buildVMClusterRules5m \cup buildVMClusterRules1d

-----------------------------------------------------------------------------
(* The cluster.                                                            *)

\* Groups evaluate in any order, over and over: the series they settle on (external).
Evaluate(rules, series) == series \cup {r.record : r \in {x \in rules : x.reads \subseteq series}}
Recorded(rules) ==
  LET once == Evaluate(rules, Raw)
  IN  Evaluate(rules, once)

-----------------------------------------------------------------------------
(* The scrape config (scrapeconfig.go).                                    *)

Metrics(kind, names) == {<<kind, level, name>> : level \in {"namespace", "cluster"}, name \in names}

NamespaceMetrics ==
  Metrics("acm_rs",
    {"cpu_request_hard", "cpu_request", "cpu_usage", "cpu_recommendation",
     "memory_request_hard", "memory_request", "memory_usage", "memory_recommendation"})

\* Slip: the raw series that the tables filter by is not federated.
VirtualizationMetricsOfRules ==
  Metrics("acm_rs_vm",
    {"cpu_request", "cpu_usage", "cpu_recommendation",
     "memory_request", "memory_usage", "memory_recommendation"})

VirtualizationMetrics ==
  Metrics("acm_rs_vm",
    {"cpu_request", "cpu_usage", "cpu_recommendation",
     "memory_request", "memory_usage", "memory_recommendation"})
  \cup {<<"kubevirt_vm_running_status_last_transition_timestamp_seconds">>}

\* Nothing selected: no scrape config.
GenerateScrapeConfig(includeNamespace, includeVirtualization) ==
  {m \in NamespaceMetrics : includeNamespace} \cup {m \in VirtualizationMetrics : includeVirtualization}

\* What a cluster that is rendered with these features sends to the hub. Without the
\* collection there are rules, but no scrape config.
Federated(delegated, namespaceEnabled, virtualizationEnabled, collectionEnabled) ==
  LET nsMatched == delegated /\ namespaceEnabled
      virtMatched == delegated /\ virtualizationEnabled
      rules == {r \in NamespaceRule : nsMatched} \cup {r \in VirtualizationRule : virtMatched}
      scraped == {m \in GenerateScrapeConfig(nsMatched, virtMatched) : collectionEnabled}
  IN  scraped \cap Recorded(rules)

=============================================================================
