----------------------------- MODULE Dashboards -----------------------------
\* The dashboards the hub's chart can carry: one definition per Build function of
\* pkg/perses/dashboards and internal/perses/dashboards, the selectors and panels of each,
\* and the choice that internal/coo/manifests/values.go makes among them.
EXTENDS RecordingRules

Fleet == INSTANCE FleetPanels
HCP == INSTANCE HostedControlPlanePanels
SLO == INSTANCE SloPanels
Networking == INSTANCE NetworkingPanels
Compute == INSTANCE ComputePanels
Incidents == INSTANCE IncidentPanels
RightSizing == INSTANCE RightSizingPanels

-----------------------------------------------------------------------------
(* The selectors that dashboards share (pkg/perses/dashboards/acm/         *)
(* variables.go), with the ones that their queries read.                   *)

GetClusterVariable == Selector({})
GetNodeVariable == Selector({"cluster"})

\* Slip: the namespaces of the chosen pod.
GetNamespaceVariableOfPod == Selector({"cluster", "pod"})

GetNamespaceVariable == Selector({"cluster"})
GetPodVariable == Selector({"cluster", "namespace"})
GetWorkloadVariable == Selector({"cluster", "namespace"})
GetTypeVariable == Selector({"cluster", "namespace", "workload"})
GetCardinalityClusterVariable == Selector({})
GetCardinalityNamespaceVariable == Selector({"cluster"})
GetCardinalityPodVariable == Selector({"cluster", "namespace"})
GetCardinalityPodMetricVariable == Selector({"cluster", "namespace", "pod"})
GetCardinalityMetricNameVariable == Selector({})
GetCardinalityClusterForMetricVariable == Selector({"metric_name"})
GetCardinalityNamespaceForNameVariable == Selector({"cluster"})
GetCardinalityPodForNameVariable == Selector({"cluster", "metric_name", "namespace"})

-----------------------------------------------------------------------------
(* The fleet.                                                              *)

BuildClusterResourceUse ==
  Dashboard("acm-cluster-rsrc-use",
    [ cluster |-> Selector({}) ],
    {Fleet!CPUUtilization, Fleet!CPUSaturation, Fleet!MemoryUtilization, Fleet!MemorySaturation,
     Fleet!NetworkUtilization, Fleet!NetworkSaturation, Fleet!DiskIOUtilization,
     Fleet!DiskIOSaturation, Fleet!DiskSpaceUtilization})

BuildNodeResourceUse ==
  Dashboard("acm-node-rsrc-use",
    [ cluster |-> Selector({}), instance |-> SelectorWithAll({"cluster"}) ],
    {Fleet!NodeCPUUtilization, Fleet!NodeCPUSaturation, Fleet!NodeMemoryUtilization,
     Fleet!NodeMemorySaturation, Fleet!NodeNetworkUtilization, Fleet!NodeNetworkSaturation,
     Fleet!NodeDiskIOUtilization, Fleet!NodeDiskIOSaturation, Fleet!NodeDiskSpaceUtilization})

BuildACMOptimizationOverview ==
  Dashboard("acm-optimization-overview",
    [ cluster |-> Selector({}) ],
    {Fleet!CPUOverestimationPanel, Fleet!CPURequestsCommitmentPanel, Fleet!CPUUtilizationPanel,
     Fleet!CPUUsagePanel, Fleet!CPUQuotaPanel, Fleet!MemoryOverestimationPanel,
     Fleet!MemoryRequestsCommitmentPanel, Fleet!MemoryUtilizationPanel, Fleet!MemoryUsagePanel,
     Fleet!MemoryRequestsByNamespacePanel, Fleet!NetworkingCurrentStatusPanel})

BuildACMClustersOverview ==
  Dashboard("acm-clusters-overview",
    [ acm_label_names |-> Selector({}),
      value |-> SelectorWithAll({"acm_label_names"}),
      cluster |-> SelectorWithAll({"acm_label_names", "value"}) ],
    {Fleet!Top50MaxLatencyAPIServer, Fleet!EtcdHealth, Fleet!Top50CPUOverEstimationClusters,
     Fleet!Top50MemoryOverEstimationClusters, Fleet!Top50MemoryUtilizedClusters,
     Fleet!Top5MemoryUtilizationGraph, Fleet!Top50CPUUtilizedClusters,
     Fleet!Top5CPUUtilizationGraph, Fleet!BandwidthUtilization})

BuildACMAlertAnalysis ==
  Dashboard("acm-alert-analysis",
    [ severity |-> SelectorWithAll({}) ],
    {Fleet!TotalAlerts, Fleet!TotalCriticalAlerts, Fleet!TotalWarningAlerts,
     Fleet!TotalModerateAlerts, Fleet!TotalLowAlerts, Fleet!TotalImportantAlerts,
     Fleet!AlertTypeOverTime, Fleet!ClusterAffectedOverTime, Fleet!AlertsAndClusters,
     Fleet!MostFiringAlerts, Fleet!MostAffectedClusters})

BuildACMAlertsByCluster ==
  Dashboard("acm-alerts-by-cluster",
    [ acm_label_names |-> Selector({}),
      value |-> Selector({"acm_label_names"}),
      cluster |-> Selector({"acm_label_names", "value"}),
      severity |-> SelectorWithAll({"cluster"}) ],
    {Fleet!AlertSeverity, Fleet!FiringAlertsTrend, Fleet!PendingAlertsTrend, Fleet!AlertsOverTime})

BuildACMClustersByAlert ==
  Dashboard("acm-clusters-by-alert",
    [ alert |-> SelectorWithAll({}), severity |-> SelectorWithAll({"alert"}) ],
    {Fleet!ClustersWithAlertSeverity})

BuildACMHCPOverview ==
  Dashboard("acm-hcp-overview",
    <<>>,
    {HCP!RequestBasedLimitEstimation, HCP!WorkerNodeCapacities, HCP!NumberOfHCPsRequestBased,
     HCP!LoadBasedLimitEstimation, HCP!QPSSettings, HCP!NumberOfHCPsQPSBased, HCP!HCPList})

BuildACMHCPResources ==
  Dashboard("acm-hcp-resources",
    [ hcp_ns |-> Selector({}) ],
    {HCP!HCPPodCount, HCP!HCPCPUUsageGraph, HCP!HCPCPURequestsPercent, HCP!HCPCPURequests,
     HCP!HCPCPUUsage, HCP!HCPMemoryRequestsPercent, HCP!HCPMemoryUsageGraph,
     HCP!HCPMemoryRequests, HCP!HCPMemoryUsage})

BuildSLOAPIServer ==
  Dashboard("k8s-slo-api-server",
    [ cluster |-> SelectorWithAll({}), window |-> Text, top |-> Text ],
    {SLO!FleetClustersExceededSLO, SLO!FleetClustersMeetingSLO, SLO!FleetTopClusters,
     SLO!FleetSLITrend})

BuildSLOAPIServerCluster ==
  Dashboard("k8s-slo-api-server-cluster",
    [ cluster |-> Selector({}) ],
    {SLO!ClusterTarget, SLO!ClusterPast7Days, SLO!ClusterPast30Days, SLO!ClusterDayOfWeek,
     SLO!ClusterErrorBudget7d, SLO!ClusterDowntimeRemaining7d, SLO!ClusterDayOfMonth,
     SLO!ClusterErrorBudget30d, SLO!ClusterDowntimeRemaining30d, SLO!ClusterSLITrend,
     SLO!ClusterSLITable})

BuildNetworkingCluster ==
  Dashboard("k8s-networking-cluster",
    [ cluster |-> GetClusterVariable, interval |-> Text, resolution |-> Text ],
    {Networking!ClusterCurrentBytesReceived, Networking!ClusterCurrentBytesTransmitted,
     Networking!ClusterCurrentStatus, Networking!ClusterReceiveBandwidth,
     Networking!ClusterTransmitBandwidth, Networking!ClusterReceivedPackets,
     Networking!ClusterTransmittedPackets, Networking!ClusterReceivedPacketsDropped,
     Networking!ClusterTransmittedPacketsDropped, Networking!ClusterTCPRetransmits,
     Networking!ClusterTCPSynRetransmits})

BuildNetworkingNamespacePods ==
  Dashboard("k8s-networking-namespace-pods",
    [ cluster |-> GetClusterVariable,
      namespace |-> GetNamespaceVariable,
      resolution |-> Text,
      interval |-> Text ],
    {Networking!NamespacePodsCurrentBytesReceived,
     Networking!NamespacePodsCurrentBytesTransmitted, Networking!NamespacePodsCurrentStatus,
     Networking!NamespacePodsReceiveBandwidth, Networking!NamespacePodsTransmitBandwidth,
     Networking!NamespacePodsReceivedPackets, Networking!NamespacePodsTransmittedPackets,
     Networking!NamespacePodsReceivedPacketsDropped,
     Networking!NamespacePodsTransmittedPacketsDropped})

BuildNetworkingNode ==
  Dashboard("k8s-networking-node",
    [ cluster |-> GetClusterVariable, interval |-> Text, resolution |-> Text ],
    {Networking!NodeCurrentBytesReceived, Networking!NodeCurrentBytesTransmitted,
     Networking!NodeCurrentStatus, Networking!NodeReceivedPacketsDropped,
     Networking!NodeTransmittedPacketsDropped, Networking!NodeTCPRetransmits,
     Networking!NodeTCPSynRetransmits})

BuildNetworkingPod ==
  Dashboard("k8s-networking-pod",
    [ cluster |-> GetClusterVariable,
      namespace |-> GetNamespaceVariable,
      pod |-> GetPodVariable,
      resolution |-> Text,
      interval |-> Text ],
    {Networking!PodCurrentBytesReceived, Networking!PodCurrentBytesTransmitted,
     Networking!PodReceiveBandwidth, Networking!PodTransmitBandwidth,
     Networking!PodReceivedPackets, Networking!PodTransmittedPackets,
     Networking!PodReceivedPacketsDropped, Networking!PodTransmittedPacketsDropped})

BuildComputeCluster ==
  Dashboard("k8s-compute-resources-cluster",
    [ cluster |-> GetClusterVariable ],
    {Compute!ClusterCPUUtilisation, Compute!ClusterCPURequestsCommitment,
     Compute!ClusterCPULimitsCommitment, Compute!ClusterMemoryUtilisation,
     Compute!ClusterMemoryRequestsCommitment, Compute!ClusterMemoryLimitsCommitment,
     Compute!ClusterCPUUsage, Compute!ClusterCPUQuota, Compute!ClusterMemoryUsage,
     Compute!ClusterMemoryQuota})

BuildComputeNamespacePods ==
  Dashboard("k8s-compute-resources-namespace-pods",
    [ cluster |-> GetClusterVariable, namespace |-> GetNamespaceVariable ],
    {Compute!NamespacePodsCPUUtilisationFromRequests,
     Compute!NamespacePodsCPUUtilisationFromLimits,
     Compute!NamespacePodsMemoryUtilisationFromRequests,
     Compute!NamespacePodsMemoryUtilisationFromLimits, Compute!NamespacePodsCPUUsage,
     Compute!NamespacePodsCPUQuota, Compute!NamespacePodsMemoryUsage,
     Compute!NamespacePodsMemoryQuota})

BuildComputeNamespaceWorkloads ==
  Dashboard("k8s-compute-resources-namespace-workloads",
    [ cluster |-> GetClusterVariable,
      namespace |-> GetNamespaceVariable,
      type |-> GetTypeVariable ],
    {Compute!NamespaceWorkloadsCPUUsage, Compute!NamespaceWorkloadsCPUQuota,
     Compute!NamespaceWorkloadsMemoryUsage, Compute!NamespaceWorkloadsMemoryQuota})

BuildComputeNodePods ==
  Dashboard("k8s-compute-resources-node-pods",
    [ cluster |-> GetClusterVariable, node |-> GetNodeVariable ],
    {Compute!NodePodsCPUUsage, Compute!NodePodsCPUQuota, Compute!NodePodsMemoryUsage,
     Compute!NodePodsMemoryQuota})

BuildComputePod ==
  Dashboard("k8s-compute-resources-pod",
    [ cluster |-> GetClusterVariable,
      namespace |-> GetNamespaceVariable,
      pod |-> GetPodVariable ],
    {Compute!PodCPUUsage, Compute!PodCPUThrottling, Compute!PodCPUQuota, Compute!PodMemoryUsage,
     Compute!PodMemoryQuota})

BuildComputeWorkload ==
  Dashboard("k8s-compute-resources-workload",
    [ cluster |-> GetClusterVariable,
      namespace |-> GetNamespaceVariable,
      workload |-> GetWorkloadVariable,
      type |-> GetTypeVariable ],
    {Compute!WorkloadCPUUsage, Compute!WorkloadCPUQuota, Compute!WorkloadMemoryUsage,
     Compute!WorkloadMemoryQuota})

-----------------------------------------------------------------------------
(* Cardinality of metrics.                                                 *)

BuildACMMetricsCardinalityOverview ==
  Dashboard("acm-metrics-cardinality-overview",
    <<>>,
    {Fleet!CardinalityDashboardGuide, Fleet!ExcludedClustersCount, Fleet!ExcludedClustersTable,
     Fleet!ExcludedClustersNote, Fleet!ClusterOutliersCount, Fleet!ClusterOutliersTable,
     Fleet!MetricOutliersCount, Fleet!MetricOutliersTable, Fleet!ClusterCardinalityOverTime,
     Fleet!ClusterCardinalityTable, Fleet!MetricCardinalityOverTime, Fleet!MetricCardinalityTable,
     Fleet!GlobalRecordingRulesOverTime, Fleet!GlobalRecordingRulesTable,
     Fleet!TotalCardinalityOverTime})

BuildACMMetricsCardinalityCluster ==
  Dashboard("acm-metrics-cardinality-cluster",
    [ cluster |-> GetCardinalityClusterVariable,
      namespace |-> GetCardinalityNamespaceVariable,
      pod |-> GetCardinalityPodVariable,
      metric_name |-> GetCardinalityPodMetricVariable ],
    {Fleet!ClusterByNamespaceOverTime, Fleet!ClusterByNamespaceTable, Fleet!ClusterByPodOverTime,
     Fleet!ClusterByPodTable, Fleet!ClusterInPodOverTime, Fleet!ClusterInPodTable,
     Fleet!ClusterRawTimeseriesTable})

BuildACMMetricsCardinalityName ==
  Dashboard("acm-metrics-cardinality-name",
    [ metric_name |-> GetCardinalityMetricNameVariable,
      cluster |-> GetCardinalityClusterForMetricVariable,
      namespace |-> GetCardinalityNamespaceForNameVariable,
      pod |-> GetCardinalityPodForNameVariable ],
    {Fleet!NameByClusterOverTime, Fleet!NameByClusterTable, Fleet!NameByNamespaceOverTime,
     Fleet!NameByNamespaceTable, Fleet!NameByPodOverTime, Fleet!NameByPodTable,
     Fleet!NameRawTimeseriesTable})

-----------------------------------------------------------------------------
(* Analytics.                                                              *)

BuildACMIncidentsOverview ==
  Dashboard("acm-incidents-overview",
    [ cluster |-> Selector({}) ],
    {Incidents!ActiveIncidents, Incidents!IncidentCount})

BuildNamespaceRightSizing ==
  Dashboard("acm-rs-namespace-overview",
    [ cluster |-> SelectorOver({}, {<<"acm_rs", "cluster", "cpu_request">>}),
      profile |-> SelectorOver({"cluster"}, {<<"acm_rs", "namespace", "cpu_usage">>}),
      days |-> Text ],
    {RightSizing!CPURecommendationPanel, RightSizing!CPUUsagePanel, RightSizing!CPURequestPanel,
     RightSizing!CPUUtilizationPanel, RightSizing!CPUTopNamespacesPanel,
     RightSizing!CPUQuotaTablePanel, RightSizing!MemRecommendationPanel,
     RightSizing!MemUsagePanel, RightSizing!MemRequestPanel, RightSizing!MemUtilizationPanel,
     RightSizing!MemTopNamespacesPanel, RightSizing!MemQuotaTablePanel})

\* The selectors of a VM's page list what any of these series has.
VMDetailSeries ==
  {<<"acm_rs_vm", "namespace", n>> : n \in {"cpu_request", "cpu_usage", "memory_request", "memory_usage"}}

BuildVMOverview ==
  Dashboard("acm-rightsizing-openshift-virtualization",
    [ cluster |-> SelectorOver({}, {<<"acm_rs_vm", "namespace", "cpu_request">>}),
      profile |-> SelectorOver({"cluster"}, {<<"acm_rs_vm", "namespace", "cpu_usage">>}),
      days |-> Text,
      namespace |-> [SelectorWithAll({"cluster", "profile"}) EXCEPT
                       !.series = {<<"acm_rs_vm", "namespace", "cpu_usage">>}] ],
    {RightSizing!VMTotalCPUOverestimationPanel, RightSizing!VMTotalCPUUnderestimationPanel,
     RightSizing!VMTotalMemOverestimationPanel, RightSizing!VMTotalMemUnderestimationPanel,
     RightSizing!VMCPUOverestimationTablePanel, RightSizing!VMCPUUnderestimationTablePanel,
     RightSizing!VMMemOverestimationTablePanel, RightSizing!VMMemUnderestimationTablePanel})

BuildVMOverestimation ==
  Dashboard("acm-rightsizing-vm-overestimation",
    [ cluster |-> SelectorOver({}, VMDetailSeries),
      profile |-> SelectorOver({"cluster"}, VMDetailSeries),
      days |-> Text,
      namespace |-> SelectorOver({"cluster", "profile"}, VMDetailSeries),
      vm |-> SelectorOver({"cluster", "namespace", "profile"}, VMDetailSeries) ],
    {RightSizing!VMBackToMainDashboardPanel, RightSizing!VMCPUOverestimationStatPanel,
     RightSizing!VMCPUUsageStatPanel, RightSizing!VMCPURequestStatPanel,
     RightSizing!VMCPUUtilizationStatPanel, RightSizing!VMCPUUtilizationTimeSeriesPanel,
     RightSizing!VMMemoryOverestimationStatPanel, RightSizing!VMMemoryUsageStatPanel,
     RightSizing!VMMemoryRequestStatPanel, RightSizing!VMMemoryUtilizationStatPanel,
     RightSizing!VMMemoryUtilizationTimeSeriesPanel})

BuildVMUnderestimation ==
  Dashboard("acm-rightsizing-vm-underestimation",
    [ cluster |-> SelectorOver({}, VMDetailSeries),
      profile |-> SelectorOver({"cluster"}, VMDetailSeries),
      days |-> Text,
      namespace |-> SelectorOver({"cluster", "profile"}, VMDetailSeries),
      vm |-> SelectorOver({"cluster", "namespace", "profile"}, VMDetailSeries) ],
    {RightSizing!VMBackToMainDashboardPanel, RightSizing!VMCPUUnderestimationStatPanel,
     RightSizing!VMCPUUsageStatPanel, RightSizing!VMCPURequestStatPanel,
     RightSizing!VMCPUUtilizationStatPanel, RightSizing!VMCPUUtilizationTimeSeriesPanel,
     RightSizing!VMMemoryUnderestimationStatPanel, RightSizing!VMMemoryUsageStatPanel,
     RightSizing!VMMemoryRequestStatPanel, RightSizing!VMMemoryUtilizationStatPanel,
     RightSizing!VMMemoryUtilizationTimeSeriesPanel})

-----------------------------------------------------------------------------
(* What the hub's chart carries (internal/coo/manifests/values.go).        *)

buildACMDashboards ==
  {BuildClusterResourceUse, BuildNodeResourceUse, BuildACMOptimizationOverview,
   BuildACMClustersOverview, BuildACMAlertAnalysis, BuildACMAlertsByCluster,
   BuildACMClustersByAlert, BuildACMHCPOverview, BuildACMHCPResources, BuildSLOAPIServer,
   BuildSLOAPIServerCluster, BuildNetworkingCluster, BuildNetworkingNamespacePods,
   BuildNetworkingNode, BuildNetworkingPod, BuildComputeCluster, BuildComputeNamespacePods,
   BuildComputeNamespaceWorkloads, BuildComputeNodePods, BuildComputePod, BuildComputeWorkload}

buildCardinalityDashboards ==
  {BuildACMMetricsCardinalityOverview, BuildACMMetricsCardinalityCluster,
   BuildACMMetricsCardinalityName}

buildIncidentDetetctionDashboards == {BuildACMIncidentsOverview}
buildNamespaceRSDashboards == {BuildNamespaceRightSizing}

\* Slip: the overview is carried without one of the pages it links to.
buildVMRSDashboardsWithoutUnderestimation == {BuildVMOverview, BuildVMOverestimation}

buildVMRSDashboards == {BuildVMOverview, BuildVMOverestimation, BuildVMUnderestimation}

enableUI(features) == {"collection", "ui"} \subseteq features

\* The dashboards of each project. Those of the community mixins are left out.
Dashboards(features) ==
  {d \in buildACMDashboards : enableUI(features)}
  \cup {d \in buildCardinalityDashboards : enableUI(features) /\ "cardinality" \in features}

\* Slip: the condition on incidents is inverted.
AnalyticsDashboardsInverted(features) ==
  {d \in buildIncidentDetetctionDashboards : "incident" \notin features}
  \cup {d \in buildNamespaceRSDashboards : {"delegated", "namespace"} \subseteq features}
  \cup {d \in buildVMRSDashboards : {"delegated", "virtualization"} \subseteq features}

AnalyticsDashboards(features) ==
  {d \in buildIncidentDetetctionDashboards : "incident" \in features}
  \cup {d \in buildNamespaceRSDashboards : {"delegated", "namespace"} \subseteq features}
  \cup {d \in buildVMRSDashboards : {"delegated", "virtualization"} \subseteq features}

=============================================================================
