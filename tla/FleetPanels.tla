----------------------------- MODULE FleetPanels -----------------------------
\* The panels of the fleet dashboards (pkg/perses/panels/acm): which selectors each query
\* reads, which labels the rows of a linked table carry, and where its links lead. One
\* definition per panel function, one per map of queries.
EXTENDS DashboardKit

ACMCommonPanelQueries1 ==
  [ Top50MaxLatencyAPIServer_MaxLatency |-> Row({"cluster"}, {"api_up", "cluster"}),
    APIServerRequestTotal_ErrorRate |-> Row({"cluster"}, {"cluster"}),
    EtcdHealth_LeaderChanges |-> Row({"cluster"}, {"cluster", "db_size", "has_leader"}),
    Top50CPUOverestimation |-> Row({"cluster"}, {"cluster", "cpu_requested", "cpu_utilized"}) ]

ACMCommonPanelQueries2 ==
  [q \in {"Top50MemoryOverestimation", "Top50CPUUtilized", "Top50MemoryUtilized"}
     |-> AnyRow({"cluster"})]
  ++ [ Top5CPUUtilized |-> Query({"cluster"}),
       Top5MemoryUtilized |-> Query({"cluster"}) ]

ACMCommonPanelQueries3 ==
  [q \in {"AlertsFiringSeverity", "ClusterCPUUtilized", "ClusterMemoryUtilized"}
     |-> Query({"cluster"})]
  ++ [q \in {"ClusterCPURequested", "ClusterMemoryRequested", "ClusterCPUCoresSum",
             "ClusterCPUAllocatableSum", "ClusterMachineMemorySum"} |-> Query({})]
  ++ [ BandwidthUtilization |->
        Row({"cluster"}, {"cluster", "node_receive_drop", "node_transmit", "node_transmit_drop"}),
       Top10AlertsFiringByName |-> Query({"severity"}),
       Top10AlertsFiringByCluster |-> Query({"severity"}),
       AlertsFiringByName |-> Query({"cluster", "severity"}),
       AlertsPendingByName |-> Query({"cluster", "severity"}) ]

ACMCommonPanelQueries4 ==
  [q \in {"CPUOverestimation", "CPUUsageNodeNamespacePod", "CPUUsageByNamespace",
          "CPURequestsCommitment", "CPURequestsByNamespace", "CPURequestsByNamespaceSum",
          "PodsByNamespace"} |-> Query({"cluster"})]
  ++ [ ClustersWithAlertSeverity |-> Query({"alert", "severity"}),
       CPUUtilization |-> Query({}) ]

ACMCommonPanelQueries5 ==
  [q \in {"MemoryOverestimation", "MemoryUsageNodeNamespacePod", "MemoryRequestsCommitment",
          "MemoryUtilization", "MemoryRequestsByNamespace", "MemoryRequestsByNamespaceSum",
          "NetworkReceiveByInstance", "NetworkTransmitByInstance",
          "NetworkReceiveDropByInstance"} |-> Query({"cluster"})]

ACMCommonPanelQueries6 ==
  [q \in {"TotalAlerts", "TotalCriticalAlerts", "TotalWarningAlerts", "TotalModerateAlerts",
          "TotalLowAlerts", "TotalImportantAlerts", "LabelVariable"} |-> Query({})]
  ++ [ NetworkTransmitDropByInstance |-> Query({"cluster"}),
       AlertTypeOverTime |-> Query({"severity"}),
       ClusterAffectedOverTime |-> Query({"severity"}),
       AlertsAndClusters |-> Row({"severity"}, {"alertname", "cluster", "severity"}) ]

ACMCommonPanelQueries ==
  ACMCommonPanelQueries1 ++ ACMCommonPanelQueries2 ++ ACMCommonPanelQueries3
  ++ ACMCommonPanelQueries4 ++ ACMCommonPanelQueries5 ++ ACMCommonPanelQueries6

CardinalityQueries1 ==
  [q \in {"ClusterOutliersCount", "MetricOutliersCount", "ExcludedClustersCount",
          "ExcludedClustersList", "ClusterCardinalityOverTime", "ClusterCardinality7dAgo",
          "ClusterCardinality30dAgo", "MetricCardinalityOverTime", "MetricCardinality7dAgo",
          "MetricCardinality30dAgo", "GlobalRulesOverTime", "GlobalRules7dAgo",
          "GlobalRules30dAgo", "TotalCardinalityOverTime"} |-> Query({})]
  ++ [q \in {"ClusterOutliersTable", "MetricOutliersTable", "ClusterCardinalityNow",
             "MetricCardinalityNow", "GlobalRulesNow"} |-> AnyRow({})]
  ++ [ ClusterByNamespaceOverTime |-> Query({"cluster"}),
       ClusterNonNamespacedOverTime |-> Query({"cluster"}),
       ClusterByNamespaceTable |-> Row({"cluster"}, {"namespace"}),
       ClusterByPodOverTime |-> Query({"cluster", "namespace"}),
       ClusterNoPodOverTime |-> Query({"cluster", "namespace"}),
       ClusterByPodTable |-> Row({"cluster", "namespace"}, {"pod"}),
       ClusterInPodOverTime |-> Query({"cluster", "namespace", "pod"}),
       ClusterInPodTable |-> Row({"cluster", "namespace", "pod"}, {"__name__"}),
       ClusterRawTimeseries |-> Query({"cluster", "metric_name", "namespace", "pod"}),
       NameByClusterOverTime |-> Query({"metric_name"}),
       NameByClusterTotalTable |-> Query({"metric_name"}),
       NameByClusterTable |-> Row({"metric_name"}, {"cluster"}) ]

CardinalityQueries2 ==
  [ NameByNamespaceOverTime |-> Query({"cluster", "metric_name"}),
    NameNonNamespacedOverTime |-> Query({"cluster", "metric_name"}),
    NameByNamespaceTable |-> Row({"cluster", "metric_name"}, {"namespace"}),
    NameByPodOverTime |-> Query({"cluster", "metric_name", "namespace"}),
    NameNoPodOverTime |-> Query({"cluster", "metric_name", "namespace"}),
    NameByPodTable |-> Row({"cluster", "metric_name", "namespace"}, {"pod"}),
    NameRawTimeseries |-> Query({"cluster", "metric_name", "namespace", "pod"}) ]

CardinalityQueries == CardinalityQueries1 ++ CardinalityQueries2

CPUUtilization == Panel({Query({"cluster"})})
CPUSaturation == Panel({Query({"cluster"})})
MemoryUtilization == Panel({Query({"cluster"})})
MemorySaturation == Panel({Query({"cluster"})})
NetworkUtilization == Panel({Query({"cluster"})})
NetworkSaturation == Panel({Query({"cluster"})})
DiskIOUtilization == Panel({Query({"cluster"})})
DiskIOSaturation == Panel({Query({"cluster"})})
DiskSpaceUtilization == Panel({Query({"cluster"})})
NodeCPUUtilization == Panel({Query({"cluster", "instance"})})
NodeCPUSaturation == Panel({Query({"cluster", "instance"})})
NodeMemoryUtilization == Panel({Query({"cluster", "instance"})})
NodeMemorySaturation == Panel({Query({"cluster", "instance"})})
NodeNetworkUtilization == Panel({Query({"cluster", "instance"})})
NodeNetworkSaturation == Panel({Query({"cluster", "instance"})})
NodeDiskIOUtilization == Panel({Query({"cluster", "instance"})})
NodeDiskIOSaturation == Panel({Query({"cluster", "instance"})})
NodeDiskSpaceUtilization == Panel({Query({"cluster", "instance"})})
CPUOverestimationPanel == Panel({ACMCommonPanelQueries.CPUOverestimation})
CPURequestsCommitmentPanel == Panel({ACMCommonPanelQueries.CPURequestsCommitment})
CPUUtilizationPanel == Panel({ACMCommonPanelQueries.CPUUtilization})
CPUUsagePanel == Panel({ACMCommonPanelQueries.CPUUsageNodeNamespacePod})

CPUQuotaPanel == Panel({ACMCommonPanelQueries.CPURequestsByNamespace,
                        ACMCommonPanelQueries.CPUUsageByNamespace,
                        ACMCommonPanelQueries.CPURequestsByNamespaceSum,
                        ACMCommonPanelQueries.PodsByNamespace})

MemoryOverestimationPanel == Panel({ACMCommonPanelQueries.MemoryOverestimation})
MemoryRequestsCommitmentPanel == Panel({ACMCommonPanelQueries.MemoryRequestsCommitment})
MemoryUtilizationPanel == Panel({ACMCommonPanelQueries.MemoryUtilization})
MemoryUsagePanel == Panel({ACMCommonPanelQueries.MemoryUsageNodeNamespacePod})

MemoryRequestsByNamespacePanel == Panel({ACMCommonPanelQueries.MemoryRequestsByNamespace,
                                         ACMCommonPanelQueries.MemoryUsageNodeNamespacePod,
                                         ACMCommonPanelQueries.MemoryRequestsByNamespaceSum,
                                         ACMCommonPanelQueries.PodsByNamespace})

NetworkingCurrentStatusPanel == Panel({ACMCommonPanelQueries.NetworkReceiveByInstance,
                                       ACMCommonPanelQueries.NetworkTransmitByInstance,
                                       ACMCommonPanelQueries.NetworkReceiveDropByInstance,
                                       ACMCommonPanelQueries.NetworkTransmitDropByInstance})

Top50MaxLatencyAPIServer == Linked({ACMCommonPanelQueries.Top50MaxLatencyAPIServer_MaxLatency,
                                    ACMCommonPanelQueries.APIServerRequestTotal_ErrorRate},
                                   {NewTableLink("acm-optimization-overview", "cluster")})

EtcdHealth == Linked({ACMCommonPanelQueries.EtcdHealth_LeaderChanges},
                     {NewTableLink("acm-optimization-overview", "cluster")})

Top50CPUOverEstimationClusters == Linked({ACMCommonPanelQueries.Top50CPUOverestimation},
                                         {NewTableLink("acm-optimization-overview", "cluster")})

Top50MemoryOverEstimationClusters == Linked({ACMCommonPanelQueries.Top50MemoryOverestimation},
                                            {NewTableLink("acm-optimization-overview", "cluster")})

Top50MemoryUtilizedClusters == Linked({ACMCommonPanelQueries.Top50MemoryUtilized},
                                      {NewTableLink("acm-optimization-overview", "cluster")})

Top5MemoryUtilizationGraph == Panel({ACMCommonPanelQueries.Top5MemoryUtilized})

Top50CPUUtilizedClusters == Linked({ACMCommonPanelQueries.Top50CPUUtilized},
                                   {NewTableLink("acm-optimization-overview", "cluster")})

Top5CPUUtilizationGraph == Panel({ACMCommonPanelQueries.Top5CPUUtilized})

BandwidthUtilization == Linked({ACMCommonPanelQueries.BandwidthUtilization},
                               {NewTableLink("k8s-networking-cluster", "cluster")})

TotalAlerts == Linked({ACMCommonPanelQueries.TotalAlerts},
                      {DashboardURL("acm-clusters-by-alert",
                          [ alert |-> StaticParam("$__all"),
                            severity |-> StaticParam("$__all") ])})

TotalCriticalAlerts == Linked({ACMCommonPanelQueries.TotalCriticalAlerts},
                              {DashboardURL("acm-clusters-by-alert",
                                  [ alert |-> StaticParam("$__all"),
                                    severity |-> StaticParam("critical") ])})

TotalWarningAlerts == Linked({ACMCommonPanelQueries.TotalWarningAlerts},
                             {DashboardURL("acm-clusters-by-alert",
                                 [ alert |-> StaticParam("$__all"),
                                   severity |-> StaticParam("warning") ])})

TotalModerateAlerts == Linked({ACMCommonPanelQueries.TotalModerateAlerts},
                              {DashboardURL("acm-clusters-by-alert",
                                  [ alert |-> StaticParam("$__all"),
                                    severity |-> StaticParam("moderate") ])})

TotalLowAlerts == Linked({ACMCommonPanelQueries.TotalLowAlerts},
                         {DashboardURL("acm-clusters-by-alert",
                             [ alert |-> StaticParam("$__all"),
                               severity |-> StaticParam("low") ])})

TotalImportantAlerts == Linked({ACMCommonPanelQueries.TotalImportantAlerts},
                               {DashboardURL("acm-clusters-by-alert",
                                   [ alert |-> StaticParam("$__all"),
                                     severity |-> StaticParam("important") ])})

AlertTypeOverTime == Panel({ACMCommonPanelQueries.AlertTypeOverTime})
ClusterAffectedOverTime == Panel({ACMCommonPanelQueries.ClusterAffectedOverTime})

AlertsAndClusters == Linked({ACMCommonPanelQueries.AlertsAndClusters},
                            {NewTableLinkCustomVar("acm-clusters-by-alert", "alert", "alertname"),
                             NewTableLink("acm-alerts-by-cluster", "cluster")})

MostFiringAlerts == Panel({ACMCommonPanelQueries.Top10AlertsFiringByName})
MostAffectedClusters == Panel({ACMCommonPanelQueries.Top10AlertsFiringByCluster})
AlertSeverity == Panel({ACMCommonPanelQueries.AlertsFiringSeverity})
FiringAlertsTrend == Panel({ACMCommonPanelQueries.AlertsFiringByName})
PendingAlertsTrend == Panel({ACMCommonPanelQueries.AlertsPendingByName})
AlertsOverTime == Panel({ACMCommonPanelQueries.AlertsFiringByName})
ClustersWithAlertSeverity == Panel({ACMCommonPanelQueries.ClustersWithAlertSeverity})
CardinalityDashboardGuide == Note({})
ExcludedClustersCount == Panel({CardinalityQueries.ExcludedClustersCount})
ExcludedClustersTable == Panel({CardinalityQueries.ExcludedClustersList})
ExcludedClustersNote == Note({})
ClusterOutliersCount == Panel({CardinalityQueries.ClusterOutliersCount})

ClusterOutliersTable == Linked({CardinalityQueries.ClusterOutliersTable},
                               {NewTableLink("acm-metrics-cardinality-cluster", "cluster")})

MetricOutliersCount == Panel({CardinalityQueries.MetricOutliersCount})

MetricOutliersTable == Linked({CardinalityQueries.MetricOutliersTable},
                              {NewTableLink("acm-metrics-cardinality-name", "metric_name")})

ClusterCardinalityOverTime == Panel({CardinalityQueries.ClusterCardinalityOverTime})

ClusterCardinalityTable == Linked({CardinalityQueries.ClusterCardinalityNow},
                                  {NewTableLink("acm-metrics-cardinality-cluster", "cluster")})

MetricCardinalityOverTime == Panel({CardinalityQueries.MetricCardinalityOverTime})

MetricCardinalityTable == Linked({CardinalityQueries.MetricCardinalityNow},
                                 {NewTableLink("acm-metrics-cardinality-name", "metric_name")})

GlobalRecordingRulesOverTime == Panel({CardinalityQueries.GlobalRulesOverTime})

GlobalRecordingRulesTable == Linked({CardinalityQueries.GlobalRulesNow},
                                    {NewTableLink("acm-metrics-cardinality-name", "metric_name")})

TotalCardinalityOverTime == Panel({CardinalityQueries.TotalCardinalityOverTime})

ClusterByNamespaceOverTime == Panel({CardinalityQueries.ClusterByNamespaceOverTime,
                                     CardinalityQueries.ClusterNonNamespacedOverTime})

ClusterByNamespaceTable == Linked({CardinalityQueries.ClusterByNamespaceTable},
                                  {DashboardURL("acm-metrics-cardinality-cluster",
                                      [ cluster |-> Chosen("cluster"),
                                        namespace |-> FieldParam("namespace") ])})

ClusterByPodOverTime == Panel({CardinalityQueries.ClusterByPodOverTime,
                               CardinalityQueries.ClusterNoPodOverTime})

ClusterByPodTable == Linked({CardinalityQueries.ClusterByPodTable},
                            {DashboardURL("acm-metrics-cardinality-cluster",
                                [ cluster |-> Chosen("cluster"),
                                  namespace |-> Chosen("namespace"),
                                  pod |-> FieldParam("pod") ])})

ClusterInPodOverTime == Panel({CardinalityQueries.ClusterInPodOverTime})

ClusterInPodTable == Linked({CardinalityQueries.ClusterInPodTable},
                            {DashboardURL("acm-metrics-cardinality-cluster",
                                [ cluster |-> Chosen("cluster"),
                                  namespace |-> Chosen("namespace"), pod |-> Chosen("pod"),
                                  metric_name |-> FieldParam("__name__") ])})

ClusterRawTimeseriesTable == Panel({CardinalityQueries.ClusterRawTimeseries})
NameByClusterOverTime == Panel({CardinalityQueries.NameByClusterOverTime})

NameByClusterTable == Linked({CardinalityQueries.NameByClusterTable},
                             {DashboardURL("acm-metrics-cardinality-name",
                                 [ metric_name |-> Chosen("metric_name"),
                                   cluster |-> FieldParam("cluster") ])})

NameByNamespaceOverTime == Panel({CardinalityQueries.NameByNamespaceOverTime,
                                  CardinalityQueries.NameNonNamespacedOverTime})

NameByNamespaceTable == Linked({CardinalityQueries.NameByNamespaceTable},
                               {DashboardURL("acm-metrics-cardinality-name",
                                   [ metric_name |-> Chosen("metric_name"),
                                     cluster |-> Chosen("cluster"),
                                     namespace |-> FieldParam("namespace") ])})

NameByPodOverTime == Panel({CardinalityQueries.NameByPodOverTime,
                            CardinalityQueries.NameNoPodOverTime})

\* Slip: the link forgets the cluster.
NameByPodTableAnyCluster == Linked({CardinalityQueries.NameByPodTable},
                                   {DashboardURL("acm-metrics-cardinality-name",
                                       [ metric_name |-> Chosen("metric_name"),
                                         namespace |-> Chosen("namespace"),
                                         pod |-> FieldParam("pod") ])})

NameByPodTable == Linked({CardinalityQueries.NameByPodTable},
                         {DashboardURL("acm-metrics-cardinality-name",
                             [ metric_name |-> Chosen("metric_name"),
                               cluster |-> Chosen("cluster"),
                               namespace |-> Chosen("namespace"),
                               pod |-> FieldParam("pod") ])})

NameRawTimeseriesTable == Panel({CardinalityQueries.NameRawTimeseries})

==============================================================================
