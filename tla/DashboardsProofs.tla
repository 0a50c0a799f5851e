-------------------------- MODULE DashboardsProofs --------------------------
(***************************************************************************)
(* What every dashboard of the chart has, page by page: the selectors that *)
(* it reads, the series that it reads, and a target for each of its links  *)
(* that takes what the link gives. The lemmas about the catalogue collect  *)
(* the pages; ConsoleProofs knows the dashboards by those alone.           *)
(*                                                                         *)
(* The proofs follow the code: first the tables of queries that the panels *)
(* of a dashboard share, then each dashboard, then the recording rules,    *)
(* then the links.                                                         *)
(***************************************************************************)
EXTENDS Console, TLAPS

\* What the queries and the selectors read is a selector of the same page.
Complete(d) ==
  /\ \A v \in DOMAIN d.selectors : d.selectors[v].deps \subseteq DOMAIN d.selectors
  /\ \A p \in d.panels : \A q \in p.queries : q.reads \subseteq DOMAIN d.selectors

\* Given these series, no query lacks one, and no selector all of those that it lists.
Supplied(d, series) ==
  /\ \A v \in DOMAIN d.selectors :
       LET own == d.selectors[v].series IN own = {} \/ own \cap series # {}
  /\ \A p \in d.panels : \A q \in p.queries : q.series \subseteq series

Page(d, name, series) == d.name = name /\ Complete(d) /\ Supplied(d, series)

Unlinked(d) == \A p \in d.panels : p.links = {}

-----------------------------------------------------------------------------
(* The queries.                                                            *)

\* These queries of a table read nothing but the selectors of the scope.
Scoped(table, keys, scope) ==
  \A k \in keys : table[k].reads \subseteq scope /\ table[k].series = {}

\* The rows of these carry the label.
Labelled(table, keys, label) == \A k \in keys : Carries(table[k], label)

\* The table of ACM's common panels: the selectors that its queries read, and the labels of
\* the rows that links read.
LEMMA CommonPanelQueries ==
  /\ Scoped(Fleet!ACMCommonPanelQueries,
       {"Top50MaxLatencyAPIServer_MaxLatency", "APIServerRequestTotal_ErrorRate",
        "EtcdHealth_LeaderChanges", "Top50CPUOverestimation", "Top50MemoryOverestimation",
        "Top50CPUUtilized", "Top50MemoryUtilized", "Top5CPUUtilized", "Top5MemoryUtilized",
        "AlertsFiringSeverity", "BandwidthUtilization", "CPUOverestimation",
        "CPUUsageNodeNamespacePod", "CPUUsageByNamespace", "CPURequestsCommitment",
        "CPURequestsByNamespace", "CPURequestsByNamespaceSum", "PodsByNamespace",
        "MemoryOverestimation", "MemoryUsageNodeNamespacePod", "MemoryRequestsCommitment",
        "MemoryUtilization", "MemoryRequestsByNamespace", "MemoryRequestsByNamespaceSum",
        "NetworkReceiveByInstance", "NetworkTransmitByInstance",
        "NetworkReceiveDropByInstance", "NetworkTransmitDropByInstance"},
       {"cluster"})
  /\ Scoped(Fleet!ACMCommonPanelQueries,
       {"Top10AlertsFiringByName", "Top10AlertsFiringByCluster", "AlertTypeOverTime",
        "ClusterAffectedOverTime", "AlertsAndClusters"},
       {"severity"})
  /\ Scoped(Fleet!ACMCommonPanelQueries,
       {"AlertsFiringByName", "AlertsPendingByName"},
       {"cluster", "severity"})
  /\ Scoped(Fleet!ACMCommonPanelQueries,
       {"ClustersWithAlertSeverity"},
       {"alert", "severity"})
  /\ Scoped(Fleet!ACMCommonPanelQueries,
       {"CPUUtilization", "TotalAlerts", "TotalCriticalAlerts", "TotalWarningAlerts",
        "TotalModerateAlerts", "TotalLowAlerts", "TotalImportantAlerts"},
       {})
  /\ Labelled(Fleet!ACMCommonPanelQueries,
       {"Top50MaxLatencyAPIServer_MaxLatency", "APIServerRequestTotal_ErrorRate",
        "EtcdHealth_LeaderChanges", "Top50CPUOverestimation", "Top50MemoryOverestimation",
        "Top50CPUUtilized", "Top50MemoryUtilized", "BandwidthUtilization"},
       "cluster")
  /\ Labelled(Fleet!ACMCommonPanelQueries, {"AlertsAndClusters"}, "alertname")
<1>1. /\ DOMAIN Fleet!ACMCommonPanelQueries1 =
          {"Top50MaxLatencyAPIServer_MaxLatency", "APIServerRequestTotal_ErrorRate",
           "EtcdHealth_LeaderChanges", "Top50CPUOverestimation"}
     /\ Scoped(Fleet!ACMCommonPanelQueries1,
          {"Top50MaxLatencyAPIServer_MaxLatency", "APIServerRequestTotal_ErrorRate",
           "EtcdHealth_LeaderChanges", "Top50CPUOverestimation"},
          {"cluster"})
     /\ Labelled(Fleet!ACMCommonPanelQueries1,
          {"Top50MaxLatencyAPIServer_MaxLatency", "APIServerRequestTotal_ErrorRate",
           "EtcdHealth_LeaderChanges", "Top50CPUOverestimation"},
          "cluster")
  BY DEF Scoped, Labelled, Carries, AnyLabel, Fleet!ACMCommonPanelQueries1, Fleet!Row
<1>2. /\ DOMAIN Fleet!ACMCommonPanelQueries2 =
          {"Top50MemoryOverestimation", "Top50CPUUtilized", "Top50MemoryUtilized",
           "Top5CPUUtilized", "Top5MemoryUtilized"}
     /\ Scoped(Fleet!ACMCommonPanelQueries2,
          {"Top50MemoryOverestimation", "Top50CPUUtilized", "Top50MemoryUtilized",
           "Top5CPUUtilized", "Top5MemoryUtilized"},
          {"cluster"})
     /\ Labelled(Fleet!ACMCommonPanelQueries2,
          {"Top50MemoryOverestimation", "Top50CPUUtilized", "Top50MemoryUtilized"},
          "cluster")
  BY DEF Scoped, Labelled, Carries, AnyLabel, Fleet!AnyLabel, Fleet!ACMCommonPanelQueries2,
         Fleet!++, Fleet!AnyRow, Fleet!Query, Fleet!Row
<1>3. /\ DOMAIN Fleet!ACMCommonPanelQueries3 =
          {"AlertsFiringSeverity", "ClusterCPUUtilized", "ClusterMemoryUtilized",
           "ClusterCPURequested", "ClusterMemoryRequested", "ClusterCPUCoresSum",
           "ClusterCPUAllocatableSum", "ClusterMachineMemorySum", "BandwidthUtilization",
           "Top10AlertsFiringByName", "Top10AlertsFiringByCluster", "AlertsFiringByName",
           "AlertsPendingByName"}
     /\ Scoped(Fleet!ACMCommonPanelQueries3,
          {"AlertsFiringSeverity", "BandwidthUtilization"},
          {"cluster"})
     /\ Scoped(Fleet!ACMCommonPanelQueries3,
          {"Top10AlertsFiringByName", "Top10AlertsFiringByCluster"},
          {"severity"})
     /\ Scoped(Fleet!ACMCommonPanelQueries3,
          {"AlertsFiringByName", "AlertsPendingByName"},
          {"cluster", "severity"})
     /\ Labelled(Fleet!ACMCommonPanelQueries3, {"BandwidthUtilization"}, "cluster")
  BY DEF Scoped, Labelled, Carries, AnyLabel, Fleet!ACMCommonPanelQueries3, Fleet!++,
         Fleet!Query, Fleet!Row
<1>4. /\ DOMAIN Fleet!ACMCommonPanelQueries4 =
          {"CPUOverestimation", "CPUUsageNodeNamespacePod", "CPUUsageByNamespace",
           "CPURequestsCommitment", "CPURequestsByNamespace", "CPURequestsByNamespaceSum",
           "PodsByNamespace", "ClustersWithAlertSeverity", "CPUUtilization"}
     /\ Scoped(Fleet!ACMCommonPanelQueries4,
          {"CPUOverestimation", "CPUUsageNodeNamespacePod", "CPUUsageByNamespace",
           "CPURequestsCommitment", "CPURequestsByNamespace", "CPURequestsByNamespaceSum",
           "PodsByNamespace"},
          {"cluster"})
     /\ Scoped(Fleet!ACMCommonPanelQueries4,
          {"ClustersWithAlertSeverity"},
          {"alert", "severity"})
     /\ Scoped(Fleet!ACMCommonPanelQueries4, {"CPUUtilization"}, {})
  BY DEF Scoped, Fleet!ACMCommonPanelQueries4, Fleet!++, Fleet!Query
<1>5. /\ DOMAIN Fleet!ACMCommonPanelQueries5 =
          {"MemoryOverestimation", "MemoryUsageNodeNamespacePod",
           "MemoryRequestsCommitment", "MemoryUtilization", "MemoryRequestsByNamespace",
           "MemoryRequestsByNamespaceSum", "NetworkReceiveByInstance",
           "NetworkTransmitByInstance", "NetworkReceiveDropByInstance"}
     /\ Scoped(Fleet!ACMCommonPanelQueries5,
          {"MemoryOverestimation", "MemoryUsageNodeNamespacePod",
           "MemoryRequestsCommitment", "MemoryUtilization", "MemoryRequestsByNamespace",
           "MemoryRequestsByNamespaceSum", "NetworkReceiveByInstance",
           "NetworkTransmitByInstance", "NetworkReceiveDropByInstance"},
          {"cluster"})
  BY DEF Scoped, Fleet!ACMCommonPanelQueries5, Fleet!Query
<1>6. /\ DOMAIN Fleet!ACMCommonPanelQueries6 =
          {"TotalAlerts", "TotalCriticalAlerts", "TotalWarningAlerts",
           "TotalModerateAlerts", "TotalLowAlerts", "TotalImportantAlerts", "LabelVariable",
           "NetworkTransmitDropByInstance", "AlertTypeOverTime", "ClusterAffectedOverTime",
           "AlertsAndClusters"}
     /\ Scoped(Fleet!ACMCommonPanelQueries6, {"NetworkTransmitDropByInstance"}, {"cluster"})
     /\ Scoped(Fleet!ACMCommonPanelQueries6,
          {"AlertTypeOverTime", "ClusterAffectedOverTime", "AlertsAndClusters"},
          {"severity"})
     /\ Scoped(Fleet!ACMCommonPanelQueries6,
          {"TotalAlerts", "TotalCriticalAlerts", "TotalWarningAlerts",
           "TotalModerateAlerts", "TotalLowAlerts", "TotalImportantAlerts"},
          {})
     /\ Labelled(Fleet!ACMCommonPanelQueries6, {"AlertsAndClusters"}, "alertname")
  BY DEF Scoped, Labelled, Carries, AnyLabel, Fleet!ACMCommonPanelQueries6, Fleet!++,
         Fleet!Query, Fleet!Row
<1>7. \A k \in DOMAIN Fleet!ACMCommonPanelQueries1 :
          Fleet!ACMCommonPanelQueries[k] = Fleet!ACMCommonPanelQueries1[k]
  BY <1>1 DEF Fleet!ACMCommonPanelQueries, Fleet!++
<1>8. \A k \in DOMAIN Fleet!ACMCommonPanelQueries2 :
          Fleet!ACMCommonPanelQueries[k] = Fleet!ACMCommonPanelQueries2[k]
  BY <1>1, <1>2 DEF Fleet!ACMCommonPanelQueries, Fleet!++
<1>9. \A k \in DOMAIN Fleet!ACMCommonPanelQueries3 :
          Fleet!ACMCommonPanelQueries[k] = Fleet!ACMCommonPanelQueries3[k]
  BY <1>1, <1>2, <1>3 DEF Fleet!ACMCommonPanelQueries, Fleet!++
<1>10. \A k \in DOMAIN Fleet!ACMCommonPanelQueries4 :
           Fleet!ACMCommonPanelQueries[k] = Fleet!ACMCommonPanelQueries4[k]
  BY <1>1, <1>2, <1>3, <1>4 DEF Fleet!ACMCommonPanelQueries, Fleet!++
<1>11. \A k \in DOMAIN Fleet!ACMCommonPanelQueries5 :
           Fleet!ACMCommonPanelQueries[k] = Fleet!ACMCommonPanelQueries5[k]
  BY <1>1, <1>2, <1>3, <1>4, <1>5 DEF Fleet!ACMCommonPanelQueries, Fleet!++
<1>12. \A k \in DOMAIN Fleet!ACMCommonPanelQueries6 :
           Fleet!ACMCommonPanelQueries[k] = Fleet!ACMCommonPanelQueries6[k]
  BY <1>1, <1>2, <1>3, <1>4, <1>5, <1>6 DEF Fleet!ACMCommonPanelQueries, Fleet!++
<1> QED
  BY <1>1, <1>2, <1>3, <1>4, <1>5, <1>6, <1>7, <1>8, <1>9, <1>10, <1>11, <1>12 DEF Scoped,
         Labelled

\* The queries of the cardinality dashboards, likewise.
LEMMA CardinalityTables ==
  /\ Scoped(Fleet!CardinalityQueries,
       {"ClusterOutliersCount", "MetricOutliersCount", "ExcludedClustersCount",
        "ExcludedClustersList", "ClusterCardinalityOverTime", "MetricCardinalityOverTime",
        "GlobalRulesOverTime", "TotalCardinalityOverTime", "ClusterOutliersTable",
        "MetricOutliersTable", "ClusterCardinalityNow", "MetricCardinalityNow",
        "GlobalRulesNow"},
       {})
  /\ Scoped(Fleet!CardinalityQueries,
       {"ClusterByNamespaceOverTime", "ClusterNonNamespacedOverTime",
        "ClusterByNamespaceTable"},
       {"cluster"})
  /\ Scoped(Fleet!CardinalityQueries,
       {"ClusterByPodOverTime", "ClusterNoPodOverTime", "ClusterByPodTable"},
       {"cluster", "namespace"})
  /\ Scoped(Fleet!CardinalityQueries,
       {"ClusterInPodOverTime", "ClusterInPodTable"},
       {"cluster", "namespace", "pod"})
  /\ Scoped(Fleet!CardinalityQueries,
       {"ClusterRawTimeseries", "NameRawTimeseries"},
       {"cluster", "metric_name", "namespace", "pod"})
  /\ Scoped(Fleet!CardinalityQueries,
       {"NameByClusterOverTime", "NameByClusterTable"},
       {"metric_name"})
  /\ Scoped(Fleet!CardinalityQueries,
       {"NameByNamespaceOverTime", "NameNonNamespacedOverTime", "NameByNamespaceTable"},
       {"cluster", "metric_name"})
  /\ Scoped(Fleet!CardinalityQueries,
       {"NameByPodOverTime", "NameNoPodOverTime", "NameByPodTable"},
       {"cluster", "metric_name", "namespace"})
  /\ Labelled(Fleet!CardinalityQueries,
       {"ClusterOutliersTable", "ClusterCardinalityNow", "NameByClusterTable"},
       "cluster")
  /\ Labelled(Fleet!CardinalityQueries,
       {"MetricOutliersTable", "MetricCardinalityNow", "GlobalRulesNow"},
       "metric_name")
  /\ Labelled(Fleet!CardinalityQueries,
       {"ClusterByNamespaceTable", "NameByNamespaceTable"},
       "namespace")
  /\ Labelled(Fleet!CardinalityQueries, {"ClusterByPodTable", "NameByPodTable"}, "pod")
  /\ Labelled(Fleet!CardinalityQueries, {"ClusterInPodTable"}, "__name__")
<1>1. DOMAIN Fleet!CardinalityQueries1 =
       {"ClusterOutliersCount", "MetricOutliersCount", "ExcludedClustersCount",
        "ExcludedClustersList", "ClusterCardinalityOverTime", "ClusterCardinality7dAgo",
        "ClusterCardinality30dAgo", "MetricCardinalityOverTime", "MetricCardinality7dAgo",
        "MetricCardinality30dAgo", "GlobalRulesOverTime", "GlobalRules7dAgo",
        "GlobalRules30dAgo", "TotalCardinalityOverTime", "ClusterOutliersTable",
        "MetricOutliersTable", "ClusterCardinalityNow", "MetricCardinalityNow",
        "GlobalRulesNow", "ClusterByNamespaceOverTime", "ClusterNonNamespacedOverTime",
        "ClusterByNamespaceTable", "ClusterByPodOverTime", "ClusterNoPodOverTime",
        "ClusterByPodTable", "ClusterInPodOverTime", "ClusterInPodTable",
        "ClusterRawTimeseries", "NameByClusterOverTime", "NameByClusterTotalTable",
        "NameByClusterTable"}
  BY DEF Fleet!CardinalityQueries1, Fleet!++
<1>2. Scoped(Fleet!CardinalityQueries1,
       {"ClusterOutliersCount", "MetricOutliersCount", "ExcludedClustersCount",
        "ExcludedClustersList", "ClusterCardinalityOverTime", "MetricCardinalityOverTime",
        "GlobalRulesOverTime", "TotalCardinalityOverTime", "ClusterOutliersTable",
        "MetricOutliersTable", "ClusterCardinalityNow", "MetricCardinalityNow",
        "GlobalRulesNow"},
       {})
  BY DEF Scoped, Fleet!CardinalityQueries1, Fleet!++, Fleet!AnyRow, Fleet!Query, Fleet!Row
<1>3. Scoped(Fleet!CardinalityQueries1,
       {"ClusterByNamespaceOverTime", "ClusterNonNamespacedOverTime",
        "ClusterByNamespaceTable"},
       {"cluster"})
  BY DEF Scoped, Fleet!CardinalityQueries1, Fleet!++, Fleet!Query, Fleet!Row
<1>4. Scoped(Fleet!CardinalityQueries1,
       {"ClusterByPodOverTime", "ClusterNoPodOverTime", "ClusterByPodTable"},
       {"cluster", "namespace"})
  BY DEF Scoped, Fleet!CardinalityQueries1, Fleet!++, Fleet!Query, Fleet!Row
<1>5. Scoped(Fleet!CardinalityQueries1,
       {"ClusterInPodOverTime", "ClusterInPodTable"},
       {"cluster", "namespace", "pod"})
  BY DEF Scoped, Fleet!CardinalityQueries1, Fleet!++, Fleet!Query, Fleet!Row
<1>6. Scoped(Fleet!CardinalityQueries1,
       {"ClusterRawTimeseries"},
       {"cluster", "metric_name", "namespace", "pod"})
  BY DEF Scoped, Fleet!CardinalityQueries1, Fleet!++, Fleet!Query
<1>7. Scoped(Fleet!CardinalityQueries1,
       {"NameByClusterOverTime", "NameByClusterTable"},
       {"metric_name"})
  BY DEF Scoped, Fleet!CardinalityQueries1, Fleet!++, Fleet!Query, Fleet!Row
<1>8. Labelled(Fleet!CardinalityQueries1,
       {"ClusterOutliersTable", "ClusterCardinalityNow"},
       "cluster")
  BY DEF Labelled, Carries, AnyLabel, Fleet!AnyLabel, Fleet!CardinalityQueries1, Fleet!++,
         Fleet!AnyRow, Fleet!Row
<1>9. Labelled(Fleet!CardinalityQueries1, {"NameByClusterTable"}, "cluster")
  BY DEF Labelled, Carries, AnyLabel, Fleet!AnyLabel, Fleet!CardinalityQueries1, Fleet!++,
         Fleet!Row
<1>10. Labelled(Fleet!CardinalityQueries1,
       {"MetricOutliersTable", "MetricCardinalityNow", "GlobalRulesNow"},
       "metric_name")
  BY DEF Labelled, Carries, AnyLabel, Fleet!AnyLabel, Fleet!CardinalityQueries1, Fleet!++,
         Fleet!AnyRow, Fleet!Row
<1>11. Labelled(Fleet!CardinalityQueries1, {"ClusterByNamespaceTable"}, "namespace")
  BY DEF Labelled, Carries, AnyLabel, Fleet!AnyLabel, Fleet!CardinalityQueries1, Fleet!++,
         Fleet!Row
<1>12. Labelled(Fleet!CardinalityQueries1, {"ClusterByPodTable"}, "pod")
  BY DEF Labelled, Carries, AnyLabel, Fleet!AnyLabel, Fleet!CardinalityQueries1, Fleet!++,
         Fleet!Row
<1>13. Labelled(Fleet!CardinalityQueries1, {"ClusterInPodTable"}, "__name__")
  BY DEF Labelled, Carries, AnyLabel, Fleet!AnyLabel, Fleet!CardinalityQueries1, Fleet!++,
         Fleet!Row
<1>14. /\ DOMAIN Fleet!CardinalityQueries2 =
          {"NameByNamespaceOverTime", "NameNonNamespacedOverTime", "NameByNamespaceTable",
           "NameByPodOverTime", "NameNoPodOverTime", "NameByPodTable", "NameRawTimeseries"}
     /\ Scoped(Fleet!CardinalityQueries2,
          {"NameRawTimeseries"},
          {"cluster", "metric_name", "namespace", "pod"})
     /\ Scoped(Fleet!CardinalityQueries2,
          {"NameByNamespaceOverTime", "NameNonNamespacedOverTime", "NameByNamespaceTable"},
          {"cluster", "metric_name"})
     /\ Scoped(Fleet!CardinalityQueries2,
          {"NameByPodOverTime", "NameNoPodOverTime", "NameByPodTable"},
          {"cluster", "metric_name", "namespace"})
     /\ Labelled(Fleet!CardinalityQueries2, {"NameByNamespaceTable"}, "namespace")
     /\ Labelled(Fleet!CardinalityQueries2, {"NameByPodTable"}, "pod")
  BY DEF Scoped, Labelled, Carries, AnyLabel, Fleet!CardinalityQueries2, Fleet!Query,
         Fleet!Row
<1>15. \A k \in DOMAIN Fleet!CardinalityQueries1 :
           Fleet!CardinalityQueries[k] = Fleet!CardinalityQueries1[k]
  BY <1>1 DEF Fleet!CardinalityQueries, Fleet!++
<1>16. \A k \in DOMAIN Fleet!CardinalityQueries2 :
           Fleet!CardinalityQueries[k] = Fleet!CardinalityQueries2[k]
  BY <1>1, <1>14 DEF Fleet!CardinalityQueries, Fleet!++
<1> QED
  BY <1>1, <1>2, <1>3, <1>4, <1>5, <1>6, <1>7, <1>8, <1>9, <1>10, <1>11, <1>12, <1>13, <1>14,
     <1>15, <1>16
  DEF Scoped, Labelled

\* The queries of the hosted control planes.
LEMMA HostedControlPlaneQueries ==
  /\ Scoped(HCP!HCPPanelQueries,
       {"WorkerNodeCapacities", "HCPStatusUnavailable", "HCPStatusAvailable",
        "RequestBasedHCPCapacity", "QPSSettings", "QPSBasedCapacityLow",
        "QPSBasedCapacityMedium", "QPSBasedCapacityHigh", "QPSBasedCapacityAverage",
        "HCPList"},
       {})
  /\ Scoped(HCP!HCPPanelQueries,
       {"HCPPodCount", "HCPCPUUsageByPod", "HCPCPURequestsPercent", "HCPCPURequests",
        "HCPCPUUsage", "HCPMemoryRequestsPercent", "HCPMemoryUsageByPod",
        "HCPMemoryRequests", "HCPMemoryUsage"},
       {"hcp_ns"})
  BY DEF Scoped, HCP!HCPPanelQueries, HCP!HCPPanelQueries1, HCP!HCPPanelQueries2, HCP!++,
         HCP!Query

\* The queries of the service levels of the fleet, and the label that its table links by.
LEMMA SLOFleetQueries ==
  /\ Scoped(SLO!FleetQueries,
       {"ClustersExceededSLO", "ClustersMeetingSLO"},
       {"cluster", "window"})
  /\ Scoped(SLO!FleetQueries,
       {"TopClustersSLO", "TopClustersErrorBudget"},
       {"cluster", "top", "window"})
  /\ Scoped(SLO!FleetQueries, {"TopClustersSLITrend"}, {"cluster", "top"})
  /\ Scoped(SLO!FleetQueries, {"TargetThreshold"}, {})
  /\ Labelled(SLO!FleetQueries, {"TopClustersSLO"}, "cluster")
  BY DEF Scoped, Labelled, Carries, AnyLabel, SLO!AnyLabel, SLO!FleetQueries, SLO!AnyRow,
         SLO!Query, SLO!Row

\* The queries of the service levels of a cluster.
LEMMA SLOClusterQueries ==
  /\ Scoped(SLO!ClusterQueries,
       {"SLIBinTrend", "SLO7d", "SLO30d", "ErrorBudget7d", "ErrorBudget30d",
        "DowntimeRemaining7d", "DowntimeRemaining30d", "SLITrend"},
       {"cluster"})
  /\ Scoped(SLO!ClusterQueries, {"DayOfWeek", "DayOfMonth", "TargetThreshold"}, {})
  BY DEF Scoped, SLO!ClusterQueries, SLO!++, SLO!Query

\* The queries of the networking of a cluster; those of TCP read the interval, too.
LEMMA NetworkingClusterQueries ==
  /\ Scoped(Networking!ClusterQueries,
       {"ReceiveBandwidthByNamespace", "TransmitBandwidthByNamespace",
        "ReceivedPacketsByNamespace", "TransmittedPacketsByNamespace",
        "ReceivedPacketsDroppedByNamespace", "TransmittedPacketsDroppedByNamespace",
        "TableReceiveBandwidthByNamespace", "TableTransmitBandwidthByNamespace",
        "TableReceivedPacketsByNamespace", "TableTransmittedPacketsByNamespace",
        "TableReceivedPacketsDroppedByNamespace",
        "TableTransmittedPacketsDroppedByNamespace"},
       {"cluster"})
  /\ Scoped(Networking!ClusterQueries,
       {"TCPRetransmits", "TCPSynRetransmits"},
       {"cluster", "interval", "resolution"})
  BY DEF Scoped, Networking!ClusterQueries, Networking!ClusterQueries1,
         Networking!ClusterQueries2, Networking!++, Networking!Query, Networking!Row

\* The queries of the networking of a namespace.
LEMMA NetworkingNamespacePodsQueries ==
  Scoped(Networking!NamespacePodsQueries,
    {"ReceiveBandwidth", "TransmitBandwidth", "ReceivedPackets", "TransmittedPackets",
     "ReceivedPacketsDropped", "TransmittedPacketsDropped", "ReceiveBandwidthTS",
     "TransmitBandwidthTS", "ReceivedPacketsTS", "TransmittedPacketsTS",
     "ReceivedPacketsDroppedTS", "TransmittedPacketsDroppedTS", "TotalReceiveBandwidth",
     "TotalTransmitBandwidth"},
    {"cluster", "namespace"})
  BY DEF Scoped, Networking!NamespacePodsQueries, Networking!++, Networking!Query,
         Networking!Row

\* The queries of the networking of the nodes.
LEMMA NetworkingNodeQueries ==
  Scoped(Networking!NodeQueries,
    {"ReceiveBandwidthByInstance", "TransmitBandwidthByInstance", "ReceivedDropByInstance",
     "TransmittedDropByInstance"},
    {"cluster"})
  BY DEF Scoped, Networking!NodeQueries, Networking!Query

\* The queries of the networking of a pod.
LEMMA NetworkingPodQueries ==
  Scoped(Networking!PodQueries,
    {"ReceiveBandwidth", "TransmitBandwidth", "ReceivedPackets", "TransmittedPackets",
     "ReceivedPacketsDropped", "TransmittedPacketsDropped"},
    {"cluster", "namespace", "pod"})
  BY DEF Scoped, Networking!PodQueries, Networking!Query

\* The queries of the compute resources of a cluster.
LEMMA ComputeClusterQueries ==
  /\ Scoped(Compute!ClusterQueries,
       {"CPURequestsCommitment", "CPULimitsCommitment", "MemoryUtilisation",
        "MemoryRequestsCommitment", "MemoryLimitsCommitment", "CPUUsageByNamespace",
        "MemoryUsageByNamespace", "TablePodsByNamespace", "TableWorkloadsByNamespace",
        "TableCPUUsageByNamespace", "TableCPURequestsByNamespace",
        "TableCPURequestsPercentByNamespace", "TableCPULimitsByNamespace",
        "TableCPULimitsPercentByNamespace", "TableMemoryUsageByNamespace",
        "TableMemoryRequestsByNamespace", "TableMemoryRequestsPercentByNamespace",
        "TableMemoryLimitsByNamespace", "TableMemoryLimitsPercentByNamespace"},
       {"cluster"})
  /\ Scoped(Compute!ClusterQueries, {"CPUUtilisation"}, {})
  BY DEF Scoped, Compute!ClusterQueries, Compute!ClusterQueries1, Compute!ClusterQueries2,
         Compute!++, Compute!AnyRow, Compute!Query, Compute!Row

\* The queries of the compute resources of a namespace, by pod.
LEMMA ComputeNamespacePodsQueries ==
  Scoped(Compute!NamespacePodsQueries,
    {"CPUUtilisationFromRequests", "CPUUtilisationFromLimits",
     "MemoryUtilisationFromRequests", "MemoryUtilisationFromLimits", "CPUUsageByPod",
     "CPUQuotaRequests", "CPUQuotaLimits", "MemoryUsageByPod", "MemoryQuotaRequests",
     "TableCPUUsageByPod", "TableCPURequestsByPod", "TableCPURequestsPercentByPod",
     "TableCPULimitsByPod", "TableCPULimitsPercentByPod", "TableMemoryUsageByPod",
     "TableMemoryRequestsByPod", "TableMemoryRequestsPercentByPod",
     "TableMemoryLimitsByPod", "MemoryQuotaLimits", "TableMemoryLimitsPercentByPod",
     "TableMemoryRSSByPod", "TableMemoryCacheByPod", "TableMemorySwapByPod"},
    {"cluster", "namespace"})
  BY DEF Scoped, Compute!NamespacePodsQueries, Compute!NamespacePodsQueries1,
         Compute!NamespacePodsQueries2, Compute!NamespacePodsQueries3, Compute!++,
         Compute!Query, Compute!Row

\* The queries of the compute resources of a namespace, by workload: all read the type.
LEMMA ComputeNamespaceWorkloadsQueries ==
  Scoped(Compute!NamespaceWorkloadsQueries,
    {"TableRunningPods", "TableCPUUsageByWorkload", "TableCPURequestsByWorkload",
     "TableCPURequestsPercentByWorkload", "TableCPULimitsByWorkload",
     "TableCPULimitsPercentByWorkload", "TableMemoryUsageByWorkload",
     "TableMemoryRequestsByWorkload", "TableMemoryRequestsPercentByWorkload",
     "TableMemoryLimitsByWorkload", "TableMemoryLimitsPercentByWorkload",
     "CPUUsageByWorkload", "MemoryUsageByWorkload"},
    {"cluster", "namespace", "type"})
  BY DEF Scoped, Compute!NamespaceWorkloadsQueries, Compute!++, Compute!Query, Compute!Row,
         Compute!WorkloadScope

\* The queries of the compute resources of a node.
LEMMA ComputeNodePodsQueries ==
  Scoped(Compute!NodePodsQueries,
    {"CPUUsageByPod", "MemoryUsageByPod", "TableCPUUsageByPod", "TableCPURequestsByPod",
     "TableCPURequestsPercentByPod", "TableCPULimitsByPod", "TableCPULimitsPercentByPod",
     "TableMemoryUsageByPod", "TableMemoryRequestsByPod", "TableMemoryRequestsPercentByPod",
     "TableMemoryLimitsByPod", "TableMemoryLimitsPercentByPod", "TableMemoryRSSByPod",
     "TableMemoryCacheByPod", "TableMemorySwapByPod"},
    {"cluster", "node"})
  BY DEF Scoped, Compute!NodePodsQueries, Compute!NodePodsQueries1,
         Compute!NodePodsQueries2, Compute!++, Compute!Query

\* The queries of the compute resources of a pod.
LEMMA ComputePodQueries ==
  Scoped(Compute!PodQueries,
    {"CPUUsageByContainer", "CPURequestsOverlay", "CPULimitsOverlay", "CPUThrottling",
     "MemoryUsageByContainer", "MemoryRequestsOverlay", "MemoryLimitsOverlay",
     "TableCPUUsageByContainer", "TableCPURequestsByContainer",
     "TableCPURequestsPercentByContainer", "TableCPULimitsByContainer",
     "TableCPULimitsPercentByContainer", "TableMemoryUsageByContainer",
     "TableMemoryRequestsByContainer", "TableMemoryRequestsPercentByContainer",
     "TableMemoryLimitsByContainer", "TableMemoryLimitsPercentByContainer",
     "TableMemoryRSSByContainer", "TableMemoryCacheByContainer",
     "TableMemorySwapByContainer"},
    {"cluster", "namespace", "pod"})
  BY DEF Scoped, Compute!PodQueries, Compute!PodQueries1, Compute!PodQueries2,
         Compute!PodQueries3, Compute!++, Compute!Query

\* The queries of the compute resources of a workload.
LEMMA ComputeWorkloadQueries ==
  Scoped(Compute!WorkloadQueries,
    {"TableCPUUsageByPod", "TableCPURequestsByPod", "TableCPURequestsPercentByPod",
     "TableCPULimitsByPod", "TableCPULimitsPercentByPod", "TableMemoryUsageByPod",
     "TableMemoryRequestsByPod", "TableMemoryRequestsPercentByPod",
     "TableMemoryLimitsByPod", "TableMemoryLimitsPercentByPod", "CPUUsageByPod",
     "MemoryUsageByPod"},
    {"cluster", "namespace", "type", "workload"})
  BY DEF Scoped, Compute!WorkloadQueries, Compute!++, Compute!Query, Compute!Row,
         Compute!PodsOfWorkloadScope, Compute!WorkloadScope

-----------------------------------------------------------------------------
(* The dashboards of the fleet, and of the incidents.                      *)

\* BuildClusterResourceUse has every selector that it reads, and no links.
LEMMA ClusterResourceUse ==
  /\ Page(BuildClusterResourceUse, "acm-cluster-rsrc-use", {})
  /\ Unlinked(BuildClusterResourceUse)
  BY DEF BuildClusterResourceUse, Page, Complete, Supplied, Unlinked, Dashboard, Selector,
         Fleet!Linked, Fleet!Panel, Fleet!Query, Fleet!CPUUtilization, Fleet!CPUSaturation,
         Fleet!MemoryUtilization, Fleet!MemorySaturation, Fleet!NetworkUtilization,
         Fleet!NetworkSaturation, Fleet!DiskIOUtilization, Fleet!DiskIOSaturation,
         Fleet!DiskSpaceUtilization

\* BuildNodeResourceUse, likewise.
LEMMA NodeResourceUse ==
  Page(BuildNodeResourceUse, "acm-node-rsrc-use", {}) /\ Unlinked(BuildNodeResourceUse)
  BY DEF BuildNodeResourceUse, Page, Complete, Supplied, Unlinked, Dashboard, Selector,
         SelectorWithAll, Fleet!Linked, Fleet!Panel, Fleet!Query, Fleet!NodeCPUUtilization,
         Fleet!NodeCPUSaturation, Fleet!NodeMemoryUtilization, Fleet!NodeMemorySaturation,
         Fleet!NodeNetworkUtilization, Fleet!NodeNetworkSaturation,
         Fleet!NodeDiskIOUtilization, Fleet!NodeDiskIOSaturation,
         Fleet!NodeDiskSpaceUtilization

\* BuildACMOptimizationOverview, likewise.
LEMMA OptimizationOverview ==
  /\ Page(BuildACMOptimizationOverview, "acm-optimization-overview", {})
  /\ Unlinked(BuildACMOptimizationOverview)
  BY CommonPanelQueries DEF BuildACMOptimizationOverview, Page, Complete, Supplied,
         Unlinked, Scoped, Dashboard, Selector, Fleet!Linked, Fleet!Panel,
         Fleet!CPUOverestimationPanel, Fleet!CPURequestsCommitmentPanel,
         Fleet!CPUUtilizationPanel, Fleet!CPUUsagePanel, Fleet!CPUQuotaPanel,
         Fleet!MemoryOverestimationPanel, Fleet!MemoryRequestsCommitmentPanel,
         Fleet!MemoryUtilizationPanel, Fleet!MemoryUsagePanel,
         Fleet!MemoryRequestsByNamespacePanel, Fleet!NetworkingCurrentStatusPanel

\* BuildACMClustersOverview has every selector that it reads.
LEMMA ClustersOverview ==
  Page(BuildACMClustersOverview, "acm-clusters-overview", {})
  BY CommonPanelQueries DEF BuildACMClustersOverview, Page, Complete, Supplied, Scoped,
         Dashboard, Selector, SelectorWithAll, Fleet!Linked, Fleet!Panel,
         Fleet!Top50MaxLatencyAPIServer, Fleet!EtcdHealth,
         Fleet!Top50CPUOverEstimationClusters, Fleet!Top50MemoryOverEstimationClusters,
         Fleet!Top50MemoryUtilizedClusters, Fleet!Top5MemoryUtilizationGraph,
         Fleet!Top50CPUUtilizedClusters, Fleet!Top5CPUUtilizationGraph,
         Fleet!BandwidthUtilization

\* BuildACMAlertAnalysis has every selector that it reads.
LEMMA AlertAnalysis ==
  Page(BuildACMAlertAnalysis, "acm-alert-analysis", {})
  BY CommonPanelQueries DEF BuildACMAlertAnalysis, Page, Complete, Supplied, Scoped,
         Dashboard, Selector, SelectorWithAll, Fleet!Linked, Fleet!Panel, Fleet!TotalAlerts,
         Fleet!TotalCriticalAlerts, Fleet!TotalWarningAlerts, Fleet!TotalModerateAlerts,
         Fleet!TotalLowAlerts, Fleet!TotalImportantAlerts, Fleet!AlertTypeOverTime,
         Fleet!ClusterAffectedOverTime, Fleet!AlertsAndClusters, Fleet!MostFiringAlerts,
         Fleet!MostAffectedClusters

\* BuildACMAlertsByCluster has every selector that it reads, and no links.
LEMMA AlertsByCluster ==
  /\ Page(BuildACMAlertsByCluster, "acm-alerts-by-cluster", {})
  /\ Unlinked(BuildACMAlertsByCluster)
  BY CommonPanelQueries DEF BuildACMAlertsByCluster, Page, Complete, Supplied, Unlinked,
         Scoped, Dashboard, Selector, SelectorWithAll, Fleet!Linked, Fleet!Panel,
         Fleet!AlertSeverity, Fleet!FiringAlertsTrend, Fleet!PendingAlertsTrend,
         Fleet!AlertsOverTime

\* BuildACMClustersByAlert, likewise.
LEMMA ClustersByAlert ==
  /\ Page(BuildACMClustersByAlert, "acm-clusters-by-alert", {})
  /\ Unlinked(BuildACMClustersByAlert)
  BY CommonPanelQueries DEF BuildACMClustersByAlert, Page, Complete, Supplied, Unlinked,
         Scoped, Dashboard, Selector, SelectorWithAll, Fleet!Linked, Fleet!Panel,
         Fleet!ClustersWithAlertSeverity

\* BuildACMHCPOverview, likewise: it has no selectors and reads none.
LEMMA HCPOverview ==
  Page(BuildACMHCPOverview, "acm-hcp-overview", {}) /\ Unlinked(BuildACMHCPOverview)
  BY HostedControlPlaneQueries DEF BuildACMHCPOverview, Page, Complete, Supplied, Unlinked,
         Scoped, Dashboard, Selector, HCP!Linked, HCP!Panel, HCP!Note,
         HCP!RequestBasedLimitEstimation, HCP!WorkerNodeCapacities,
         HCP!NumberOfHCPsRequestBased, HCP!LoadBasedLimitEstimation, HCP!QPSSettings,
         HCP!NumberOfHCPsQPSBased, HCP!HCPList

\* BuildACMHCPResources, likewise.
LEMMA HCPResources ==
  Page(BuildACMHCPResources, "acm-hcp-resources", {}) /\ Unlinked(BuildACMHCPResources)
  BY HostedControlPlaneQueries DEF BuildACMHCPResources, Page, Complete, Supplied, Unlinked,
         Scoped, Dashboard, Selector, HCP!Linked, HCP!Panel, HCP!HCPPodCount,
         HCP!HCPCPUUsageGraph, HCP!HCPCPURequestsPercent, HCP!HCPCPURequests,
         HCP!HCPCPUUsage, HCP!HCPMemoryRequestsPercent, HCP!HCPMemoryUsageGraph,
         HCP!HCPMemoryRequests, HCP!HCPMemoryUsage

\* BuildSLOAPIServer has every selector that it reads.
LEMMA SLOAPIServer ==
  Page(BuildSLOAPIServer, "k8s-slo-api-server", {})
  BY SLOFleetQueries DEF BuildSLOAPIServer, Page, Complete, Supplied, Scoped, Dashboard,
         Selector, SelectorWithAll, Text, SLO!Linked, SLO!Panel,
         SLO!FleetClustersExceededSLO, SLO!FleetClustersMeetingSLO, SLO!FleetTopClusters,
         SLO!FleetSLITrend

\* BuildSLOAPIServerCluster has every selector that it reads, and no links.
LEMMA SLOAPIServerCluster ==
  /\ Page(BuildSLOAPIServerCluster, "k8s-slo-api-server-cluster", {})
  /\ Unlinked(BuildSLOAPIServerCluster)
  BY SLOClusterQueries DEF BuildSLOAPIServerCluster, Page, Complete, Supplied, Unlinked,
         Scoped, Dashboard, Selector, SLO!Linked, SLO!Panel, SLO!ClusterTarget,
         SLO!ClusterPast7Days, SLO!ClusterPast30Days, SLO!ClusterDayOfWeek,
         SLO!ClusterErrorBudget7d, SLO!ClusterDowntimeRemaining7d, SLO!ClusterDayOfMonth,
         SLO!ClusterErrorBudget30d, SLO!ClusterDowntimeRemaining30d, SLO!ClusterSLITrend,
         SLO!ClusterSLITable

\* BuildNetworkingCluster has every selector that it reads, the interval and the
\* resolution of its TCP panels among them.
LEMMA NetworkingCluster ==
  Page(BuildNetworkingCluster, "k8s-networking-cluster", {})
  BY NetworkingClusterQueries DEF BuildNetworkingCluster, Page, Complete, Supplied, Scoped,
         Dashboard, Selector, GetClusterVariable, Text, Networking!Linked, Networking!Panel,
         Networking!ClusterCurrentBytesReceived, Networking!ClusterCurrentBytesTransmitted,
         Networking!ClusterCurrentStatus, Networking!ClusterReceiveBandwidth,
         Networking!ClusterTransmitBandwidth, Networking!ClusterReceivedPackets,
         Networking!ClusterTransmittedPackets, Networking!ClusterReceivedPacketsDropped,
         Networking!ClusterTransmittedPacketsDropped, Networking!ClusterTCPRetransmits,
         Networking!ClusterTCPSynRetransmits

\* BuildNetworkingNamespacePods has every selector that it reads.
LEMMA NetworkingNamespacePods ==
  Page(BuildNetworkingNamespacePods, "k8s-networking-namespace-pods", {})
  BY NetworkingNamespacePodsQueries DEF BuildNetworkingNamespacePods, Page, Complete,
         Supplied, Scoped, Dashboard, Selector, GetClusterVariable, GetNamespaceVariable,
         Text, Networking!Linked, Networking!Panel,
         Networking!NamespacePodsCurrentBytesReceived,
         Networking!NamespacePodsCurrentBytesTransmitted,
         Networking!NamespacePodsCurrentStatus, Networking!NamespacePodsReceiveBandwidth,
         Networking!NamespacePodsTransmitBandwidth, Networking!NamespacePodsReceivedPackets,
         Networking!NamespacePodsTransmittedPackets,
         Networking!NamespacePodsReceivedPacketsDropped,
         Networking!NamespacePodsTransmittedPacketsDropped

\* BuildNetworkingNode has every selector that it reads, and no links.
LEMMA NetworkingNode ==
  Page(BuildNetworkingNode, "k8s-networking-node", {}) /\ Unlinked(BuildNetworkingNode)
  BY NetworkingClusterQueries, NetworkingNodeQueries DEF BuildNetworkingNode, Page,
         Complete, Supplied, Unlinked, Scoped, Dashboard, Selector, GetClusterVariable,
         Text, Networking!Linked, Networking!Panel, Networking!NodeCurrentBytesReceived,
         Networking!NodeCurrentBytesTransmitted, Networking!NodeCurrentStatus,
         Networking!NodeReceivedPacketsDropped, Networking!NodeTransmittedPacketsDropped,
         Networking!NodeTCPRetransmits, Networking!NodeTCPSynRetransmits

\* BuildNetworkingPod, likewise.
LEMMA NetworkingPod ==
  Page(BuildNetworkingPod, "k8s-networking-pod", {}) /\ Unlinked(BuildNetworkingPod)
  BY NetworkingPodQueries DEF BuildNetworkingPod, Page, Complete, Supplied, Unlinked,
         Scoped, Dashboard, Selector, GetClusterVariable, GetNamespaceVariable,
         GetPodVariable, Text, Networking!Linked, Networking!Panel,
         Networking!PodCurrentBytesReceived, Networking!PodCurrentBytesTransmitted,
         Networking!PodReceiveBandwidth, Networking!PodTransmitBandwidth,
         Networking!PodReceivedPackets, Networking!PodTransmittedPackets,
         Networking!PodReceivedPacketsDropped, Networking!PodTransmittedPacketsDropped

\* BuildComputeCluster has every selector that it reads.
LEMMA ComputeCluster ==
  Page(BuildComputeCluster, "k8s-compute-resources-cluster", {})
  BY ComputeClusterQueries DEF BuildComputeCluster, Page, Complete, Supplied, Scoped,
         Dashboard, Selector, GetClusterVariable, Compute!Linked, Compute!Panel,
         Compute!ClusterCPUUtilisation, Compute!ClusterCPURequestsCommitment,
         Compute!ClusterCPULimitsCommitment, Compute!ClusterMemoryUtilisation,
         Compute!ClusterMemoryRequestsCommitment, Compute!ClusterMemoryLimitsCommitment,
         Compute!ClusterCPUUsage, Compute!ClusterCPUQuota, Compute!ClusterMemoryUsage,
         Compute!ClusterMemoryQuota

\* BuildComputeNamespacePods has every selector that it reads.
LEMMA ComputeNamespacePods ==
  Page(BuildComputeNamespacePods, "k8s-compute-resources-namespace-pods", {})
  BY ComputeNamespacePodsQueries DEF BuildComputeNamespacePods, Page, Complete, Supplied,
         Scoped, Dashboard, Selector, GetClusterVariable, GetNamespaceVariable,
         Compute!Linked, Compute!Panel, Compute!NamespacePodsCPUUtilisationFromRequests,
         Compute!NamespacePodsCPUUtilisationFromLimits,
         Compute!NamespacePodsMemoryUtilisationFromRequests,
         Compute!NamespacePodsMemoryUtilisationFromLimits, Compute!NamespacePodsCPUUsage,
         Compute!NamespacePodsCPUQuota, Compute!NamespacePodsMemoryUsage,
         Compute!NamespacePodsMemoryQuota

\* BuildComputeNamespaceWorkloads reads no series of right-sizing; it is not complete: see
\* NeverLoadsPage.
LEMMA ComputeNamespaceWorkloads ==
  /\ BuildComputeNamespaceWorkloads.name = "k8s-compute-resources-namespace-workloads"
  /\ Supplied(BuildComputeNamespaceWorkloads, {})
  BY ComputeNamespaceWorkloadsQueries DEF BuildComputeNamespaceWorkloads, Supplied, Scoped,
         Dashboard, Selector, GetClusterVariable, GetNamespaceVariable, GetTypeVariable,
         Compute!Linked, Compute!Panel, Compute!NamespaceWorkloadsCPUUsage,
         Compute!NamespaceWorkloadsCPUQuota, Compute!NamespaceWorkloadsMemoryUsage,
         Compute!NamespaceWorkloadsMemoryQuota

\* BuildComputeNodePods has every selector that it reads, and no links.
LEMMA ComputeNodePods ==
  /\ Page(BuildComputeNodePods, "k8s-compute-resources-node-pods", {})
  /\ Unlinked(BuildComputeNodePods)
  BY ComputeNodePodsQueries DEF BuildComputeNodePods, Page, Complete, Supplied, Unlinked,
         Scoped, Dashboard, Selector, GetClusterVariable, GetNodeVariable, Compute!Linked,
         Compute!Panel, Compute!NodePodsCPUUsage, Compute!NodePodsCPUQuota,
         Compute!NodePodsMemoryUsage, Compute!NodePodsMemoryQuota

\* BuildComputePod, likewise.
LEMMA ComputePod ==
  Page(BuildComputePod, "k8s-compute-resources-pod", {}) /\ Unlinked(BuildComputePod)
  BY ComputePodQueries DEF BuildComputePod, Page, Complete, Supplied, Unlinked, Scoped,
         Dashboard, Selector, GetClusterVariable, GetNamespaceVariable, GetPodVariable,
         Compute!Linked, Compute!Panel, Compute!PodCPUUsage, Compute!PodCPUThrottling,
         Compute!PodCPUQuota, Compute!PodMemoryUsage, Compute!PodMemoryQuota

\* BuildComputeWorkload has every selector that it reads: the workload, here, too.
LEMMA ComputeWorkload ==
  Page(BuildComputeWorkload, "k8s-compute-resources-workload", {})
  BY ComputeWorkloadQueries DEF BuildComputeWorkload, Page, Complete, Supplied, Scoped,
         Dashboard, Selector, GetClusterVariable, GetNamespaceVariable, GetTypeVariable,
         GetWorkloadVariable, Compute!Linked, Compute!Panel, Compute!WorkloadCPUUsage,
         Compute!WorkloadCPUQuota, Compute!WorkloadMemoryUsage, Compute!WorkloadMemoryQuota

\* BuildACMMetricsCardinalityOverview has no selectors and reads none.
LEMMA MetricsCardinalityOverview ==
  Page(BuildACMMetricsCardinalityOverview, "acm-metrics-cardinality-overview", {})
  BY CardinalityTables DEF BuildACMMetricsCardinalityOverview, Page, Complete, Supplied,
         Scoped, Dashboard, Selector, Fleet!Linked, Fleet!Panel, Fleet!Note,
         Fleet!CardinalityDashboardGuide, Fleet!ExcludedClustersCount,
         Fleet!ExcludedClustersTable, Fleet!ExcludedClustersNote,
         Fleet!ClusterOutliersCount, Fleet!ClusterOutliersTable, Fleet!MetricOutliersCount,
         Fleet!MetricOutliersTable, Fleet!ClusterCardinalityOverTime,
         Fleet!ClusterCardinalityTable, Fleet!MetricCardinalityOverTime,
         Fleet!MetricCardinalityTable, Fleet!GlobalRecordingRulesOverTime,
         Fleet!GlobalRecordingRulesTable, Fleet!TotalCardinalityOverTime

\* BuildACMMetricsCardinalityCluster has every selector that it reads.
LEMMA MetricsCardinalityCluster ==
  Page(BuildACMMetricsCardinalityCluster, "acm-metrics-cardinality-cluster", {})
  BY CardinalityTables DEF BuildACMMetricsCardinalityCluster, Page, Complete, Supplied,
         Scoped, Dashboard, Selector, GetCardinalityClusterVariable,
         GetCardinalityNamespaceVariable, GetCardinalityPodMetricVariable,
         GetCardinalityPodVariable, Fleet!Linked, Fleet!Panel,
         Fleet!ClusterByNamespaceOverTime, Fleet!ClusterByNamespaceTable,
         Fleet!ClusterByPodOverTime, Fleet!ClusterByPodTable, Fleet!ClusterInPodOverTime,
         Fleet!ClusterInPodTable, Fleet!ClusterRawTimeseriesTable

\* BuildACMMetricsCardinalityName has every selector that it reads.
LEMMA MetricsCardinalityName ==
  Page(BuildACMMetricsCardinalityName, "acm-metrics-cardinality-name", {})
  BY CardinalityTables DEF BuildACMMetricsCardinalityName, Page, Complete, Supplied, Scoped,
         Dashboard, Selector, GetCardinalityClusterForMetricVariable,
         GetCardinalityMetricNameVariable, GetCardinalityNamespaceForNameVariable,
         GetCardinalityPodForNameVariable, Fleet!Linked, Fleet!Panel,
         Fleet!NameByClusterOverTime, Fleet!NameByClusterTable,
         Fleet!NameByNamespaceOverTime, Fleet!NameByNamespaceTable, Fleet!NameByPodOverTime,
         Fleet!NameByPodTable, Fleet!NameRawTimeseriesTable

\* BuildACMIncidentsOverview has every selector that it reads, and no links.
LEMMA IncidentsOverview ==
  /\ Page(BuildACMIncidentsOverview, "acm-incidents-overview", {})
  /\ Unlinked(BuildACMIncidentsOverview)
  BY DEF BuildACMIncidentsOverview, Page, Complete, Supplied, Unlinked, Dashboard, Selector,
         Incidents!Linked, Incidents!Panel, Incidents!Query, Incidents!ActiveIncidents,
         Incidents!IncidentCount

-----------------------------------------------------------------------------
(* The dashboards of right-sizing.                                         *)

\* The dashboard of the namespaces reads nothing but its selectors and the series that the
\* scrape config of the namespaces names.
LEMMA NamespaceRightSizing ==
  /\ Page(BuildNamespaceRightSizing, "acm-rs-namespace-overview", NamespaceMetrics)
  /\ Unlinked(BuildNamespaceRightSizing)
<1> DEFINE d == BuildNamespaceRightSizing
<1>1. /\ d.name = "acm-rs-namespace-overview"
      /\ d.selectors =
           [ cluster |-> SelectorOver({}, {<<"acm_rs", "cluster", "cpu_request">>}),
             profile |-> SelectorOver({"cluster"}, {<<"acm_rs", "namespace", "cpu_usage">>}),
             days |-> Text ]
  BY DEF BuildNamespaceRightSizing, Dashboard
<1>2. \A v \in DOMAIN d.selectors :
        /\ d.selectors[v].deps \subseteq DOMAIN d.selectors
        /\ d.selectors[v].series = {} \/ d.selectors[v].series \cap NamespaceMetrics # {}
  BY <1>1 DEF SelectorOver, Text, Selector, NamespaceMetrics, Metrics
<1>3. \A p \in d.panels :
        /\ p.links = {}
        /\ \A q \in p.queries :
             q.reads \subseteq {"cluster", "profile", "days"} /\ q.series \subseteq NamespaceMetrics
  BY DEF BuildNamespaceRightSizing, Dashboard, NamespaceMetrics, Metrics, RightSizing!Panel,
     RightSizing!Linked, RightSizing!Over, RightSizing!Query, RightSizing!NamespaceScope,
     RightSizing!TrendScope, RightSizing!ClusterSeries, RightSizing!NamespaceSeries,
     RightSizing!CPURecommendationPanel, RightSizing!CPUUsagePanel,
     RightSizing!CPURequestPanel, RightSizing!CPUUtilizationPanel,
     RightSizing!CPUTopNamespacesPanel, RightSizing!CPUQuotaTablePanel,
     RightSizing!MemRecommendationPanel, RightSizing!MemUsagePanel,
     RightSizing!MemRequestPanel, RightSizing!MemUtilizationPanel,
     RightSizing!MemTopNamespacesPanel, RightSizing!MemQuotaTablePanel
<1> QED
  BY <1>1, <1>2, <1>3 DEF Page, Complete, Supplied, Unlinked

\* What the selectors of a virtual machine's page list is named by the scrape config.
LEMMA VMSeriesFederated ==
  \A n \in {"cpu_request", "cpu_usage", "memory_request", "memory_usage"} :
    /\ <<"acm_rs_vm", "namespace", n>> \in VirtualizationMetrics
    /\ <<"acm_rs_vm", "namespace", n>> \in VMDetailSeries
  BY DEF VMDetailSeries, VirtualizationMetrics, Metrics

\* The overview of the virtual machines, likewise; its tables also read the raw running status.
LEMMA VMOverview ==
  Page(BuildVMOverview, "acm-rightsizing-openshift-virtualization", VirtualizationMetrics)
<1> DEFINE d == BuildVMOverview
           cluster == SelectorOver({}, {<<"acm_rs_vm", "namespace", "cpu_request">>})
           profile == SelectorOver({"cluster"}, {<<"acm_rs_vm", "namespace", "cpu_usage">>})
           namespace == [SelectorWithAll({"cluster", "profile"}) EXCEPT
                           !.series = {<<"acm_rs_vm", "namespace", "cpu_usage">>}]
<1>1. /\ d.name = "acm-rightsizing-openshift-virtualization"
      /\ d.selectors = [ cluster |-> cluster, profile |-> profile, days |-> Text,
                         namespace |-> namespace ]
  BY DEF BuildVMOverview, Dashboard
<1>2. /\ cluster.deps = {} /\ profile.deps = {"cluster"} /\ Text.deps = {}
      /\ namespace.deps = {"cluster", "profile"}
  BY DEF SelectorOver, SelectorWithAll, Text, Selector
<1>3. /\ <<"acm_rs_vm", "namespace", "cpu_request">> \in cluster.series
      /\ <<"acm_rs_vm", "namespace", "cpu_usage">> \in profile.series
      /\ <<"acm_rs_vm", "namespace", "cpu_usage">> \in namespace.series
      /\ Text.series = {}
  BY DEF SelectorOver, SelectorWithAll, Text, Selector
<1>4. \A p \in d.panels : \A q \in p.queries :
         /\ q.reads \subseteq {"cluster", "profile", "days", "namespace"}
         /\ q.series \subseteq VirtualizationMetrics
  BY DEF BuildVMOverview, Dashboard, VirtualizationMetrics, Metrics, RightSizing!Panel,
     RightSizing!Linked, RightSizing!Over, RightSizing!Query, RightSizing!Row,
     RightSizing!NamespaceScope, RightSizing!VMScope, RightSizing!VMSeries,
     RightSizing!Running, RightSizing!RunningStatus, RightSizing!VMRows,
     RightSizing!VMTotalCPUOverestimationPanel, RightSizing!VMTotalCPUUnderestimationPanel,
     RightSizing!VMTotalMemOverestimationPanel, RightSizing!VMTotalMemUnderestimationPanel,
     RightSizing!VMCPUOverestimationTablePanel, RightSizing!VMCPUUnderestimationTablePanel,
     RightSizing!VMMemOverestimationTablePanel, RightSizing!VMMemUnderestimationTablePanel
<1> HIDE DEF cluster, profile, namespace
<1> QED
  BY <1>1, <1>2, <1>3, <1>4, VMSeriesFederated DEF Page, Complete, Supplied

\* The page of an overestimated machine, likewise.
LEMMA VMOverestimation ==
  Page(BuildVMOverestimation, "acm-rightsizing-vm-overestimation", VirtualizationMetrics)
<1> DEFINE d == BuildVMOverestimation
<1>1. /\ d.name = "acm-rightsizing-vm-overestimation"
      /\ d.selectors =
           [ cluster |-> SelectorOver({}, VMDetailSeries),
             profile |-> SelectorOver({"cluster"}, VMDetailSeries),
             days |-> Text,
             namespace |-> SelectorOver({"cluster", "profile"}, VMDetailSeries),
             vm |-> SelectorOver({"cluster", "namespace", "profile"}, VMDetailSeries) ]
  BY DEF BuildVMOverestimation, Dashboard
<1>2. \A v \in DOMAIN d.selectors :
        /\ d.selectors[v].deps \subseteq {"cluster", "namespace", "profile"}
        /\ d.selectors[v].series \in {{}, VMDetailSeries}
  BY <1>1 DEF SelectorOver, Text, Selector
<1>3. \A p \in d.panels : \A q \in p.queries :
         q.reads \subseteq DOMAIN d.selectors /\ q.series \subseteq VirtualizationMetrics
  BY DEF BuildVMOverestimation, Dashboard, VirtualizationMetrics, Metrics, RightSizing!Panel,
     RightSizing!Note, RightSizing!Linked, RightSizing!Over, RightSizing!Query,
     RightSizing!NamespaceScope, RightSizing!VMScope, RightSizing!DetailScope,
     RightSizing!DetailTrendScope, RightSizing!VMSeries,
     RightSizing!VMBackToMainDashboardPanel, RightSizing!VMCPUOverestimationStatPanel,
     RightSizing!VMCPUUsageStatPanel, RightSizing!VMCPURequestStatPanel,
     RightSizing!VMCPUUtilizationStatPanel, RightSizing!VMCPUUtilizationTimeSeriesPanel,
     RightSizing!VMMemoryOverestimationStatPanel, RightSizing!VMMemoryUsageStatPanel,
     RightSizing!VMMemoryRequestStatPanel, RightSizing!VMMemoryUtilizationStatPanel,
     RightSizing!VMMemoryUtilizationTimeSeriesPanel
<1> QED
  BY <1>1, <1>2, <1>3, VMSeriesFederated DEF Page, Complete, Supplied

\* The page of an underestimated machine, likewise.
LEMMA VMUnderestimation ==
  Page(BuildVMUnderestimation, "acm-rightsizing-vm-underestimation", VirtualizationMetrics)
<1> DEFINE d == BuildVMUnderestimation
<1>1. /\ d.name = "acm-rightsizing-vm-underestimation"
      /\ d.selectors =
           [ cluster |-> SelectorOver({}, VMDetailSeries),
             profile |-> SelectorOver({"cluster"}, VMDetailSeries),
             days |-> Text,
             namespace |-> SelectorOver({"cluster", "profile"}, VMDetailSeries),
             vm |-> SelectorOver({"cluster", "namespace", "profile"}, VMDetailSeries) ]
  BY DEF BuildVMUnderestimation, Dashboard
<1>2. \A v \in DOMAIN d.selectors :
        /\ d.selectors[v].deps \subseteq {"cluster", "namespace", "profile"}
        /\ d.selectors[v].series \in {{}, VMDetailSeries}
  BY <1>1 DEF SelectorOver, Text, Selector
<1>3. \A p \in d.panels : \A q \in p.queries :
         q.reads \subseteq DOMAIN d.selectors /\ q.series \subseteq VirtualizationMetrics
  BY DEF BuildVMUnderestimation, Dashboard, VirtualizationMetrics, Metrics, RightSizing!Panel,
     RightSizing!Note, RightSizing!Linked, RightSizing!Over, RightSizing!Query,
     RightSizing!NamespaceScope, RightSizing!VMScope, RightSizing!DetailScope,
     RightSizing!DetailTrendScope, RightSizing!VMSeries,
     RightSizing!VMBackToMainDashboardPanel, RightSizing!VMCPUUnderestimationStatPanel,
     RightSizing!VMCPUUsageStatPanel, RightSizing!VMCPURequestStatPanel,
     RightSizing!VMCPUUtilizationStatPanel, RightSizing!VMCPUUtilizationTimeSeriesPanel,
     RightSizing!VMMemoryUnderestimationStatPanel, RightSizing!VMMemoryUsageStatPanel,
     RightSizing!VMMemoryRequestStatPanel, RightSizing!VMMemoryUtilizationStatPanel,
     RightSizing!VMMemoryUtilizationTimeSeriesPanel
<1> QED
  BY <1>1, <1>2, <1>3, VMSeriesFederated DEF Page, Complete, Supplied

-----------------------------------------------------------------------------
(* The series of right-sizing: the rules record what the scrape configs    *)
(* name.                                                                   *)

\* Rules5m records a series of five minutes for every source, since those are raw; and from
\* those Rules1d records the series of the day, and the recommendations: Evaluate has to be
\* applied twice, and no more.
LEMMA LevelRecorded ==
  ASSUME NEW kind, NEW level, NEW sources, NEW rules,
         {"cpu_usage", "memory_usage"} \subseteq DOMAIN sources,
         \A n \in DOMAIN sources : sources[n] \subseteq Raw,
         Rules5m(kind, level, sources) \subseteq rules,
         Rules1d(kind, level, DOMAIN sources) \subseteq rules
  PROVE  \A n \in DOMAIN sources \cup {"cpu_recommendation", "memory_recommendation"} :
           <<kind, level, n>> \in Recorded(rules)
<1> DEFINE once == Evaluate(rules, Raw)
<1>1. ASSUME NEW n \in DOMAIN sources
      PROVE  <<kind, level, n, "5m">> \in once
  <2> DEFINE r == [record |-> <<kind, level, n, "5m">>, reads |-> sources[n]]
  <2>1. r \in rules /\ r.reads \subseteq Raw /\ r.record = <<kind, level, n, "5m">>
    BY DEF Rules5m
  <2> QED
    BY <2>1 DEF Evaluate
<1>2. ASSUME NEW r \in rules, r.reads \subseteq once
      PROVE  r.record \in Recorded(rules)
  BY <1>2 DEF Recorded, Evaluate
<1>3. ASSUME NEW n \in DOMAIN sources
      PROVE  <<kind, level, n>> \in Recorded(rules)
  <2> DEFINE r == [record |-> <<kind, level, n>>, reads |-> {<<kind, level, n, "5m">>}]
  <2>1. r \in rules /\ r.reads \subseteq once /\ r.record = <<kind, level, n>>
    BY <1>1 DEF Rules1d, RuleWithLabels, Rule, Build1dAggregationExpr
  <2> QED
    BY <2>1, <1>2
<1>4. ASSUME NEW n \in {"cpu_recommendation", "memory_recommendation"}
      PROVE  <<kind, level, n>> \in Recorded(rules)
  <2> DEFINE usage == IF n = "cpu_recommendation" THEN "cpu_usage" ELSE "memory_usage"
             r == [record |-> <<kind, level, n>>, reads |-> {<<kind, level, usage, "5m">>}]
  <2>1. r \in rules /\ r.reads \subseteq once /\ r.record = <<kind, level, n>>
    BY <1>1 DEF Rules1d, RuleWithLabels, Rule, BuildRecommendationExpr
  <2> QED
    BY <2>1, <1>2
<1> QED
  BY <1>3, <1>4

\* NamespaceRule records every series that the scrape config of the namespaces names.
LEMMA NamespaceRecorded ==
  ASSUME NEW rules, NamespaceRule \subseteq rules
  PROVE  NamespaceMetrics \subseteq Recorded(rules)
<1>1. /\ DOMAIN ContainerSources = {"cpu_request_hard", "cpu_request", "cpu_usage",
                                    "memory_request_hard", "memory_request", "memory_usage"}
      /\ \A n \in DOMAIN ContainerSources : ContainerSources[n] \subseteq Raw
  BY DEF ContainerSources, Raw
<1>2. ASSUME NEW level \in {"namespace", "cluster"}
      PROVE  \A n \in DOMAIN ContainerSources \cup {"cpu_recommendation", "memory_recommendation"} :
               <<"acm_rs", level, n>> \in Recorded(rules)
  <2>1. /\ Rules5m("acm_rs", level, ContainerSources) \subseteq rules
        /\ Rules1d("acm_rs", level, DOMAIN ContainerSources) \subseteq rules
    BY DEF NamespaceRule, buildNamespaceRules5m, buildNamespaceRules1d, buildClusterRules5m,
       buildClusterRules1d
  <2> QED
    BY <1>1, <2>1, LevelRecorded
<1> QED
  BY <1>1, <1>2 DEF NamespaceMetrics, Metrics

\* VirtualizationRule records every series that the scrape config of the machines names, but
\* for the running status, which the platform has.
LEMMA VirtualizationRecorded ==
  ASSUME NEW rules, VirtualizationRule \subseteq rules
  PROVE  VirtualizationMetrics \subseteq Recorded(rules)
<1>1. /\ DOMAIN VMSources = {"cpu_request", "cpu_usage", "memory_request", "memory_usage"}
      /\ \A n \in DOMAIN VMSources : VMSources[n] \subseteq Raw
  BY DEF VMSources, Raw
<1>2. ASSUME NEW level \in {"namespace", "cluster"}
      PROVE  \A n \in DOMAIN VMSources \cup {"cpu_recommendation", "memory_recommendation"} :
               <<"acm_rs_vm", level, n>> \in Recorded(rules)
  <2>1. /\ Rules5m("acm_rs_vm", level, VMSources) \subseteq rules
        /\ Rules1d("acm_rs_vm", level, DOMAIN VMSources) \subseteq rules
    BY DEF VirtualizationRule, buildVMRules5m, buildVMRules1d, buildVMClusterRules5m,
       buildVMClusterRules1d
  <2> QED
    BY <1>1, <2>1, LevelRecorded
<1>3. <<"kubevirt_vm_running_status_last_transition_timestamp_seconds">> \in Recorded(rules)
  BY DEF Recorded, Evaluate, Raw
<1> QED
  BY <1>1, <1>2, <1>3 DEF VirtualizationMetrics, Metrics

\* With the feature and the collection on, the clusters send all of them.
LEMMA NamespaceFederated ==
  ASSUME NEW set, {"delegated", "namespace", "collection"} \subseteq set
  PROVE  NamespaceMetrics \subseteq Series(set)
  BY NamespaceRecorded DEF Series, Federated, GenerateScrapeConfig

\* With the feature and the collection on, the clusters send all of them.
LEMMA VirtualizationFederated ==
  ASSUME NEW set, {"delegated", "virtualization", "collection"} \subseteq set
  PROVE  VirtualizationMetrics \subseteq Series(set)
  BY VirtualizationRecorded DEF Series, Federated, GenerateScrapeConfig

\* The clusters send nothing that no scrape config names.
LEMMA SeriesType == \A set : Series(set) \subseteq NamespaceMetrics \cup VirtualizationMetrics
  BY DEF Series, Federated, GenerateScrapeConfig

-----------------------------------------------------------------------------
(* Links.                                                                  *)

\* Whatever is chosen on d, the selector of the target is set, or may be everything.
Kept(d, panel, target, v, param) ==
  \/ target.selectors[v].all
  \/ param.kind = "field" /\ \E q \in panel.queries : Carries(q, param.of)
  \/ param.kind = "chosen" /\ param.of \in DOMAIN d.selectors /\ ~d.selectors[param.of].all

\* The link gives what its target's selectors depend on, and all of it arrives.
Keeps(d, panel, link, target) ==
  /\ DOMAIN link.params \subseteq DOMAIN target.selectors
  /\ \A v \in DOMAIN link.params :
       /\ target.selectors[v].deps \subseteq DOMAIN link.params
       /\ Kept(d, panel, target, v, link.params[v])

Lands(d, panel, link, target) ==
  /\ link.to = target.name
  /\ \/ d.name \in NeverLoads
     \/ <<d.name, target.name>> \in LosesContext
     \/ Keeps(d, panel, link, target)

LeadsTo(d, panel, target) == \A l \in panel.links : Lands(d, panel, l, target)

LinksWithin(d, pages) ==
  \A p \in d.panels : \A l \in p.links : \E t \in pages : Lands(d, p, l, t)

\* The parameters of a link that gives one selector a label of the row.
FromRow(v, label) == [s \in {v} |-> [kind |-> "field", of |-> label]]

\* A link that gives a selector the row's label keeps what it gives, if the label is among
\* the labels of the rows and the selector depends on no other.
LEMMA RowLink ==
  ASSUME NEW d, NEW panel, NEW target, NEW v \in DOMAIN target.selectors,
         NEW label,
         target.selectors[v].deps = {},
         panel.links = {[to |-> target.name, params |-> FromRow(v, label)]},
         \E q \in panel.queries : Carries(q, label)
  PROVE  LeadsTo(d, panel, target)
  BY DEF LeadsTo, Lands, Keeps, Kept, FromRow

\* A link that is known to lose its context has only to lead to the page it names.
LEMMA LosingLink ==
  ASSUME NEW d, NEW panel, NEW target, NEW params,
         d.name \in NeverLoads \/ <<d.name, target.name>> \in LosesContext,
         panel.links = {[to |-> target.name, params |-> params]}
  PROVE  LeadsTo(d, panel, target)
  BY DEF LeadsTo, Lands

\* The rows of the overview lead to the pages of their cluster.
LEMMA ClustersOverviewLinks ==
  LinksWithin(BuildACMClustersOverview, {BuildACMOptimizationOverview, BuildNetworkingCluster})
<1> DEFINE d == BuildACMClustersOverview
           Tables == {Fleet!Top50MaxLatencyAPIServer, Fleet!EtcdHealth,
                      Fleet!Top50CPUOverEstimationClusters, Fleet!Top50MemoryOverEstimationClusters,
                      Fleet!Top50MemoryUtilizedClusters, Fleet!Top50CPUUtilizedClusters}
<1>1. ASSUME NEW p \in Tables
      PROVE  /\ p.links = {[to |-> "acm-optimization-overview",
                             params |-> FromRow("cluster", "cluster")]}
             /\ \E q \in p.queries : Carries(q, "cluster")
  BY CommonPanelQueries DEF Labelled, Fleet!Linked, Fleet!NewTableLink, Fleet!DashboardURL,
     Fleet!FieldParam, FromRow, Fleet!Top50MaxLatencyAPIServer, Fleet!EtcdHealth,
     Fleet!Top50CPUOverEstimationClusters, Fleet!Top50MemoryOverEstimationClusters,
     Fleet!Top50MemoryUtilizedClusters, Fleet!Top50CPUUtilizedClusters
<1>2. ASSUME NEW p \in Tables
      PROVE  LeadsTo(d, p, BuildACMOptimizationOverview)
  BY <1>1, RowLink DEF BuildACMOptimizationOverview, Dashboard, Selector
<1>3. LeadsTo(d, Fleet!BandwidthUtilization, BuildNetworkingCluster)
  <2>1. \E q \in Fleet!BandwidthUtilization.queries : Carries(q, "cluster")
    BY CommonPanelQueries DEF Labelled, Fleet!Linked, Fleet!BandwidthUtilization
  <2>2. Fleet!BandwidthUtilization.links =
          {[to |-> "k8s-networking-cluster", params |-> FromRow("cluster", "cluster")]}
    BY DEF Fleet!BandwidthUtilization, Fleet!Linked, Fleet!NewTableLink, Fleet!DashboardURL,
           Fleet!FieldParam, FromRow
  <2> QED
    BY <2>1, <2>2, RowLink DEF BuildNetworkingCluster, Dashboard, GetClusterVariable, Selector
<1>4. \A p \in d.panels : p \in Tables \/ p = Fleet!BandwidthUtilization \/ p.links = {}
  BY DEF BuildACMClustersOverview, Dashboard, Fleet!Top5MemoryUtilizationGraph,
         Fleet!Top5CPUUtilizationGraph, Fleet!Panel, Fleet!Linked
<1> HIDE DEF Tables
<1> QED
  BY <1>2, <1>3, <1>4 DEF LinksWithin, LeadsTo

\* The totals of the alerts lead to the clusters by alert, for any alert; a row of the table
\* leads there by its name, and to the alerts of the cluster without its labels.
LEMMA AlertAnalysisLinks ==
  LinksWithin(BuildACMAlertAnalysis, {BuildACMClustersByAlert, BuildACMAlertsByCluster})
<1> DEFINE d == BuildACMAlertAnalysis
           Totals == {Fleet!TotalAlerts, Fleet!TotalCriticalAlerts, Fleet!TotalWarningAlerts,
                      Fleet!TotalModerateAlerts, Fleet!TotalLowAlerts, Fleet!TotalImportantAlerts}
           byAlert == BuildACMClustersByAlert
           byCluster == BuildACMAlertsByCluster
<1>1. /\ byAlert.name = "acm-clusters-by-alert"
      /\ byAlert.selectors =
           [ alert |-> SelectorWithAll({}), severity |-> SelectorWithAll({"alert"}) ]
  BY DEF BuildACMClustersByAlert, Dashboard
<1>2. ASSUME NEW p \in Totals
      PROVE  \A l \in p.links :
               l.to = "acm-clusters-by-alert" /\ DOMAIN l.params = {"alert", "severity"}
  BY DEF Fleet!TotalAlerts, Fleet!TotalCriticalAlerts, Fleet!TotalWarningAlerts,
         Fleet!TotalModerateAlerts, Fleet!TotalLowAlerts, Fleet!TotalImportantAlerts,
         Fleet!Linked, Fleet!DashboardURL
<1>3. ASSUME NEW p \in Totals
      PROVE  LeadsTo(d, p, byAlert)
  BY <1>1, <1>2 DEF LeadsTo, Lands, Keeps, Kept, SelectorWithAll, Selector
<1>4. \A l \in Fleet!AlertsAndClusters.links :
         \/ l = [to |-> "acm-clusters-by-alert", params |-> FromRow("alert", "alertname")]
         \/ l.to = "acm-alerts-by-cluster"
  BY DEF Fleet!AlertsAndClusters, Fleet!Linked, Fleet!NewTableLink, Fleet!NewTableLinkCustomVar,
         Fleet!DashboardURL, Fleet!FieldParam, FromRow
<1>5. ASSUME NEW l, l = [to |-> "acm-clusters-by-alert", params |-> FromRow("alert", "alertname")]
      PROVE  Lands(d, Fleet!AlertsAndClusters, l, byAlert)
  BY <1>1, <1>5 DEF Lands, Keeps, Kept, FromRow, SelectorWithAll, Selector
<1>6. ASSUME NEW l, l.to = "acm-alerts-by-cluster"
      PROVE  Lands(d, Fleet!AlertsAndClusters, l, byCluster)
  <2>1. d.name = "acm-alert-analysis" /\ byCluster.name = "acm-alerts-by-cluster"
    BY DEF BuildACMAlertAnalysis, BuildACMAlertsByCluster, Dashboard
  <2> QED
    BY <1>6, <2>1 DEF Lands, LosesContext
<1>7. \A p \in d.panels : p \in Totals \/ p = Fleet!AlertsAndClusters \/ p.links = {}
  BY DEF BuildACMAlertAnalysis, Dashboard, Fleet!AlertTypeOverTime,
     Fleet!ClusterAffectedOverTime, Fleet!MostFiringAlerts, Fleet!MostAffectedClusters,
     Fleet!Panel, Fleet!Linked
<1> HIDE DEF Totals, byAlert, byCluster, d
<1>8. ASSUME NEW p \in d.panels, NEW l \in p.links
      PROVE  \E t \in {byAlert, byCluster} : Lands(d, p, l, t)
  BY <1>3, <1>4, <1>5, <1>6, <1>7 DEF LeadsTo
<1> QED
  BY <1>8 DEF LinksWithin, d, byAlert, byCluster

\* The rows of the fleet lead to the service levels of their cluster.
LEMMA SLOAPIServerLinks ==
  LinksWithin(BuildSLOAPIServer, {BuildSLOAPIServerCluster})
<1>1. LeadsTo(BuildSLOAPIServer, SLO!FleetTopClusters, BuildSLOAPIServerCluster)
  <2>1. \E q \in SLO!FleetTopClusters.queries : Carries(q, "cluster")
    BY SLOFleetQueries DEF Labelled, SLO!Linked, SLO!FleetTopClusters
  <2>2. SLO!FleetTopClusters.links =
          {[to |-> "k8s-slo-api-server-cluster", params |-> FromRow("cluster", "cluster")]}
    BY DEF SLO!FleetTopClusters, SLO!Linked, SLO!NewTableLink, SLO!DashboardURL,
       SLO!FieldParam, FromRow
  <2> QED
    BY <2>1, <2>2, RowLink DEF BuildSLOAPIServerCluster, Dashboard, Selector
<1>2. \A p \in BuildSLOAPIServer.panels : p = SLO!FleetTopClusters \/ p.links = {}
  BY DEF BuildSLOAPIServer, Dashboard, SLO!FleetClustersExceededSLO,
     SLO!FleetClustersMeetingSLO, SLO!FleetSLITrend, SLO!Panel, SLO!Linked
<1> QED
  BY <1>1, <1>2 DEF LinksWithin, LeadsTo

\* The namespaces of a cluster lead to their pods, but of the first cluster.
LEMMA NetworkingClusterLinks ==
  LinksWithin(BuildNetworkingCluster, {BuildNetworkingNamespacePods})
<1>1. LeadsTo(BuildNetworkingCluster, Networking!ClusterCurrentStatus, BuildNetworkingNamespacePods)
  BY LosingLink
  DEF BuildNetworkingCluster, BuildNetworkingNamespacePods, Dashboard, LosesContext,
     Networking!ClusterCurrentStatus, Networking!Linked, Networking!NewTableLink,
     Networking!DashboardURL
<1>2. \A p \in BuildNetworkingCluster.panels : p = Networking!ClusterCurrentStatus \/ p.links = {}
  BY DEF BuildNetworkingCluster, Dashboard, Networking!ClusterCurrentBytesReceived,
     Networking!ClusterCurrentBytesTransmitted, Networking!ClusterReceiveBandwidth,
     Networking!ClusterTransmitBandwidth, Networking!ClusterReceivedPackets,
     Networking!ClusterTransmittedPackets, Networking!ClusterReceivedPacketsDropped,
     Networking!ClusterTransmittedPacketsDropped, Networking!ClusterTCPRetransmits,
     Networking!ClusterTCPSynRetransmits, Networking!Panel, Networking!Linked
<1> QED
  BY <1>1, <1>2 DEF LinksWithin, LeadsTo

\* The pods of a namespace lead to the page of the pod, but without the namespace.
LEMMA NetworkingNamespacePodsLinks ==
  LinksWithin(BuildNetworkingNamespacePods, {BuildNetworkingPod})
<1>1. LeadsTo(BuildNetworkingNamespacePods, Networking!NamespacePodsCurrentStatus,
              BuildNetworkingPod)
  BY LosingLink DEF BuildNetworkingNamespacePods, BuildNetworkingPod, Dashboard, LosesContext,
     Networking!NamespacePodsCurrentStatus, Networking!Linked, Networking!NewTableLink,
     Networking!DashboardURL
<1>2. \A p \in BuildNetworkingNamespacePods.panels :
         p = Networking!NamespacePodsCurrentStatus \/ p.links = {}
  BY DEF BuildNetworkingNamespacePods, Dashboard, Networking!NamespacePodsCurrentBytesReceived,
     Networking!NamespacePodsCurrentBytesTransmitted, Networking!NamespacePodsReceiveBandwidth,
     Networking!NamespacePodsTransmitBandwidth, Networking!NamespacePodsReceivedPackets,
     Networking!NamespacePodsTransmittedPackets, Networking!NamespacePodsReceivedPacketsDropped,
     Networking!NamespacePodsTransmittedPacketsDropped, Networking!Panel, Networking!Linked
<1> QED
  BY <1>1, <1>2 DEF LinksWithin, LeadsTo

\* The namespaces of a cluster lead to their pods, but of the first cluster.
LEMMA ComputeClusterLinks ==
  LinksWithin(BuildComputeCluster, {BuildComputeNamespacePods})
<1>1. ASSUME NEW p \in {Compute!ClusterCPUQuota, Compute!ClusterMemoryQuota}
      PROVE  LeadsTo(BuildComputeCluster, p, BuildComputeNamespacePods)
  BY LosingLink DEF BuildComputeCluster, BuildComputeNamespacePods, Dashboard, LosesContext,
     Compute!ClusterCPUQuota, Compute!ClusterMemoryQuota, Compute!Linked, Compute!NewTableLink,
     Compute!DashboardURL
<1>2. \A p \in BuildComputeCluster.panels :
         p \in {Compute!ClusterCPUQuota, Compute!ClusterMemoryQuota} \/ p.links = {}
  BY DEF BuildComputeCluster, Dashboard, Compute!ClusterCPUUtilisation,
     Compute!ClusterCPURequestsCommitment, Compute!ClusterCPULimitsCommitment,
     Compute!ClusterMemoryUtilisation, Compute!ClusterMemoryRequestsCommitment,
     Compute!ClusterMemoryLimitsCommitment, Compute!ClusterCPUUsage, Compute!ClusterMemoryUsage,
     Compute!Panel, Compute!Linked
<1> QED
  BY <1>1, <1>2 DEF LinksWithin, LeadsTo

\* The pods of a namespace lead to the page of the pod, but without the namespace.
LEMMA ComputeNamespacePodsLinks ==
  LinksWithin(BuildComputeNamespacePods, {BuildComputePod})
<1>1. ASSUME NEW p \in {Compute!NamespacePodsCPUQuota, Compute!NamespacePodsMemoryQuota}
      PROVE  LeadsTo(BuildComputeNamespacePods, p, BuildComputePod)
  BY LosingLink DEF BuildComputeNamespacePods, BuildComputePod, Dashboard, LosesContext,
     Compute!NamespacePodsCPUQuota, Compute!NamespacePodsMemoryQuota, Compute!Linked,
     Compute!NewTableLink, Compute!DashboardURL
<1>2. \A p \in BuildComputeNamespacePods.panels :
         p \in {Compute!NamespacePodsCPUQuota, Compute!NamespacePodsMemoryQuota} \/ p.links = {}
  BY DEF BuildComputeNamespacePods, Dashboard, Compute!NamespacePodsCPUUtilisationFromRequests,
     Compute!NamespacePodsCPUUtilisationFromLimits,
     Compute!NamespacePodsMemoryUtilisationFromRequests,
     Compute!NamespacePodsMemoryUtilisationFromLimits, Compute!NamespacePodsCPUUsage,
     Compute!NamespacePodsMemoryUsage, Compute!Panel, Compute!Linked
<1> QED
  BY <1>1, <1>2 DEF LinksWithin, LeadsTo

\* The workloads of a namespace lead to their page, from a page that never loads.
LEMMA ComputeNamespaceWorkloadsLinks ==
  LinksWithin(BuildComputeNamespaceWorkloads, {BuildComputeWorkload})
<1>1. ASSUME NEW p \in {Compute!NamespaceWorkloadsCPUQuota, Compute!NamespaceWorkloadsMemoryQuota}
      PROVE  LeadsTo(BuildComputeNamespaceWorkloads, p, BuildComputeWorkload)
  BY LosingLink DEF BuildComputeNamespaceWorkloads, BuildComputeWorkload, Dashboard, NeverLoads,
     Compute!NamespaceWorkloadsCPUQuota, Compute!NamespaceWorkloadsMemoryQuota, Compute!Linked,
     Compute!NewTableLink, Compute!DashboardURL
<1>2. \A p \in BuildComputeNamespaceWorkloads.panels :
         \/ p \in {Compute!NamespaceWorkloadsCPUQuota, Compute!NamespaceWorkloadsMemoryQuota}
         \/ p.links = {}
  BY DEF BuildComputeNamespaceWorkloads, Dashboard, Compute!NamespaceWorkloadsCPUUsage,
     Compute!NamespaceWorkloadsMemoryUsage, Compute!Panel, Compute!Linked
<1> QED
  BY <1>1, <1>2 DEF LinksWithin, LeadsTo

\* The pods of a workload lead to the page of the pod, but without the namespace.
LEMMA ComputeWorkloadLinks ==
  LinksWithin(BuildComputeWorkload, {BuildComputePod})
<1>1. ASSUME NEW p \in {Compute!WorkloadCPUQuota, Compute!WorkloadMemoryQuota}
      PROVE  LeadsTo(BuildComputeWorkload, p, BuildComputePod)
  BY LosingLink DEF BuildComputeWorkload, BuildComputePod, Dashboard, LosesContext,
     Compute!WorkloadCPUQuota, Compute!WorkloadMemoryQuota, Compute!Linked,
     Compute!NewTableLink, Compute!DashboardURL
<1>2. \A p \in BuildComputeWorkload.panels :
         p \in {Compute!WorkloadCPUQuota, Compute!WorkloadMemoryQuota} \/ p.links = {}
  BY DEF BuildComputeWorkload, Dashboard, Compute!WorkloadCPUUsage, Compute!WorkloadMemoryUsage,
     Compute!Panel, Compute!Linked
<1> QED
  BY <1>1, <1>2 DEF LinksWithin, LeadsTo

\* The rows of the overview lead to the pages of their cluster or metric.
LEMMA MetricsCardinalityOverviewLinks ==
  LinksWithin(BuildACMMetricsCardinalityOverview,
              {BuildACMMetricsCardinalityCluster, BuildACMMetricsCardinalityName})
<1> DEFINE d == BuildACMMetricsCardinalityOverview
           Clusters == {Fleet!ClusterOutliersTable, Fleet!ClusterCardinalityTable}
           Metric == {Fleet!MetricOutliersTable, Fleet!MetricCardinalityTable,
                      Fleet!GlobalRecordingRulesTable}
<1>1. ASSUME NEW p \in Clusters
      PROVE  LeadsTo(d, p, BuildACMMetricsCardinalityCluster)
  <2>1. \E q \in p.queries : Carries(q, "cluster")
    BY CardinalityTables DEF Labelled, Fleet!Linked, Fleet!ClusterOutliersTable,
       Fleet!ClusterCardinalityTable
  <2>2. p.links = {[to |-> "acm-metrics-cardinality-cluster",
                    params |-> FromRow("cluster", "cluster")]}
    BY DEF Fleet!ClusterOutliersTable, Fleet!ClusterCardinalityTable, Fleet!Linked,
       Fleet!NewTableLink, Fleet!DashboardURL, Fleet!FieldParam, FromRow
  <2> QED
    BY <2>1, <2>2, RowLink DEF BuildACMMetricsCardinalityCluster, Dashboard,
       GetCardinalityClusterVariable, Selector
<1>2. ASSUME NEW p \in Metric
      PROVE  LeadsTo(d, p, BuildACMMetricsCardinalityName)
  <2>1. \E q \in p.queries : Carries(q, "metric_name")
    BY CardinalityTables DEF Labelled, Fleet!Linked, Fleet!MetricOutliersTable,
       Fleet!MetricCardinalityTable, Fleet!GlobalRecordingRulesTable
  <2>2. p.links = {[to |-> "acm-metrics-cardinality-name",
                    params |-> FromRow("metric_name", "metric_name")]}
    BY DEF Fleet!MetricOutliersTable, Fleet!MetricCardinalityTable,
       Fleet!GlobalRecordingRulesTable, Fleet!Linked, Fleet!NewTableLink, Fleet!DashboardURL,
       Fleet!FieldParam, FromRow
  <2> QED
    BY <2>1, <2>2, RowLink DEF BuildACMMetricsCardinalityName, Dashboard,
       GetCardinalityMetricNameVariable, Selector
<1>3. \A p \in d.panels : p \in Clusters \/ p \in Metric \/ p.links = {}
  BY DEF BuildACMMetricsCardinalityOverview, Dashboard, Fleet!Panel, Fleet!Note, Fleet!Linked,
     Fleet!CardinalityDashboardGuide, Fleet!ExcludedClustersCount, Fleet!ExcludedClustersTable,
     Fleet!ExcludedClustersNote, Fleet!ClusterOutliersCount, Fleet!MetricOutliersCount,
     Fleet!ClusterCardinalityOverTime, Fleet!MetricCardinalityOverTime,
     Fleet!GlobalRecordingRulesOverTime, Fleet!TotalCardinalityOverTime
<1> HIDE DEF Clusters, Metric
<1> QED
  BY <1>1, <1>2, <1>3 DEF LinksWithin, LeadsTo

\* The tables of a cluster narrow the page down: each link repeats what is chosen and adds
\* the row.
LEMMA MetricsCardinalityClusterLinks ==
  LinksWithin(BuildACMMetricsCardinalityCluster, {BuildACMMetricsCardinalityCluster})
<1> DEFINE d == BuildACMMetricsCardinalityCluster
<1>1. /\ d.name = "acm-metrics-cardinality-cluster"
      /\ d.selectors =
           [ cluster |-> Selector({}), namespace |-> Selector({"cluster"}),
             pod |-> Selector({"cluster", "namespace"}),
             metric_name |-> Selector({"cluster", "namespace", "pod"}) ]
  BY DEF BuildACMMetricsCardinalityCluster, Dashboard, GetCardinalityClusterVariable,
     GetCardinalityNamespaceVariable, GetCardinalityPodVariable,
     GetCardinalityPodMetricVariable
<1>2. LeadsTo(d, Fleet!ClusterByNamespaceTable, d)
  <2>1. \E q \in Fleet!ClusterByNamespaceTable.queries : Carries(q, "namespace")
    BY CardinalityTables DEF Labelled, Fleet!Linked, Fleet!ClusterByNamespaceTable
  <2> QED
    BY <1>1, <2>1
    DEF LeadsTo, Lands, Keeps, Kept, Selector, Fleet!ClusterByNamespaceTable, Fleet!Linked,
       Fleet!DashboardURL, Fleet!FieldParam, Fleet!Chosen
<1>3. LeadsTo(d, Fleet!ClusterByPodTable, d)
  <2>1. \E q \in Fleet!ClusterByPodTable.queries : Carries(q, "pod")
    BY CardinalityTables DEF Labelled, Fleet!Linked, Fleet!ClusterByPodTable
  <2> QED
    BY <1>1, <2>1
    DEF LeadsTo, Lands, Keeps, Kept, Selector, Fleet!ClusterByPodTable, Fleet!Linked,
       Fleet!DashboardURL, Fleet!FieldParam, Fleet!Chosen
<1>4. LeadsTo(d, Fleet!ClusterInPodTable, d)
  <2>1. \E q \in Fleet!ClusterInPodTable.queries : Carries(q, "__name__")
    BY CardinalityTables DEF Labelled, Fleet!Linked, Fleet!ClusterInPodTable
  <2> QED
    BY <1>1, <2>1
    DEF LeadsTo, Lands, Keeps, Kept, Selector, Fleet!ClusterInPodTable, Fleet!Linked,
       Fleet!DashboardURL, Fleet!FieldParam, Fleet!Chosen
<1>5. \A p \in d.panels :
         \/ p \in {Fleet!ClusterByNamespaceTable, Fleet!ClusterByPodTable, Fleet!ClusterInPodTable}
         \/ p.links = {}
  BY DEF BuildACMMetricsCardinalityCluster, Dashboard, Fleet!ClusterByNamespaceOverTime,
     Fleet!ClusterByPodOverTime, Fleet!ClusterInPodOverTime, Fleet!ClusterRawTimeseriesTable,
     Fleet!Panel, Fleet!Linked
<1> QED
  BY <1>2, <1>3, <1>4, <1>5 DEF LinksWithin, LeadsTo

\* The tables of a metric narrow the page down: each link repeats what is chosen and adds
\* the row.
LEMMA MetricsCardinalityNameLinks ==
  LinksWithin(BuildACMMetricsCardinalityName, {BuildACMMetricsCardinalityName})
<1> DEFINE d == BuildACMMetricsCardinalityName
<1>1. /\ d.name = "acm-metrics-cardinality-name"
      /\ d.selectors =
           [ metric_name |-> Selector({}), cluster |-> Selector({"metric_name"}),
             namespace |-> Selector({"cluster"}),
             pod |-> Selector({"cluster", "metric_name", "namespace"}) ]
  BY DEF BuildACMMetricsCardinalityName, Dashboard, GetCardinalityClusterForMetricVariable,
     GetCardinalityMetricNameVariable, GetCardinalityNamespaceForNameVariable,
     GetCardinalityPodForNameVariable
<1>2. LeadsTo(d, Fleet!NameByClusterTable, d)
  <2>1. \E q \in Fleet!NameByClusterTable.queries : Carries(q, "cluster")
    BY CardinalityTables DEF Labelled, Fleet!Linked, Fleet!NameByClusterTable
  <2> QED
    BY <1>1, <2>1 DEF LeadsTo, Lands, Keeps, Kept, Selector, Fleet!NameByClusterTable,
       Fleet!Linked, Fleet!DashboardURL, Fleet!FieldParam, Fleet!Chosen
<1>3. LeadsTo(d, Fleet!NameByNamespaceTable, d)
  <2>1. \E q \in Fleet!NameByNamespaceTable.queries : Carries(q, "namespace")
    BY CardinalityTables DEF Labelled, Fleet!Linked, Fleet!NameByNamespaceTable
  <2> QED
    BY <1>1, <2>1 DEF LeadsTo, Lands, Keeps, Kept, Selector, Fleet!NameByNamespaceTable,
       Fleet!Linked, Fleet!DashboardURL, Fleet!FieldParam, Fleet!Chosen
<1>4. LeadsTo(d, Fleet!NameByPodTable, d)
  <2>1. \E q \in Fleet!NameByPodTable.queries : Carries(q, "pod")
    BY CardinalityTables DEF Labelled, Fleet!Linked, Fleet!NameByPodTable
  <2> QED
    BY <1>1, <2>1 DEF LeadsTo, Lands, Keeps, Kept, Selector, Fleet!NameByPodTable, Fleet!Linked,
       Fleet!DashboardURL, Fleet!FieldParam, Fleet!Chosen
<1>5. \A p \in d.panels :
         \/ p \in {Fleet!NameByClusterTable, Fleet!NameByNamespaceTable, Fleet!NameByPodTable}
         \/ p.links = {}
  BY DEF BuildACMMetricsCardinalityName, Dashboard, Fleet!NameByClusterOverTime,
     Fleet!NameByNamespaceOverTime, Fleet!NameByPodOverTime, Fleet!NameRawTimeseriesTable,
     Fleet!Panel, Fleet!Linked
<1> QED
  BY <1>2, <1>3, <1>4, <1>5 DEF LinksWithin, LeadsTo

\* The rows of the overview lead to the pages of their machine, but without the cluster.
LEMMA VMOverviewLinks ==
  LinksWithin(BuildVMOverview, {BuildVMOverestimation, BuildVMUnderestimation})
<1> DEFINE d == BuildVMOverview
           Overestimates == {RightSizing!VMCPUOverestimationTablePanel,
                               RightSizing!VMMemOverestimationTablePanel}
           Underestimates == {RightSizing!VMCPUUnderestimationTablePanel,
                                RightSizing!VMMemUnderestimationTablePanel}
<1>1. /\ <<d.name, BuildVMOverestimation.name>> \in LosesContext
      /\ <<d.name, BuildVMUnderestimation.name>> \in LosesContext
      /\ BuildVMOverestimation.name = "acm-rightsizing-vm-overestimation"
      /\ BuildVMUnderestimation.name = "acm-rightsizing-vm-underestimation"
  BY DEF BuildVMOverview, BuildVMOverestimation, BuildVMUnderestimation, Dashboard, LosesContext
<1>2. /\ \A p \in Overestimates : \A l \in p.links : l.to = "acm-rightsizing-vm-overestimation"
      /\ \A p \in Underestimates : \A l \in p.links : l.to = "acm-rightsizing-vm-underestimation"
  BY DEF RightSizing!VMCPUOverestimationTablePanel, RightSizing!VMMemOverestimationTablePanel,
     RightSizing!VMCPUUnderestimationTablePanel, RightSizing!VMMemUnderestimationTablePanel,
     RightSizing!vmDataLink, RightSizing!DashboardURL, RightSizing!Linked
<1>3. \A p \in d.panels : p \in Overestimates \/ p \in Underestimates \/ p.links = {}
  BY DEF BuildVMOverview, Dashboard, RightSizing!VMTotalCPUOverestimationPanel,
     RightSizing!VMTotalCPUUnderestimationPanel, RightSizing!VMTotalMemOverestimationPanel,
     RightSizing!VMTotalMemUnderestimationPanel, RightSizing!Panel, RightSizing!Linked
<1> HIDE DEF Overestimates, Underestimates
<1> QED
  BY <1>1, <1>2, <1>3 DEF LinksWithin, Lands

\* Back to the overview.
LEMMA VMOverestimationLinks ==
  LinksWithin(BuildVMOverestimation, {BuildVMOverview})
<1>1. /\ RightSizing!VMBackToMainDashboardPanel.links =
           {[to |-> "acm-rightsizing-openshift-virtualization", params |-> <<>>]}
      /\ BuildVMOverview.name = "acm-rightsizing-openshift-virtualization"
  BY DEF RightSizing!VMBackToMainDashboardPanel, RightSizing!Note, RightSizing!Linked,
     RightSizing!DashboardURL, BuildVMOverview, Dashboard
<1>2. LeadsTo(BuildVMOverestimation, RightSizing!VMBackToMainDashboardPanel, BuildVMOverview)
  <2>1. \A l \in RightSizing!VMBackToMainDashboardPanel.links :
          l.to = BuildVMOverview.name /\ DOMAIN l.params = {}
    BY <1>1
  <2> QED
    BY <2>1 DEF LeadsTo, Lands, Keeps
<1>3. \A p \in BuildVMOverestimation.panels :
         p = RightSizing!VMBackToMainDashboardPanel \/ p.links = {}
  BY DEF BuildVMOverestimation, Dashboard, RightSizing!Panel, RightSizing!Linked,
     RightSizing!VMCPUOverestimationStatPanel, RightSizing!VMCPUUsageStatPanel,
     RightSizing!VMCPURequestStatPanel, RightSizing!VMCPUUtilizationStatPanel,
     RightSizing!VMCPUUtilizationTimeSeriesPanel, RightSizing!VMMemoryOverestimationStatPanel,
     RightSizing!VMMemoryUsageStatPanel, RightSizing!VMMemoryRequestStatPanel,
     RightSizing!VMMemoryUtilizationStatPanel, RightSizing!VMMemoryUtilizationTimeSeriesPanel
<1> QED
  BY <1>2, <1>3 DEF LinksWithin, LeadsTo

\* Back to the overview.
LEMMA VMUnderestimationLinks ==
  LinksWithin(BuildVMUnderestimation, {BuildVMOverview})
<1>1. /\ RightSizing!VMBackToMainDashboardPanel.links =
           {[to |-> "acm-rightsizing-openshift-virtualization", params |-> <<>>]}
      /\ BuildVMOverview.name = "acm-rightsizing-openshift-virtualization"
  BY DEF RightSizing!VMBackToMainDashboardPanel, RightSizing!Note, RightSizing!Linked,
     RightSizing!DashboardURL, BuildVMOverview, Dashboard
<1>2. LeadsTo(BuildVMUnderestimation, RightSizing!VMBackToMainDashboardPanel, BuildVMOverview)
  <2>1. \A l \in RightSizing!VMBackToMainDashboardPanel.links :
          l.to = BuildVMOverview.name /\ DOMAIN l.params = {}
    BY <1>1
  <2> QED
    BY <2>1 DEF LeadsTo, Lands, Keeps
<1>3. \A p \in BuildVMUnderestimation.panels :
         p = RightSizing!VMBackToMainDashboardPanel \/ p.links = {}
  BY DEF BuildVMUnderestimation, Dashboard, RightSizing!Panel, RightSizing!Linked,
     RightSizing!VMCPUUnderestimationStatPanel, RightSizing!VMCPUUsageStatPanel,
     RightSizing!VMCPURequestStatPanel, RightSizing!VMCPUUtilizationStatPanel,
     RightSizing!VMCPUUtilizationTimeSeriesPanel, RightSizing!VMMemoryUnderestimationStatPanel,
     RightSizing!VMMemoryUsageStatPanel, RightSizing!VMMemoryRequestStatPanel,
     RightSizing!VMMemoryUtilizationStatPanel, RightSizing!VMMemoryUtilizationTimeSeriesPanel
<1> QED
  BY <1>2, <1>3 DEF LinksWithin, LeadsTo

-----------------------------------------------------------------------------
(* The catalogue.                                                          *)

FleetBoards == buildACMDashboards \cup buildCardinalityDashboards

AnalyticsBoards ==
  buildIncidentDetetctionDashboards \cup buildNamespaceRSDashboards \cup buildVMRSDashboards

AnalyticsPages ==
  {"acm-incidents-overview", "acm-rs-namespace-overview",
   "acm-rightsizing-openshift-virtualization", "acm-rightsizing-vm-overestimation",
   "acm-rightsizing-vm-underestimation"}

\* The names of the fleet differ from each other and from those of the analytics: the chart
\* names a resource after each.
LEMMA FleetNames ==
  /\ \A d, e \in FleetBoards : d.name = e.name => d = e
  /\ \A d \in FleetBoards : d.name \notin AnalyticsPages \cup {NoPage, Missing}
<1>1. /\ BuildClusterResourceUse.name = "acm-cluster-rsrc-use"
      /\ BuildNodeResourceUse.name = "acm-node-rsrc-use"
      /\ BuildACMOptimizationOverview.name = "acm-optimization-overview"
      /\ BuildACMClustersOverview.name = "acm-clusters-overview"
      /\ BuildACMAlertAnalysis.name = "acm-alert-analysis"
      /\ BuildACMAlertsByCluster.name = "acm-alerts-by-cluster"
      /\ BuildACMClustersByAlert.name = "acm-clusters-by-alert"
      /\ BuildACMHCPOverview.name = "acm-hcp-overview"
      /\ BuildACMHCPResources.name = "acm-hcp-resources"
      /\ BuildSLOAPIServer.name = "k8s-slo-api-server"
      /\ BuildSLOAPIServerCluster.name = "k8s-slo-api-server-cluster"
  BY ClusterResourceUse, NodeResourceUse, OptimizationOverview, ClustersOverview, AlertAnalysis,
     AlertsByCluster, ClustersByAlert, HCPOverview, HCPResources, SLOAPIServer,
     SLOAPIServerCluster DEF Page
<1>2. /\ BuildNetworkingCluster.name = "k8s-networking-cluster"
      /\ BuildNetworkingNamespacePods.name = "k8s-networking-namespace-pods"
      /\ BuildNetworkingNode.name = "k8s-networking-node"
      /\ BuildNetworkingPod.name = "k8s-networking-pod"
      /\ BuildComputeCluster.name = "k8s-compute-resources-cluster"
      /\ BuildComputeNamespacePods.name = "k8s-compute-resources-namespace-pods"
      /\ BuildComputeNamespaceWorkloads.name = "k8s-compute-resources-namespace-workloads"
      /\ BuildComputeNodePods.name = "k8s-compute-resources-node-pods"
      /\ BuildComputePod.name = "k8s-compute-resources-pod"
      /\ BuildComputeWorkload.name = "k8s-compute-resources-workload"
      /\ BuildACMMetricsCardinalityOverview.name = "acm-metrics-cardinality-overview"
      /\ BuildACMMetricsCardinalityCluster.name = "acm-metrics-cardinality-cluster"
      /\ BuildACMMetricsCardinalityName.name = "acm-metrics-cardinality-name"
  BY NetworkingCluster, NetworkingNamespacePods, NetworkingNode, NetworkingPod, ComputeCluster,
     ComputeNamespacePods, ComputeNamespaceWorkloads, ComputeNodePods, ComputePod,
     ComputeWorkload, MetricsCardinalityOverview, MetricsCardinalityCluster,
     MetricsCardinalityName DEF Page
<1>3. \A d, e \in FleetBoards : d.name = e.name => d = e
  BY <1>1, <1>2 DEF FleetBoards, buildACMDashboards, buildCardinalityDashboards
<1>4. \A d \in FleetBoards : d.name \notin AnalyticsPages \cup {NoPage, Missing}
  BY <1>1, <1>2
  DEF FleetBoards, buildACMDashboards, buildCardinalityDashboards, AnalyticsPages, NoPage, Missing
<1> QED
  BY <1>3, <1>4

\* So do the names of the analytics.
LEMMA AnalyticsPageNames ==
  /\ \A d, e \in AnalyticsBoards : d.name = e.name => d = e
  /\ \A d \in AnalyticsBoards : d.name \in AnalyticsPages /\ d.name \notin {NoPage, Missing}
  BY IncidentsOverview, NamespaceRightSizing, VMOverview, VMOverestimation, VMUnderestimation
  DEF Page, AnalyticsBoards, buildIncidentDetetctionDashboards, buildNamespaceRSDashboards,
      buildVMRSDashboards, AnalyticsPages, NoPage, Missing

\* With everything on, the chart carries all the dashboards; and with less on, no others.
LEMMA CatalogueParts ==
  /\ Catalogue = FleetBoards \cup AnalyticsBoards
  /\ AnalyticsNames = {d.name : d \in AnalyticsBoards}
  /\ \A set : /\ Dashboards(set) \subseteq FleetBoards
              /\ AnalyticsDashboards(set) \subseteq AnalyticsBoards
<1>1. Dashboards(AllFeatures) = FleetBoards /\ AnalyticsDashboards(AllFeatures) = AnalyticsBoards
  BY DEF Dashboards, AnalyticsDashboards, enableUI, AllFeatures, FleetBoards, AnalyticsBoards
<1>2. \A set : /\ Dashboards(set) \subseteq FleetBoards
              /\ AnalyticsDashboards(set) \subseteq AnalyticsBoards
  BY DEF Dashboards, AnalyticsDashboards, FleetBoards, AnalyticsBoards
<1> QED
  BY <1>1, <1>2 DEF Catalogue, AnalyticsNames

\* A name is the name of one dashboard, in one project.
LEMMA OneBoardPerName ==
  /\ \A d \in Catalogue : Board(d.name) = d
  /\ \A name \in Names : Board(name) \in Catalogue /\ Board(name).name = name
  /\ NoPage \notin Names /\ Missing \notin Names
  /\ \A d \in FleetBoards : d.name \notin AnalyticsNames
<1>1. \A d, e \in Catalogue : d.name = e.name => d = e
  BY FleetNames, AnalyticsPageNames, CatalogueParts
<1>2. \A d \in Catalogue : Board(d.name) = d
  BY <1>1 DEF Board
<1>3. \A name \in Names : Board(name) \in Catalogue /\ Board(name).name = name
  BY <1>2 DEF Names
<1>4. NoPage \notin Names /\ Missing \notin Names
  BY FleetNames, AnalyticsPageNames, CatalogueParts DEF Names
<1>5. \A d \in FleetBoards : d.name \notin AnalyticsNames
  BY FleetNames, AnalyticsPageNames, CatalogueParts
<1> QED
  BY <1>2, <1>3, <1>4, <1>5

\* Every page but one has the selectors that its queries and its selectors read.
LEMMA PagesComplete ==
  \A d \in Catalogue : d.name \notin NeverLoads => Complete(d)
<1>1. \A d \in buildACMDashboards : d.name \notin NeverLoads => Complete(d)
  BY ClusterResourceUse, NodeResourceUse, OptimizationOverview, ClustersOverview, AlertAnalysis,
     AlertsByCluster, ClustersByAlert, HCPOverview, HCPResources, SLOAPIServer,
     SLOAPIServerCluster, NetworkingCluster, NetworkingNamespacePods, NetworkingNode,
     NetworkingPod, ComputeCluster, ComputeNamespacePods, ComputeNamespaceWorkloads,
     ComputeNodePods, ComputePod, ComputeWorkload
  DEF Page, buildACMDashboards, NeverLoads
<1>2. \A d \in buildCardinalityDashboards \cup AnalyticsBoards : Complete(d)
  BY MetricsCardinalityOverview, MetricsCardinalityCluster, MetricsCardinalityName,
     IncidentsOverview, NamespaceRightSizing, VMOverview, VMOverestimation, VMUnderestimation
  DEF Page, AnalyticsBoards, buildCardinalityDashboards, buildIncidentDetetctionDashboards,
      buildNamespaceRSDashboards, buildVMRSDashboards
<1> QED
  BY <1>1, <1>2, CatalogueParts DEF FleetBoards

\* More series do no harm.
LEMMA SuppliedMore ==
  ASSUME NEW d, NEW less, NEW more, Supplied(d, less), less \subseteq more
  PROVE  Supplied(d, more)
  BY DEF Supplied

\* With the collection on, whatever page the chart carries under a choice of features, the
\* clusters that are rendered under the same choice send what it reads: the conditions of
\* internal/coo/manifests and of internal/analytics agree.
LEMMA PagesSupplied ==
  ASSUME NEW set, "collection" \in set,
         NEW d \in Dashboards(set) \cup AnalyticsDashboards(set)
  PROVE  Supplied(d, Series(set))
<1>1. CASE d \in buildACMDashboards
  <2>1. Supplied(d, {})
    BY <1>1, ClusterResourceUse, NodeResourceUse, OptimizationOverview, ClustersOverview,
       AlertAnalysis, AlertsByCluster, ClustersByAlert, HCPOverview, HCPResources, SLOAPIServer,
       SLOAPIServerCluster, NetworkingCluster, NetworkingNamespacePods, NetworkingNode,
       NetworkingPod, ComputeCluster, ComputeNamespacePods, ComputeNamespaceWorkloads,
       ComputeNodePods, ComputePod, ComputeWorkload
    DEF Page, buildACMDashboards
  <2> QED
    BY <2>1, SuppliedMore
<1>2. CASE d \in buildCardinalityDashboards \cup buildIncidentDetetctionDashboards
  <2>1. Supplied(d, {})
    BY <1>2, MetricsCardinalityOverview, MetricsCardinalityCluster, MetricsCardinalityName,
       IncidentsOverview
    DEF Page, buildCardinalityDashboards, buildIncidentDetetctionDashboards
  <2> QED
    BY <2>1, SuppliedMore
<1>3. CASE d \in buildNamespaceRSDashboards /\ {"delegated", "namespace"} \subseteq set
  <2>1. Supplied(d, NamespaceMetrics)
    BY <1>3, NamespaceRightSizing DEF Page, buildNamespaceRSDashboards
  <2>2. NamespaceMetrics \subseteq Series(set)
    BY <1>3, NamespaceFederated
  <2> QED
    BY <2>1, <2>2, SuppliedMore
<1>4. CASE d \in buildVMRSDashboards /\ {"delegated", "virtualization"} \subseteq set
  <2>1. Supplied(d, VirtualizationMetrics)
    BY <1>4, VMOverview, VMOverestimation, VMUnderestimation DEF Page, buildVMRSDashboards
  <2>2. VirtualizationMetrics \subseteq Series(set)
    BY <1>4, VirtualizationFederated
  <2> QED
    BY <2>1, <2>2, SuppliedMore
<1> QED
  BY <1>1, <1>2, <1>3, <1>4 DEF Dashboards, AnalyticsDashboards

\* The page that is not complete: its selector for the type waits for a selector that the
\* page does not have, and whatever panel has links reads the type.
LEMMA NeverLoadsPage ==
  ASSUME NEW d \in Catalogue, d.name \in NeverLoads
  PROVE  /\ "type" \in DOMAIN d.selectors
         /\ ~(d.selectors["type"].deps \subseteq DOMAIN d.selectors)
         /\ \A p \in d.panels : p.links # {} => \E q \in p.queries : "type" \in q.reads
<1> DEFINE w == BuildComputeNamespaceWorkloads
<1>1. d = w
  <2>1. w \in Catalogue /\ w.name \in NeverLoads
    BY CatalogueParts, ComputeNamespaceWorkloads DEF FleetBoards, buildACMDashboards, NeverLoads
  <2> QED
    BY <2>1, OneBoardPerName DEF NeverLoads
<1>2. /\ DOMAIN w.selectors = {"cluster", "namespace", "type"}
      /\ w.selectors["type"].deps = {"cluster", "namespace", "workload"}
  BY DEF BuildComputeNamespaceWorkloads, Dashboard, GetTypeVariable, Selector
<1>3. Compute!NamespaceWorkloadsQueries["TableRunningPods"].reads = {"cluster", "namespace", "type"}
  BY DEF Compute!NamespaceWorkloadsQueries, Compute!++, Compute!Row, Compute!WorkloadScope
<1>4. \A p \in w.panels :
         p.links # {} => Compute!NamespaceWorkloadsQueries["TableRunningPods"] \in p.queries
  BY DEF BuildComputeNamespaceWorkloads, Dashboard, Compute!NamespaceWorkloadsCPUUsage,
     Compute!NamespaceWorkloadsMemoryUsage, Compute!NamespaceWorkloadsCPUQuota,
     Compute!NamespaceWorkloadsMemoryQuota, Compute!Panel, Compute!Linked
<1> QED
  BY <1>1, <1>2, <1>3, <1>4

\* More pages do no harm.
LEMMA MorePages ==
  ASSUME NEW d, NEW fewer, NEW more, LinksWithin(d, fewer), fewer \subseteq more
  PROVE  LinksWithin(d, more)
  BY DEF LinksWithin

\* A page without links leads nowhere.
LEMMA NoLinks == ASSUME NEW d, NEW pages, Unlinked(d) PROVE LinksWithin(d, pages)
  BY DEF LinksWithin, Unlinked

\* The dashboards of the fleet that link to each other are carried under the same condition.
LEMMA FleetLinks ==
  ASSUME NEW set, NEW d \in Dashboards(set)
  PROVE  LinksWithin(d, Dashboards(set))
<1>1. \A e \in buildACMDashboards : LinksWithin(e, buildACMDashboards)
  <2>1. \A e \in {BuildClusterResourceUse, BuildNodeResourceUse, BuildACMOptimizationOverview,
                  BuildACMAlertsByCluster, BuildACMClustersByAlert, BuildACMHCPOverview,
                  BuildACMHCPResources, BuildSLOAPIServerCluster, BuildNetworkingNode,
                  BuildNetworkingPod, BuildComputeNodePods, BuildComputePod} :
           LinksWithin(e, buildACMDashboards)
    BY ClusterResourceUse, NodeResourceUse, OptimizationOverview, AlertsByCluster,
       ClustersByAlert, HCPOverview, HCPResources, SLOAPIServerCluster, NetworkingNode,
       NetworkingPod, ComputeNodePods, ComputePod, NoLinks
  <2>2. \A e \in {BuildACMClustersOverview, BuildACMAlertAnalysis, BuildSLOAPIServer,
                  BuildNetworkingCluster, BuildNetworkingNamespacePods} :
           LinksWithin(e, buildACMDashboards)
    BY ClustersOverviewLinks, AlertAnalysisLinks, SLOAPIServerLinks, NetworkingClusterLinks,
       NetworkingNamespacePodsLinks, MorePages DEF buildACMDashboards
  <2>3. \A e \in {BuildComputeCluster, BuildComputeNamespacePods, BuildComputeNamespaceWorkloads,
                  BuildComputeWorkload} :
           LinksWithin(e, buildACMDashboards)
    BY ComputeClusterLinks, ComputeNamespacePodsLinks, ComputeNamespaceWorkloadsLinks,
       ComputeWorkloadLinks, MorePages DEF buildACMDashboards
  <2> QED
    BY <2>1, <2>2, <2>3 DEF buildACMDashboards
<1>2. \A e \in buildCardinalityDashboards : LinksWithin(e, buildCardinalityDashboards)
  BY MetricsCardinalityOverviewLinks, MetricsCardinalityClusterLinks,
     MetricsCardinalityNameLinks, MorePages
  DEF buildCardinalityDashboards
<1> QED
  BY <1>1, <1>2, MorePages DEF Dashboards

\* So are those of the analytics.
LEMMA AnalyticsLinks ==
  ASSUME NEW set, NEW d \in AnalyticsDashboards(set)
  PROVE  LinksWithin(d, AnalyticsDashboards(set))
<1>1. \A e \in buildIncidentDetetctionDashboards \cup buildNamespaceRSDashboards :
         LinksWithin(e, AnalyticsDashboards(set))
  BY IncidentsOverview, NamespaceRightSizing, NoLinks
  DEF buildIncidentDetetctionDashboards, buildNamespaceRSDashboards
<1>2. \A e \in buildVMRSDashboards : LinksWithin(e, buildVMRSDashboards)
  BY VMOverviewLinks, VMOverestimationLinks, VMUnderestimationLinks, MorePages
  DEF buildVMRSDashboards
<1> QED
  BY <1>1, <1>2, MorePages DEF AnalyticsDashboards

=============================================================================
