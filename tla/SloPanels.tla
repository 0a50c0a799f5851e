------------------------------ MODULE SloPanels ------------------------------
\* The panels of the API server service-level dashboards (pkg/perses/panels/acm/k8s/slo).
EXTENDS DashboardKit

FleetQueries ==
  [ ClustersExceededSLO |-> Query({"cluster", "window"}),
    ClustersMeetingSLO |-> Query({"cluster", "window"}),
    TopClustersSLO |-> AnyRow({"cluster", "top", "window"}),
    TopClustersErrorBudget |-> AnyRow({"cluster", "top", "window"}),
    TopClustersSLITrend |-> Query({"cluster", "top"}),
    TargetThreshold |-> Query({}) ]

ClusterQueries ==
  [q \in {"SLIBinTrend", "SLO7d", "SLO30d", "ErrorBudget7d", "ErrorBudget30d",
          "DowntimeRemaining7d", "DowntimeRemaining30d", "SLITrend"} |-> Query({"cluster"})]
  ++ [q \in {"DayOfWeek", "DayOfMonth", "TargetThreshold"} |-> Query({})]

FleetClustersExceededSLO == Panel({FleetQueries.ClustersExceededSLO})
FleetClustersMeetingSLO == Panel({FleetQueries.ClustersMeetingSLO})

FleetTopClusters == Linked({FleetQueries.TopClustersSLO, FleetQueries.TopClustersErrorBudget},
                           {NewTableLink("k8s-slo-api-server-cluster", "cluster")})

FleetSLITrend == Panel({FleetQueries.TopClustersSLITrend, FleetQueries.TargetThreshold})
ClusterTarget == Panel({ClusterQueries.SLIBinTrend})
ClusterPast7Days == Panel({ClusterQueries.SLO7d})
ClusterPast30Days == Panel({ClusterQueries.SLO30d})
ClusterDayOfWeek == Panel({ClusterQueries.DayOfWeek})
ClusterErrorBudget7d == Panel({ClusterQueries.ErrorBudget7d})
ClusterDowntimeRemaining7d == Panel({ClusterQueries.DowntimeRemaining7d})
ClusterDayOfMonth == Panel({ClusterQueries.DayOfMonth})
ClusterErrorBudget30d == Panel({ClusterQueries.ErrorBudget30d})
ClusterDowntimeRemaining30d == Panel({ClusterQueries.DowntimeRemaining30d})
ClusterSLITrend == Panel({ClusterQueries.SLITrend, ClusterQueries.TargetThreshold})
ClusterSLITable == Panel({ClusterQueries.SLITrend})

==============================================================================
