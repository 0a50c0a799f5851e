---------------------- MODULE HostedControlPlanePanels ----------------------
\* The panels of the hosted control plane dashboards (pkg/perses/panels/acm/hosted-control-
\* plane).
EXTENDS DashboardKit

HCPPanelQueries1 ==
  [q \in {"WorkerNodeCapacities", "HCPStatusUnavailable", "HCPStatusAvailable",
          "RequestBasedHCPCapacity", "QPSSettings", "QPSBasedCapacityLow",
          "QPSBasedCapacityMedium", "QPSBasedCapacityHigh", "QPSBasedCapacityAverage",
          "HCPList"} |-> Query({})]
  ++ [q \in {"HCPPodCount", "HCPCPUUsageByPod", "HCPCPURequestsPercent", "HCPCPURequests",
             "HCPCPUUsage", "HCPMemoryRequestsPercent", "HCPMemoryUsageByPod",
             "HCPMemoryRequests"} |-> Query({"hcp_ns"})]

HCPPanelQueries2 ==
  [ HCPMemoryUsage |-> Query({"hcp_ns"}) ]

HCPPanelQueries == HCPPanelQueries1 ++ HCPPanelQueries2

RequestBasedLimitEstimation == Note({})
WorkerNodeCapacities == Panel({HCPPanelQueries.WorkerNodeCapacities})

NumberOfHCPsRequestBased == Panel({HCPPanelQueries.HCPStatusUnavailable,
                                   HCPPanelQueries.HCPStatusAvailable,
                                   HCPPanelQueries.RequestBasedHCPCapacity})

LoadBasedLimitEstimation == Note({})
QPSSettings == Panel({HCPPanelQueries.QPSSettings})

NumberOfHCPsQPSBased == Panel({HCPPanelQueries.HCPStatusUnavailable,
                               HCPPanelQueries.HCPStatusAvailable,
                               HCPPanelQueries.QPSBasedCapacityLow,
                               HCPPanelQueries.QPSBasedCapacityMedium,
                               HCPPanelQueries.QPSBasedCapacityHigh,
                               HCPPanelQueries.QPSBasedCapacityAverage})

HCPList == Panel({HCPPanelQueries.HCPList})
HCPPodCount == Panel({HCPPanelQueries.HCPPodCount})
HCPCPUUsageGraph == Panel({HCPPanelQueries.HCPCPUUsageByPod})
HCPCPURequestsPercent == Panel({HCPPanelQueries.HCPCPURequestsPercent})
HCPCPURequests == Panel({HCPPanelQueries.HCPCPURequests})
HCPCPUUsage == Panel({HCPPanelQueries.HCPCPUUsage})
HCPMemoryRequestsPercent == Panel({HCPPanelQueries.HCPMemoryRequestsPercent})
HCPMemoryUsageGraph == Panel({HCPPanelQueries.HCPMemoryUsageByPod})
HCPMemoryRequests == Panel({HCPPanelQueries.HCPMemoryRequests})
HCPMemoryUsage == Panel({HCPPanelQueries.HCPMemoryUsage})

==============================================================================
