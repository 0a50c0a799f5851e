---------------------------- MODULE ComputePanels ----------------------------
\* The panels of the Kubernetes compute dashboards (pkg/perses/panels/acm/k8s/compute).
EXTENDS DashboardKit

ClusterQueries1 ==
  [q \in {"CPURequestsCommitment", "CPULimitsCommitment", "MemoryUtilisation",
          "MemoryRequestsCommitment", "MemoryLimitsCommitment", "CPUUsageByNamespace",
          "MemoryUsageByNamespace"} |-> Query({"cluster"})]
  ++ [ CPUUtilisation |-> Query({}),
       TablePodsByNamespace |-> Row({"cluster"}, {"namespace"}),
       TableWorkloadsByNamespace |-> AnyRow({"cluster"}) ]

ClusterQueries2 ==
  [q \in {"TableCPUUsageByNamespace", "TableCPURequestsByNamespace",
          "TableCPURequestsPercentByNamespace", "TableCPULimitsByNamespace",
          "TableCPULimitsPercentByNamespace", "TableMemoryUsageByNamespace",
          "TableMemoryRequestsByNamespace", "TableMemoryRequestsPercentByNamespace",
          "TableMemoryLimitsByNamespace", "TableMemoryLimitsPercentByNamespace"}
      |-> Row({"cluster"}, {"namespace"})]

ClusterQueries == ClusterQueries1 ++ ClusterQueries2

NamespacePodsQueries1 ==
  [q \in {"CPUUtilisationFromRequests", "CPUUtilisationFromLimits",
          "MemoryUtilisationFromRequests", "MemoryUtilisationFromLimits", "CPUUsageByPod",
          "CPUQuotaRequests", "CPUQuotaLimits", "MemoryUsageByPod", "MemoryQuotaRequests"}
      |-> Query({"cluster", "namespace"})]

NamespacePodsQueries2 ==
  [q \in {"TableCPUUsageByPod", "TableCPURequestsByPod", "TableCPURequestsPercentByPod",
          "TableCPULimitsByPod", "TableCPULimitsPercentByPod", "TableMemoryUsageByPod",
          "TableMemoryRequestsByPod", "TableMemoryRequestsPercentByPod",
          "TableMemoryLimitsByPod"} |-> Row({"cluster", "namespace"}, {"pod"})]
  ++ [ MemoryQuotaLimits |-> Query({"cluster", "namespace"}) ]

NamespacePodsQueries3 ==
  [q \in {"TableMemoryLimitsPercentByPod", "TableMemoryRSSByPod", "TableMemoryCacheByPod",
          "TableMemorySwapByPod"} |-> Row({"cluster", "namespace"}, {"pod"})]

NamespacePodsQueries == NamespacePodsQueries1 ++ NamespacePodsQueries2 ++ NamespacePodsQueries3

\* The selectors read by the workload join that the queries share.
WorkloadScope == {"cluster", "namespace", "type"}
PodsOfWorkloadScope == WorkloadScope \cup {"workload"}

NamespaceWorkloadsQueries ==
  [q \in {"TableRunningPods", "TableCPUUsageByWorkload", "TableCPURequestsByWorkload",
          "TableCPURequestsPercentByWorkload", "TableCPULimitsByWorkload",
          "TableCPULimitsPercentByWorkload", "TableMemoryUsageByWorkload",
          "TableMemoryRequestsByWorkload", "TableMemoryRequestsPercentByWorkload",
          "TableMemoryLimitsByWorkload", "TableMemoryLimitsPercentByWorkload"}
      |-> Row(WorkloadScope, {"workload", "workload_type"})]
  ++ [ CPUUsageByWorkload |-> Query(WorkloadScope),
       MemoryUsageByWorkload |-> Query(WorkloadScope) ]

NodePodsQueries1 ==
  [q \in {"CPUUsageByPod", "MemoryUsageByPod", "TableCPUUsageByPod", "TableCPURequestsByPod",
          "TableCPURequestsPercentByPod", "TableCPULimitsByPod", "TableCPULimitsPercentByPod",
          "TableMemoryUsageByPod", "TableMemoryRequestsByPod",
          "TableMemoryRequestsPercentByPod"} |-> Query({"cluster", "node"})]

NodePodsQueries2 ==
  [q \in {"TableMemoryLimitsByPod", "TableMemoryLimitsPercentByPod", "TableMemoryRSSByPod",
          "TableMemoryCacheByPod", "TableMemorySwapByPod"} |-> Query({"cluster", "node"})]

NodePodsQueries == NodePodsQueries1 ++ NodePodsQueries2

PodQueries1 ==
  [q \in {"CPUUsageByContainer", "CPURequestsOverlay", "CPULimitsOverlay", "CPUThrottling",
          "MemoryUsageByContainer", "MemoryRequestsOverlay", "MemoryLimitsOverlay",
          "TableCPUUsageByContainer", "TableCPURequestsByContainer",
          "TableCPURequestsPercentByContainer"} |-> Query({"cluster", "namespace", "pod"})]

PodQueries2 ==
  [q \in {"TableCPULimitsByContainer", "TableCPULimitsPercentByContainer",
          "TableMemoryUsageByContainer", "TableMemoryRequestsByContainer",
          "TableMemoryRequestsPercentByContainer", "TableMemoryLimitsByContainer",
          "TableMemoryLimitsPercentByContainer", "TableMemoryRSSByContainer",
          "TableMemoryCacheByContainer"} |-> Query({"cluster", "namespace", "pod"})]

PodQueries3 ==
  [ TableMemorySwapByContainer |-> Query({"cluster", "namespace", "pod"}) ]

PodQueries == PodQueries1 ++ PodQueries2 ++ PodQueries3

WorkloadQueries ==
  [q \in {"TableCPUUsageByPod", "TableCPURequestsByPod", "TableCPURequestsPercentByPod",
          "TableCPULimitsByPod", "TableCPULimitsPercentByPod", "TableMemoryUsageByPod",
          "TableMemoryRequestsByPod", "TableMemoryRequestsPercentByPod",
          "TableMemoryLimitsByPod", "TableMemoryLimitsPercentByPod"}
      |-> Row(PodsOfWorkloadScope, {"pod"})]
  ++ [ CPUUsageByPod |-> Query(PodsOfWorkloadScope),
       MemoryUsageByPod |-> Query(PodsOfWorkloadScope) ]

ClusterCPUUtilisation == Panel({ClusterQueries.CPUUtilisation})
ClusterCPURequestsCommitment == Panel({ClusterQueries.CPURequestsCommitment})
ClusterCPULimitsCommitment == Panel({ClusterQueries.CPULimitsCommitment})
ClusterMemoryUtilisation == Panel({ClusterQueries.MemoryUtilisation})
ClusterMemoryRequestsCommitment == Panel({ClusterQueries.MemoryRequestsCommitment})
ClusterMemoryLimitsCommitment == Panel({ClusterQueries.MemoryLimitsCommitment})
ClusterCPUUsage == Panel({ClusterQueries.CPUUsageByNamespace})

ClusterCPUQuota == Linked({ClusterQueries.TablePodsByNamespace,
                           ClusterQueries.TableWorkloadsByNamespace,
                           ClusterQueries.TableCPUUsageByNamespace,
                           ClusterQueries.TableCPURequestsByNamespace,
                           ClusterQueries.TableCPURequestsPercentByNamespace,
                           ClusterQueries.TableCPULimitsByNamespace,
                           ClusterQueries.TableCPULimitsPercentByNamespace},
                          {NewTableLink("k8s-compute-resources-namespace-pods", "namespace")})

ClusterMemoryUsage == Panel({ClusterQueries.MemoryUsageByNamespace})

ClusterMemoryQuota == Linked({ClusterQueries.TablePodsByNamespace,
                              ClusterQueries.TableWorkloadsByNamespace,
                              ClusterQueries.TableMemoryUsageByNamespace,
                              ClusterQueries.TableMemoryRequestsByNamespace,
                              ClusterQueries.TableMemoryRequestsPercentByNamespace,
                              ClusterQueries.TableMemoryLimitsByNamespace,
                              ClusterQueries.TableMemoryLimitsPercentByNamespace},
                             {NewTableLink("k8s-compute-resources-namespace-pods", "namespace")})

NamespacePodsCPUUtilisationFromRequests ==
  Panel({NamespacePodsQueries.CPUUtilisationFromRequests})

NamespacePodsCPUUtilisationFromLimits == Panel({NamespacePodsQueries.CPUUtilisationFromLimits})

NamespacePodsMemoryUtilisationFromRequests ==
  Panel({NamespacePodsQueries.MemoryUtilisationFromRequests})

NamespacePodsMemoryUtilisationFromLimits ==
  Panel({NamespacePodsQueries.MemoryUtilisationFromLimits})

NamespacePodsCPUUsage == Panel({NamespacePodsQueries.CPUUsageByPod,
                                NamespacePodsQueries.CPUQuotaRequests,
                                NamespacePodsQueries.CPUQuotaLimits})

NamespacePodsCPUQuota == Linked({NamespacePodsQueries.TableCPUUsageByPod,
                                 NamespacePodsQueries.TableCPURequestsByPod,
                                 NamespacePodsQueries.TableCPURequestsPercentByPod,
                                 NamespacePodsQueries.TableCPULimitsByPod,
                                 NamespacePodsQueries.TableCPULimitsPercentByPod},
                                {NewTableLink("k8s-compute-resources-pod", "pod")})

NamespacePodsMemoryUsage == Panel({NamespacePodsQueries.MemoryUsageByPod,
                                   NamespacePodsQueries.MemoryQuotaRequests,
                                   NamespacePodsQueries.MemoryQuotaLimits})

NamespacePodsMemoryQuota == Linked({NamespacePodsQueries.TableMemoryUsageByPod,
                                    NamespacePodsQueries.TableMemoryRequestsByPod,
                                    NamespacePodsQueries.TableMemoryRequestsPercentByPod,
                                    NamespacePodsQueries.TableMemoryLimitsByPod,
                                    NamespacePodsQueries.TableMemoryLimitsPercentByPod,
                                    NamespacePodsQueries.TableMemoryRSSByPod,
                                    NamespacePodsQueries.TableMemoryCacheByPod,
                                    NamespacePodsQueries.TableMemorySwapByPod},
                                   {NewTableLink("k8s-compute-resources-pod", "pod")})

NamespaceWorkloadsCPUUsage == Panel({NamespaceWorkloadsQueries.CPUUsageByWorkload})

NamespaceWorkloadsCPUQuota == Linked({NamespaceWorkloadsQueries.TableRunningPods,
                                      NamespaceWorkloadsQueries.TableCPUUsageByWorkload,
                                      NamespaceWorkloadsQueries.TableCPURequestsByWorkload,
                                      NamespaceWorkloadsQueries.TableCPURequestsPercentByWorkload,
                                      NamespaceWorkloadsQueries.TableCPULimitsByWorkload,
                                      NamespaceWorkloadsQueries.TableCPULimitsPercentByWorkload},
                                     {NewTableLink("k8s-compute-resources-workload", "workload")})

NamespaceWorkloadsMemoryUsage == Panel({NamespaceWorkloadsQueries.MemoryUsageByWorkload})

NamespaceWorkloadsMemoryQuota == Linked({NamespaceWorkloadsQueries.TableRunningPods,
                                         NamespaceWorkloadsQueries.TableMemoryUsageByWorkload,
                                         NamespaceWorkloadsQueries.TableMemoryRequestsByWorkload,
                                         NamespaceWorkloadsQueries.TableMemoryRequestsPercentByWorkload,
                                         NamespaceWorkloadsQueries.TableMemoryLimitsByWorkload,
                                         NamespaceWorkloadsQueries.TableMemoryLimitsPercentByWorkload},
                                        {NewTableLink("k8s-compute-resources-workload", "workload")})

NodePodsCPUUsage == Panel({NodePodsQueries.CPUUsageByPod})

NodePodsCPUQuota == Panel({NodePodsQueries.TableCPUUsageByPod,
                           NodePodsQueries.TableCPURequestsByPod,
                           NodePodsQueries.TableCPURequestsPercentByPod,
                           NodePodsQueries.TableCPULimitsByPod,
                           NodePodsQueries.TableCPULimitsPercentByPod})

NodePodsMemoryUsage == Panel({NodePodsQueries.MemoryUsageByPod})

NodePodsMemoryQuota == Panel({NodePodsQueries.TableMemoryUsageByPod,
                              NodePodsQueries.TableMemoryRequestsByPod,
                              NodePodsQueries.TableMemoryRequestsPercentByPod,
                              NodePodsQueries.TableMemoryLimitsByPod,
                              NodePodsQueries.TableMemoryLimitsPercentByPod,
                              NodePodsQueries.TableMemoryRSSByPod,
                              NodePodsQueries.TableMemoryCacheByPod,
                              NodePodsQueries.TableMemorySwapByPod})

PodCPUUsage == Panel({PodQueries.CPUUsageByContainer, PodQueries.CPURequestsOverlay,
                      PodQueries.CPULimitsOverlay})

PodCPUThrottling == Panel({PodQueries.CPUThrottling})

PodCPUQuota ==
  Panel({PodQueries.TableCPUUsageByContainer, PodQueries.TableCPURequestsByContainer,
                      PodQueries.TableCPURequestsPercentByContainer,
                      PodQueries.TableCPULimitsByContainer,
                      PodQueries.TableCPULimitsPercentByContainer})

PodMemoryUsage == Panel({PodQueries.MemoryUsageByContainer, PodQueries.MemoryRequestsOverlay,
                         PodQueries.MemoryLimitsOverlay})

PodMemoryQuota == Panel({PodQueries.TableMemoryUsageByContainer,
                         PodQueries.TableMemoryRequestsByContainer,
                         PodQueries.TableMemoryRequestsPercentByContainer,
                         PodQueries.TableMemoryLimitsByContainer,
                         PodQueries.TableMemoryLimitsPercentByContainer,
                         PodQueries.TableMemoryRSSByContainer,
                         PodQueries.TableMemoryCacheByContainer,
                         PodQueries.TableMemorySwapByContainer})

WorkloadCPUUsage == Panel({WorkloadQueries.CPUUsageByPod})

WorkloadCPUQuota == Linked({WorkloadQueries.TableCPUUsageByPod,
                            WorkloadQueries.TableCPURequestsByPod,
                            WorkloadQueries.TableCPURequestsPercentByPod,
                            WorkloadQueries.TableCPULimitsByPod,
                            WorkloadQueries.TableCPULimitsPercentByPod},
                           {NewTableLink("k8s-compute-resources-pod", "pod")})

WorkloadMemoryUsage == Panel({WorkloadQueries.MemoryUsageByPod})

WorkloadMemoryQuota == Linked({WorkloadQueries.TableMemoryUsageByPod,
                               WorkloadQueries.TableMemoryRequestsByPod,
                               WorkloadQueries.TableMemoryRequestsPercentByPod,
                               WorkloadQueries.TableMemoryLimitsByPod,
                               WorkloadQueries.TableMemoryLimitsPercentByPod},
                              {NewTableLink("k8s-compute-resources-pod", "pod")})

==============================================================================
