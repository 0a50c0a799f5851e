-------------------------- MODULE RightSizingPanels --------------------------
\* The panels of the right-sizing dashboards (internal/perses/panels/rightsizing). The
\* conditions and filters that every query of a table repeats (cpuOverestCond, runningVMFilter
\* and so on) count among the series it reads.
EXTENDS DashboardKit

\* The selectors that the queries of a dashboard read.
NamespaceScope == {"cluster", "profile", "days"}
TrendScope == {"cluster", "profile"}
VMScope == NamespaceScope \cup {"namespace"}
DetailScope == VMScope \cup {"vm"}
DetailTrendScope == DetailScope \ {"days"}

\* The series that they read, by the kind and the level of their names.
ClusterSeries(names) == {<<"acm_rs", "cluster", n>> : n \in names}
NamespaceSeries(names) == {<<"acm_rs", "namespace", n>> : n \in names}
VMSeries(names) == {<<"acm_rs_vm", "namespace", n>> : n \in names}

RunningStatus == <<"kubevirt_vm_running_status_last_transition_timestamp_seconds">>
Running(series) == series \cup {RunningStatus}

\* label_join over a sum by (name, namespace).
VMLabels == {"name", "namespace", "name_namespace"}

VMRows(names) == Over(Row(VMScope, VMLabels), Running(VMSeries(names)))

vmDataLink(dashboard) ==
  DashboardURL(dashboard,
    [ cluster |-> FieldParam("cluster"), namespace |-> FieldParam("namespace"),
      vm |-> FieldParam("name"), days |-> Chosen("days"), profile |-> FieldParam("profile") ])

CPURecommendationPanel ==
  Panel({Over(Query(NamespaceScope), ClusterSeries({"cpu_recommendation"}))})

CPUUsagePanel == Panel({Over(Query(NamespaceScope), ClusterSeries({"cpu_usage"}))})
CPURequestPanel == Panel({Over(Query(NamespaceScope), ClusterSeries({"cpu_request"}))})

CPUUtilizationPanel ==
  Panel({Over(Query(NamespaceScope), ClusterSeries({"cpu_request", "cpu_usage"}))})

MemRecommendationPanel ==
  Panel({Over(Query(NamespaceScope), ClusterSeries({"memory_recommendation"}))})

MemUsagePanel == Panel({Over(Query(NamespaceScope), ClusterSeries({"memory_usage"}))})
MemRequestPanel == Panel({Over(Query(NamespaceScope), ClusterSeries({"memory_request"}))})

MemUtilizationPanel ==
  Panel({Over(Query(NamespaceScope), ClusterSeries({"memory_request", "memory_usage"}))})

CPUTopNamespacesPanel ==
  Panel({Over(Query(TrendScope), NamespaceSeries({"cpu_request", "cpu_usage"}))})

MemTopNamespacesPanel ==
  Panel({Over(Query(TrendScope), NamespaceSeries({"memory_request", "memory_usage"}))})

CPUQuotaTablePanel ==
  Panel({Over(Query(NamespaceScope), NamespaceSeries({"cpu_request", "cpu_usage"})),
         Over(Query(NamespaceScope), NamespaceSeries({"cpu_usage"})),
         Over(Query(NamespaceScope), NamespaceSeries({"cpu_request"})),
         Over(Query(NamespaceScope), NamespaceSeries({"cpu_recommendation"})),
         Over(Query(NamespaceScope), NamespaceSeries({"cpu_request_hard"}))})

MemQuotaTablePanel ==
  Panel({Over(Query(NamespaceScope), NamespaceSeries({"memory_request", "memory_usage"})),
         Over(Query(NamespaceScope), NamespaceSeries({"memory_usage"})),
         Over(Query(NamespaceScope), NamespaceSeries({"memory_request"})),
         Over(Query(NamespaceScope), NamespaceSeries({"memory_recommendation"})),
         Over(Query(NamespaceScope), NamespaceSeries({"memory_request_hard"}))})

VMTotalCPUOverestimationPanel ==
  Panel({Over(Query(VMScope), Running(VMSeries({"cpu_recommendation", "cpu_request"})))})

VMTotalCPUUnderestimationPanel ==
  Panel({Over(Query(VMScope), Running(VMSeries({"cpu_recommendation", "cpu_request"})))})

VMTotalMemOverestimationPanel ==
  Panel({Over(Query(VMScope), Running(VMSeries({"memory_recommendation", "memory_request"})))})

VMTotalMemUnderestimationPanel ==
  Panel({Over(Query(VMScope), Running(VMSeries({"memory_recommendation", "memory_request"})))})

VMCPUOverestimationTablePanel ==
  Linked({VMRows({"cpu_recommendation", "cpu_request", "cpu_usage"}),
          VMRows({"cpu_recommendation", "cpu_request"})},
         {vmDataLink("acm-rightsizing-vm-overestimation")})

VMCPUUnderestimationTablePanel ==
  Linked({VMRows({"cpu_recommendation", "cpu_request", "cpu_usage"}),
          VMRows({"cpu_recommendation", "cpu_request"})},
         {vmDataLink("acm-rightsizing-vm-underestimation")})

VMMemOverestimationTablePanel ==
  Linked({VMRows({"memory_recommendation", "memory_request", "memory_usage"}),
          VMRows({"memory_recommendation", "memory_request"})},
         {vmDataLink("acm-rightsizing-vm-overestimation")})

VMMemUnderestimationTablePanel ==
  Linked({VMRows({"memory_recommendation", "memory_request", "memory_usage"}),
          VMRows({"memory_recommendation", "memory_request"})},
         {vmDataLink("acm-rightsizing-vm-underestimation")})

VMCPUOverestimationStatPanel ==
  Panel({Over(Query(DetailScope), VMSeries({"cpu_recommendation", "cpu_request"}))})

VMCPUUsageStatPanel == Panel({Over(Query(DetailScope), VMSeries({"cpu_usage"}))})
VMCPURequestStatPanel == Panel({Over(Query(DetailScope), VMSeries({"cpu_request"}))})

VMCPUUtilizationStatPanel ==
  Panel({Over(Query(DetailScope), VMSeries({"cpu_request", "cpu_usage"}))})

VMCPUUtilizationTimeSeriesPanel ==
  Panel({Over(Query(DetailTrendScope), VMSeries({"cpu_request", "cpu_usage"}))})

VMMemoryOverestimationStatPanel ==
  Panel({Over(Query(DetailScope), VMSeries({"memory_recommendation", "memory_request"}))})

VMMemoryUsageStatPanel == Panel({Over(Query(DetailScope), VMSeries({"memory_usage"}))})
VMMemoryRequestStatPanel == Panel({Over(Query(DetailScope), VMSeries({"memory_request"}))})

VMMemoryUtilizationStatPanel ==
  Panel({Over(Query(DetailScope), VMSeries({"memory_request", "memory_usage"}))})

VMMemoryUtilizationTimeSeriesPanel ==
  Panel({Over(Query(DetailTrendScope), VMSeries({"memory_request", "memory_usage"}))})

VMCPUUnderestimationStatPanel ==
  Panel({Over(Query(DetailScope), VMSeries({"cpu_recommendation", "cpu_request"}))})

VMMemoryUnderestimationStatPanel ==
  Panel({Over(Query(DetailScope), VMSeries({"memory_recommendation", "memory_request"}))})

VMBackToMainDashboardPanel == Note({DashboardURL("acm-rightsizing-openshift-virtualization", <<>>)})

==============================================================================
