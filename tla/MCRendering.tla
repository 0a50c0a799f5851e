----------------------------- MODULE MCRendering -----------------------------
\* Small instances of Rendering for TLC: the AddOnDeploymentConfigs differ in
\* what their rendering and their health check do.
EXTENDS Rendering

On(keys) == [k \in keys |->
  CASE k \in {"platformMetricsCollection", "userWorkloadMetricsCollection"} -> "prometheusagents"
    [] k \in {"platformLogsCollection", "userWorkloadLogsCollection"} -> "clusterlogforwarders"
    [] k \in {"platformMetricsUI", "platformIncidentDetection"} -> "uiplugins"
    [] k = "userWorkloadTracesCollection" -> "opentelemetrycollectors"
    [] k = "userWorkloadInstrumentation" -> "instrumentations"
    [] k = "metricsHubHostname" -> "hub.example"
    [] k = "rightSizingDelegated" -> "true"
    [] k = "openshiftLoggingChannel" -> "stable"
    [] k = "nodeExporterHostPort" -> 65536]

MCConfigs ==
  {On({"platformMetricsCollection", "platformMetricsUI", "metricsHubHostname"}),
   On({"userWorkloadMetricsCollection", "platformLogsCollection", "metricsHubHostname"}),
   On({"platformMetricsCollection", "userWorkloadTracesCollection",
       "userWorkloadInstrumentation", "metricsHubHostname", "rightSizingDelegated"}),
   On({"userWorkloadLogsCollection", "openshiftLoggingChannel", "platformIncidentDetection"}),
   On({"platformLogsCollection", "nodeExporterHostPort"})}

Both == [inputs |-> {"platform", "application"}, outputs |-> TRUE]
MCForwarders ==
  {[listed |-> 1, complete |-> TRUE, secret |-> TRUE, pipelines |-> {Both}],
   [listed |-> 1, complete |-> TRUE, secret |-> FALSE,
    pipelines |-> {[inputs |-> {"platform"}, outputs |-> TRUE],
                   [inputs |-> {"application"}, outputs |-> FALSE]}]}
Unlisted == [listed |-> 0, complete |-> TRUE, secret |-> FALSE, pipelines |-> {}]
OneForwarder == {Unlisted, [listed |-> 1, complete |-> TRUE, secret |-> TRUE, pipelines |-> {Both}]}

MCCollectors ==
  {[listed |-> 1, exporters |-> TRUE, mounted |-> TRUE, used |-> TRUE],
   [listed |-> 2, exporters |-> TRUE, mounted |-> FALSE, used |-> TRUE]}

MCVersions == {<<0, 79>>, <<0, 78, 2>>}
=============================================================================
