-------------------------- MODULE NetworkingPanels --------------------------
\* The panels of the Kubernetes networking dashboards (pkg/perses/panels/acm/k8s/networking).
EXTENDS DashboardKit

ClusterQueries1 ==
  [q \in {"ReceiveBandwidthByNamespace", "TransmitBandwidthByNamespace",
          "ReceivedPacketsByNamespace", "TransmittedPacketsByNamespace",
          "ReceivedPacketsDroppedByNamespace", "TransmittedPacketsDroppedByNamespace"}
      |-> Query({"cluster"})]
  ++ [q \in {"TableReceiveBandwidthByNamespace", "TableTransmitBandwidthByNamespace",
             "TableReceivedPacketsByNamespace", "TableTransmittedPacketsByNamespace",
             "TableReceivedPacketsDroppedByNamespace",
             "TableTransmittedPacketsDroppedByNamespace"} |-> Row({"cluster"}, {"namespace"})]

ClusterQueries2 ==
  [ TCPRetransmits |-> Query({"cluster", "interval", "resolution"}),
    TCPSynRetransmits |-> Query({"cluster", "interval", "resolution"}) ]

ClusterQueries == ClusterQueries1 ++ ClusterQueries2

NamespacePodsQueries ==
  [q \in {"ReceiveBandwidth", "TransmitBandwidth", "ReceivedPackets", "TransmittedPackets",
          "ReceivedPacketsDropped", "TransmittedPacketsDropped"}
      |-> Row({"cluster", "namespace"}, {"pod"})]
  ++ [q \in {"ReceiveBandwidthTS", "TransmitBandwidthTS", "ReceivedPacketsTS",
             "TransmittedPacketsTS", "ReceivedPacketsDroppedTS", "TransmittedPacketsDroppedTS",
             "TotalReceiveBandwidth", "TotalTransmitBandwidth"}
         |-> Query({"cluster", "namespace"})]

NodeQueries ==
  [q \in {"ReceiveBandwidthByInstance", "TransmitBandwidthByInstance",
          "ReceivedDropByInstance", "TransmittedDropByInstance"} |-> Query({"cluster"})]

PodQueries ==
  [q \in {"ReceiveBandwidth", "TransmitBandwidth", "ReceivedPackets", "TransmittedPackets",
          "ReceivedPacketsDropped", "TransmittedPacketsDropped"}
      |-> Query({"cluster", "namespace", "pod"})]

ClusterCurrentBytesReceived == Panel({ClusterQueries.ReceiveBandwidthByNamespace})
ClusterCurrentBytesTransmitted == Panel({ClusterQueries.TransmitBandwidthByNamespace})

ClusterCurrentStatus == Linked({ClusterQueries.TableReceiveBandwidthByNamespace,
                                ClusterQueries.TableTransmitBandwidthByNamespace,
                                ClusterQueries.TableReceivedPacketsByNamespace,
                                ClusterQueries.TableTransmittedPacketsByNamespace,
                                ClusterQueries.TableReceivedPacketsDroppedByNamespace,
                                ClusterQueries.TableTransmittedPacketsDroppedByNamespace},
                               {NewTableLink("k8s-networking-namespace-pods", "namespace")})

ClusterReceiveBandwidth == Panel({ClusterQueries.ReceiveBandwidthByNamespace})
ClusterTransmitBandwidth == Panel({ClusterQueries.TransmitBandwidthByNamespace})
ClusterReceivedPackets == Panel({ClusterQueries.ReceivedPacketsByNamespace})
ClusterTransmittedPackets == Panel({ClusterQueries.TransmittedPacketsByNamespace})
ClusterReceivedPacketsDropped == Panel({ClusterQueries.ReceivedPacketsDroppedByNamespace})
ClusterTransmittedPacketsDropped == Panel({ClusterQueries.TransmittedPacketsDroppedByNamespace})
ClusterTCPRetransmits == Panel({ClusterQueries.TCPRetransmits})
ClusterTCPSynRetransmits == Panel({ClusterQueries.TCPSynRetransmits})
NamespacePodsCurrentBytesReceived == Panel({NamespacePodsQueries.TotalReceiveBandwidth})
NamespacePodsCurrentBytesTransmitted == Panel({NamespacePodsQueries.TotalTransmitBandwidth})

NamespacePodsCurrentStatus == Linked({NamespacePodsQueries.ReceiveBandwidth,
                                      NamespacePodsQueries.TransmitBandwidth,
                                      NamespacePodsQueries.ReceivedPackets,
                                      NamespacePodsQueries.TransmittedPackets,
                                      NamespacePodsQueries.ReceivedPacketsDropped,
                                      NamespacePodsQueries.TransmittedPacketsDropped},
                                     {NewTableLink("k8s-networking-pod", "pod")})

NamespacePodsReceiveBandwidth == Panel({NamespacePodsQueries.ReceiveBandwidthTS})
NamespacePodsTransmitBandwidth == Panel({NamespacePodsQueries.TransmitBandwidthTS})
NamespacePodsReceivedPackets == Panel({NamespacePodsQueries.ReceivedPacketsTS})
NamespacePodsTransmittedPackets == Panel({NamespacePodsQueries.TransmittedPacketsTS})
NamespacePodsReceivedPacketsDropped == Panel({NamespacePodsQueries.ReceivedPacketsDroppedTS})

NamespacePodsTransmittedPacketsDropped ==
  Panel({NamespacePodsQueries.TransmittedPacketsDroppedTS})

NodeCurrentBytesReceived == Panel({NodeQueries.ReceiveBandwidthByInstance})
NodeCurrentBytesTransmitted == Panel({NodeQueries.TransmitBandwidthByInstance})

NodeCurrentStatus == Panel({NodeQueries.ReceiveBandwidthByInstance,
                            NodeQueries.TransmitBandwidthByInstance,
                            NodeQueries.ReceivedDropByInstance,
                            NodeQueries.TransmittedDropByInstance})

NodeReceivedPacketsDropped == Panel({NodeQueries.ReceivedDropByInstance})
NodeTransmittedPacketsDropped == Panel({NodeQueries.TransmittedDropByInstance})
NodeTCPRetransmits == Panel({ClusterQueries.TCPRetransmits})
NodeTCPSynRetransmits == Panel({ClusterQueries.TCPSynRetransmits})
PodCurrentBytesReceived == Panel({PodQueries.ReceiveBandwidth})
PodCurrentBytesTransmitted == Panel({PodQueries.TransmitBandwidth})
PodReceiveBandwidth == Panel({PodQueries.ReceiveBandwidth})
PodTransmitBandwidth == Panel({PodQueries.TransmitBandwidth})
PodReceivedPackets == Panel({PodQueries.ReceivedPackets})
PodTransmittedPackets == Panel({PodQueries.TransmittedPackets})
PodReceivedPacketsDropped == Panel({PodQueries.ReceivedPacketsDropped})
PodTransmittedPacketsDropped == Panel({PodQueries.TransmittedPacketsDropped})

==============================================================================
