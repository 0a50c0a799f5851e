--------------------------- MODULE IncidentPanels ---------------------------
\* The panels of the incident detection dashboard (pkg/perses/panels/incident-management).
EXTENDS DashboardKit

ActiveIncidents == Panel({Query({"cluster"})})
IncidentCount == Panel({Query({"cluster"})})

==============================================================================
