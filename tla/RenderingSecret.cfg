SPECIFICATION Spec
CONSTANTS
  Configs <- MCConfigs
  Forwarders <- OneForwarder
  Collectors <- MCCollectors
  Instrumentations = {"sameName"}
  Versions <- MCVersions
  None = None
  MaxEvents = 1
INVARIANT
  SecretFreshWhenQuiet
CHECK_DEADLOCK FALSE
