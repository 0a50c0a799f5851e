SPECIFICATION FairSpec
CONSTANTS
  Configs <- MCConfigs
  Forwarders <- MCForwarders
  Collectors <- MCCollectors
  Instrumentations = {"sameName"}
  Versions <- MCVersions
  None = None
  MaxEvents = 2
INVARIANTS
  TypeOK
  VerdictWhenQuiet
  RenderedWhenQuiet
PROPERTY
  ComesToRest
CHECK_DEADLOCK FALSE
