SPECIFICATION FairSpec
CONSTANTS
  Crds = {"prometheusagents", "scrapeconfigs"}
  AgentCrd = "prometheusagents"
  None = None
  Own = Own
  COO = COO
  MaxEvents = 3
INVARIANTS
  TypeOK
  OneOperatorWhenQuiet
  CleanWhenQuiet
PROPERTY
  ComesToRest
CHECK_DEADLOCK FALSE
