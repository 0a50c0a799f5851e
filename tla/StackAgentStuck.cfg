SPECIFICATION FairSpec
CONSTANTS
  Placements = {global}
  GlobalRefs = {global}
  Dummy = dummyRef
  DefaultAgent = default
  DummyAgent = dummy
  UserAgents = {}
  StackConfigs = {sc}
  UserConfigs = {}
  NoObject = NoObject
  NotDeclared = NotDeclared
  UserMay = {"delete"}
  MaxChanges = 1
PROPERTY AgentComesBack
CHECK_DEADLOCK FALSE
