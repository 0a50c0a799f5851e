SPECIFICATION FairSpec
CONSTANTS
  Placements = {global, east}
  GlobalRefs = {global}
  Dummy = dummyRef
  DefaultAgent = default
  DummyAgent = dummy
  UserAgents = {mine}
  StackConfigs = {sc}
  UserConfigs = {}
  NoObject = NoObject
  NotDeclared = NotDeclared
  UserMay = {"withdraw", "create", "retarget", "drift", "fail", "restart"}
  MaxChanges = 2
PROPERTY ComesToRest
CHECK_DEADLOCK FALSE
