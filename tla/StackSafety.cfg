SPECIFICATION Spec
CONSTANTS
  Placements = {global, east}
  GlobalRefs = {global}
  Dummy = dummyRef
  DefaultAgent = default
  DummyAgent = dummy
  UserAgents = {mine}
  StackConfigs = {sc}
  UserConfigs = {}
  NoObject = NoObject
  NotDeclared = NotDeclared
  UserMay = {"declare", "withdraw", "list", "create", "retarget", "delete", "drift", "toggle", "fail", "restart"}
  MaxChanges = 2
INVARIANTS
  TypeOK
  InPlaceWhenQuiet
  NoStaleListingWhenQuiet
  NoOrphanWhenQuiet
PROPERTY UserEditsKept
CHECK_DEADLOCK FALSE
