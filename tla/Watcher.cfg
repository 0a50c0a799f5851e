SPECIFICATION FairSpec
CONSTANTS
  Clusters = {hub, spoke}
  LocalCluster = hub
  Configs = {secret, rules, mch}
  Tracked = {secret}
  Shared = {mch}
  LocalOnly = {rules}
  Flags = {mch}
  Values = {v1}
  Absent = Absent
  NoWork = NoWork
  Idle = Idle
  MaxEvents = 3
INVARIANTS
  TypeOK
  NothingForgotten
CHECK_DEADLOCK FALSE
PROPERTY EventuallyInSync
