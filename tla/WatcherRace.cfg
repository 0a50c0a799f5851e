SPECIFICATION Spec
CONSTANTS
  Clusters = {hub}
  LocalCluster = hub
  Configs = {secret, images}
  Tracked = {secret}
  Shared = {images}
  LocalOnly = {}
  Flags = {}
  Values = {v1, v2}
  Absent = Absent
  NoWork = NoWork
  Idle = Idle
  MaxEvents = 2
INVARIANT NoCopyForgotten
CHECK_DEADLOCK FALSE
SYMMETRY Symmetry
