SPECIFICATION FairSpec
CONSTANTS
  a = a
  b = b
  namespace = namespace
  virtualization = virtualization
  custom = custom
  broken = broken
  Clusters = {a, b}
  OpenShift = {a, b}
  Features = {namespace}
  First <- MCFirst
  Contents = {default, custom, broken}
  Default = default
  Broken = {broken}
  Selected <- MCSelected
  Missing = Missing
  Off = Off
  Idle = Idle
  MaxChanges = 3
INVARIANTS
  TypeOK
  SweptWhenQuiet
  RenderedWhenQuiet
PROPERTY ComesToRest
CHECK_DEADLOCK FALSE
