SPECIFICATION FairSpec
CONSTANTS
  n1 = n1
  n2 = n2
  w1 = w1
  w2 = w2
  w3 = w3
  Works = {w1, w2, w3}
  Namespaces = {n1, n2}
  NsOf <- MCNsOf
  Configs = {c1}
  Writers = {t1, t2}
  Readers = {r1}
  NoEntry = NoEntry
  NoThread = NoThread
  NoCall = NoCall
  Exclusive = TRUE
INVARIANTS
  TypeOK
  LockExclusion
  NoStaleReference
  NoEmptySet
  NoLostReference
PROPERTIES
  ImplementsIndex
  EveryCallEnds
