SPECIFICATION FairSpec
CONSTANTS
  Initial <- MCInitial
  MaxEvents = 1
INVARIANTS
  TypeOK
  ShowsData
  LinksArrive
PROPERTIES
  NoDeadLink
  PageSettles
