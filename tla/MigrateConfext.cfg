SPECIFICATION FairSpec
CONSTANTS
  shipped = shipped
  linked = linked
  own = own
  outer = outer
  inner = inner
  Files = {shipped, linked, own}
  Dirs = {outer, inner}
  Parents <- MCParents
  ConfextType <- MCConfextType
  MaxVersion = 2
  MaxCrashes = 2
INVARIANTS
  TypeOK
  NothingLost
PROPERTIES
  Exact
  Migrates
CHECK_DEADLOCK FALSE
