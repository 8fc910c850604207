SPECIFICATION Spec
CONSTANTS
  Disks = {d1, d2}
  MaxInstalls = 2
  UnitsMayStall = TRUE
INVARIANTS
  TypeOK
  SelfContained
  KeyUnlocks
  KeysNotShared
  SameVintage
PROPERTIES
  DataKept
  WritesInhibited
  ReleasedLast
  HandoverSpec
