SPECIFICATION FairSpec
CONSTANTS
  Disks = {d1}
  MaxInstalls = 2
  UnitsMayStall = FALSE
PROPERTIES
  Concluded
