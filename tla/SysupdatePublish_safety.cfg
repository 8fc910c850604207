SPECIFICATION Spec
CONSTANTS
  old = old
  intel = intel
  arm = arm
  Jobs = {old, intel, arm}
  ArchOf <- TwoPipelines
  MaxStarts = 3
INVARIANTS
  TypeOK
  OneSeesTheOther
  ListedOrRunning
PROPERTIES
  Repaired
CHECK_DEADLOCK FALSE
