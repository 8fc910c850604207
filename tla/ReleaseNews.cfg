SPECIFICATION Spec
CONSTANTS
  Modules <- MCModules
  Plans <- Whole
  Earlier <- MCEarlier
  Silent <- MCSilent
  MaxBumps = 2
  MaxDrops = 1
INVARIANTS
  TypeOK
  NewsTells
CHECK_DEADLOCK FALSE
