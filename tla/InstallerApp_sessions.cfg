SPECIFICATION Spec
CONSTANTS
  a1 = a1
  a2 = a2
  w1 = w1
  w2 = w2
  w3 = w3
  Apps = {a1, a2}
  Windows = {w1, w2, w3}
  AppOf <- TwoSessions
  MaxGens = 2
  Modes = {FALSE}
  MayDie = TRUE
INVARIANTS
  TypeOK
  OneInstallPerDaemon
  PageTruth
CHECK_DEADLOCK FALSE
