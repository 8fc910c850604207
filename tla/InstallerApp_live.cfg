SPECIFICATION FairSpec
CONSTANTS
  a1 = a1
  a2 = a2
  w1 = w1
  w2 = w2
  w3 = w3
  Apps = {a1}
  Windows = {w1, w2}
  AppOf <- OneSession
  MaxGens = 2
  Modes = {FALSE}
  MayDie = TRUE
PROPERTIES
  PageSettles
CHECK_DEADLOCK FALSE
