SPECIFICATION FairSpec
CONSTANTS
  root = root
  usr = usr
  a = a
  b = b
  lib = lib
  liba = liba
  libb = libb
  new = new
  newf = newf
  none = none
  Names <- MCNames
  Root <- root
  Up <- MCUp
  Nothing <- none
  Hosts <- MCHosts
  MaxCalls = 2
INVARIANTS
  TypeOK
  ParentsFirst
  Closed
PROPERTIES
  Ends
CHECK_DEADLOCK FALSE
