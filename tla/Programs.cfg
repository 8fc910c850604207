SPECIFICATION Spec
CONSTANTS
  one = one
  two = two
  mid = mid
  low = low
  Paths <- MCPaths
  Dirs = {"dir", "private"}
  Files = {"f1", "f2", "f1 of user"}
  Links = {"l1", "l2"}
  LinkTo <- MCLinkTo
  Copied <- MCCopied
  White = "white"
  Layers <- MCLayers
  Nodes = {"usr", "lib", "file", "exe"}
  Parent <- MCParent
  TreeRoot = "usr"
  Trees <- MCTrees
  Apps <- MCApps
  Types = {"text"}
  Systems <- MCSystems
  Quirks <- MCQuirks
  Disks = {"medium", "good", "bad"}
  Names = {"sda", "sdb"}
  Fault <- MCFault
  InUse = {"medium"}
  Contents = {"none", "bare", "table"}
  MaxUnplugs = 1
  BlockDevices = {"A data", "A hash", "B data", "B hash"}
  Pairs <- MCPairs
  Number <- MCNumber
  Tables <- MCTables
  MaxRuns = 3
INVARIANTS
  TypeOK
  Restores
  Restored
  NeighbourFirst
  AskedFirst
  Trusted
CHECK_DEADLOCK FALSE
