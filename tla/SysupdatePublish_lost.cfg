SPECIFICATION Spec
CONSTANTS
  old = old
  intel = intel
  arm = arm
  Jobs = {intel, arm}
  ArchOf <- OnePipeline
  MaxStarts = 2
INVARIANTS
  AllListed
CHECK_DEADLOCK FALSE
