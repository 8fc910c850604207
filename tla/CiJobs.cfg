SPECIFICATION FairSpec
CONSTANTS
  Missing = Missing
  Truncated = Truncated
  Years <- MCYears
  Modified = "modified"
  Order <- MCOrder
  MaxEntryRev = 3
  MaxCveFaults = 3
  Files <- MCFiles
  Elements = {"own", "included", "dep"}
  Foreign = {"sdk"}
  Source <- MCSource
  Includes <- MCIncludes
  TrackDependencies = FALSE
  Ignored = {"own"}
  Jobs = {1, 2}
  Minutes = {1, 2}
  MaxRef = 2
  MaxFailures = 2
  Histories <- MCHistories
  Same = 0
INVARIANTS
  TypeOK
  NotModifiedIsUsable
  Told
PROPERTIES
  Fresh
  NeverReverts
  CatchesUp
CHECK_DEADLOCK FALSE
