SPECIFICATION FairSpec
CONSTANTS
  c1 = c1
  c2 = c2
  f = f
  g = g
  Calls = {c1, c2}
  Jobs <- MCJobs
  Keys <- MCKeys
  FolderOf <- MCFolderOf
  Files = {f, g}
  Contents <- MCContents
  Stored <- MCStored
  Saved <- MCSaved
  THRESHOLD = 2
  PART = 2
  PAGE = 1
  MAX_PARTS = 4
  MaxChanges = 1
INVARIANTS
  FullListing
  PartsCleared
PROPERTIES
  MadeOfTheSource
  CallsEnd
CHECK_DEADLOCK FALSE
