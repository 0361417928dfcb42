SPECIFICATION PlannerSpec
CONSTANTS
  bucket = bucket
  backup = backup
  folder = folder
  Spaces = {bucket, backup, folder}
  Keys <- MCKeys
  Data = {1, 2, 3}
  Size <- MCSize
  BigSize = 2
  SpoolSize = 1
  Setups <- MCSetups
  StoresAtFirst <- MCStores
  Unit = 2
  Limit = 8
  BATCH = 2
  Start = 4
  MaxNow = 6
  MaxWrites <- MCWrites
  MaxPlans = 2
INVARIANTS
  Converges
  SettlesDown
  PatternsAsMeant
PROPERTIES
  NewerKept
  DeletesAreExtras
CHECK_DEADLOCK FALSE
