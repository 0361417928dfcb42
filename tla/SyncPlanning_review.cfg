SPECIFICATION FairSpec
CONSTANTS
  x = x
  y = y
  f = f
  g = g
  a = a
  b = b
  c = c
  d = d
  Buckets = {x, y}
  Folders = {f, g}
  Nowhere = nowhere
  Objects <- MCObjects
  Holds <- MCHolds
  Configs <- MCConfigs
  TypedAbove = 2
  MaxStarts = 2
INVARIANTS
  TypeOK
  PlanningUnderWay
  ReviewedIsCurrent
  ConfirmedIsPlanned
  RunWithinGuardrails
  BigDeletesTyped
PROPERTIES
  PlanningEnds
