SPECIFICATION FairSpec
CONSTANTS
  s1 = s1
  s2 = s2
  x = x
  y = y
  a = a
  b = b
  Servers = {s1, s2}
  Home = s1
  Buckets = {x, y}
  Keys = {a, b}
  Full <- MCFull
  Shared <- MCShared
  MaxOpens = 2
  MaxArrivals = 1
INVARIANTS
  UnmixedOnlyConfirmed
  ObjectsFirst
PROPERTIES
  DeletionEnds
CHECK_DEADLOCK FALSE
