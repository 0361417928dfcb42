SPECIFICATION FairSpec
CONSTANTS
  s1 = s1
  s2 = s2
  a = a
  b = b
  c = c
  p = p
  q = q
  Servers = {s1, s2}
  Home = s1
  Keys = {a, b}
  PrefixNames = {p, q}
  Under <- MCUnder
  Full <- MCFull
  BATCH = 1
  MaxOpens = 2
INVARIANTS
  EachKeyOnce
  UnmixedOnlyConfirmed
PROPERTIES
  DeletionEnds
CHECK_DEADLOCK FALSE
