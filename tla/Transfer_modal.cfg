SPECIFICATION FairSpec
CONSTANTS
  s1 = s1
  s2 = s2
  a = a
  b = b
  far = far
  Servers = {s1, s2}
  Names = {a, b}
  Conns = {far}
  ServerOf <- MCServerOf
  Home = s1
  Full <- MCFull
  MaxActs = 3
  MaxLoads = 1
INVARIANTS
  EachItemOnce
  NothingLost
PROPERTIES
  TransferEnds
CHECK_DEADLOCK FALSE
