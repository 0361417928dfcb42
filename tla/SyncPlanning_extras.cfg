SPECIFICATION Spec
CONSTANTS
  x = x
  y = y
  f = f
  g = g
  a = a
  b = b
  c = c
  d = d
  Buckets = {x, y}
  Folders = {f, g}
  Nowhere = nowhere
  Objects <- MCObjects
  Holds <- MCHolds
  Configs <- MCOneConfig
  TypedAbove = 2
  MaxStarts = 1
INVARIANTS
  DeletesOnlyExtras
