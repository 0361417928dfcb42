SPECIFICATION Spec
CONSTANTS
  k = k
  km = km
  b1 = b1
  b2 = b2
  root = root
  sub = sub
  t1 = t1
  t2 = t2
  none = none
  draft = draft
  doc = doc
  Buckets = {b1, b2}
  Keys = {k, km}
  Below <- MCBelow
  Follows <- MCFollows
  MaxActs <- MCActs
  Tags = {t1, t2}
  MAX_TAGS = 2
  TagsAtFirst <- MCTags
  VersionsAtFirst <- MCVersions
  Texts = {none, draft, doc}
  NoText = none
  Normal <- MCNormal
  BucketTags = {t1, t2}
  PoliciesAtFirst <- MCPolicies
  BucketTagsAtFirst <- MCLabels
  Folders = {root, sub}
  Root = root
  Inside <- MCInside
  Filters = {{km}}
  StoredAtFirst <- MCStored
INVARIANTS
  NeverStuck
  ShownIsSelected
  TagsAsWished
  VersionsAsChosen
  SettledIsTrue
CHECK_DEADLOCK FALSE
