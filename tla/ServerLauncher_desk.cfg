SPECIFICATION FairSpec
CONSTANTS
  home = home
  work = work
  s3 = s3
  other = other
  disk = disk
  cluster = cluster
  None = None
  Torn = Torn
  OwnServer = OwnServer
  Names = {home, work}
  Servers = {s3, other, disk, cluster}
  AbixioServers = {disk, cluster}
  ClusterServers = {cluster}
  Keys = {1, 2}
  Configs <- MCConfigs
  FirstSettings <- MCFirst
  Parts <- MCParts
  MaxActs <- MCActs
  CAP = 1
  MaxLines = 2
  MaxStarts = 2
INVARIANTS
  SavedIsKept
  ShownIsOfServer
  OwnEvents
PROPERTIES
  ExitNoticed
CHECK_DEADLOCK FALSE
