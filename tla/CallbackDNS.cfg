SPECIFICATION Spec
CONSTANTS
  Ids = {a, b}
  Other = other
  Configs <- OwnConfig
  TTL = 2
  CleanupInterval = 2
  MaxTime = 2
  MaxDatagrams = 2
INVARIANT
  QueriesRecorded
