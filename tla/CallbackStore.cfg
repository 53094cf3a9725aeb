SPECIFICATION Spec
SYMMETRY IdSymmetry
CONSTANTS
  Ids = {a, b}
  Other = other
  Configs <- MCConfigs
  TTL = 1
  CleanupInterval = 2
  MaxTime = 4
  MaxDatagrams = 2
INVARIANT
  StoreExact
  PollIsTrue
