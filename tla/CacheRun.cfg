SPECIFICATION Spec
CONSTANTS
  Services <- MCServices
  Paths <- MCPaths
  Hashes <- MCHashes
  PageHash <- MCPageHash
  None = None
  Torn = Torn
  MaxCrashes = 1
INVARIANT
  CachedFits
  DiskExact
