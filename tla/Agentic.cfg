SPECIFICATION Spec
SYMMETRY CallSymmetry
CONSTANTS
  Strategies <- MCStrategies
  Sites <- MCSites
  Turns = 2
  Calls = {c1, c2, c3}
  Parallel = 2
  MaxRequests = 1
  MaxAnswer = 2
  Forbidden = {"kill"}
  MaxRedirects = 2
  Service <- MCService
  Urls <- MCUrls
  Limit <- MCLimit
  Second = 4
  Attempts = 3
  RetryAfter = 6
  Backoff = 1
  Seconds = {7, 33}
  Dates = {5}
  Powers <- MCPowers
INVARIANT
  FindingsExact
  RetriesExact
  ToolKept
