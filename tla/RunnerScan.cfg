\* Two services, fingerprinters that fail, remove or split, detectors, two
\* goroutines, and a second Run on the runner.
CONSTANTS
  MaxServices = 2
  MaxModules = 2
  MaxSplit = 2
  Concurrency = 2
  MaxRuns = 2
SPECIFICATION FairSpec
INVARIANTS
  ServicesExact
  FindingsExact
PROPERTY
  RunReturns
