\* Up to three ports, a fault, three calls that build a store.
SPECIFICATION TargetSpec
CONSTANTS
  Setups <- MCSetups
  MaxFaults = 1
  MaxCalls = 3
INVARIANTS
  ScanExact
  EnrichmentTrue
  CandidatesExact
  FindingsTrue
