SPECIFICATION ScannerSpec
CONSTANTS
  Schema <- MCSchema
  Parses <- MCParses
  Registrations <- MCRegistrations
  Accepts <- MCAccepts
  Catalog <- MCCatalog
  MaxSeries = 2
  Flags <- MCFlags
  HTTPClients <- MCHTTPClients
  Reachable <- MCReachable
  Detaching <- MCDetaching
  Error <- MCError
INVARIANTS
  SelectionExact
  ExitClean
  ExportExact
CHECK_DEADLOCK FALSE
