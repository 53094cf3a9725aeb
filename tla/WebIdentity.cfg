SPECIFICATION Spec
CONSTANTS
  Pages <- MCPages
  Hashes <- MCHashes
  HashOf <- MCHashOf
  Size <- MCSize
  MaxFile = 3
  MaxSpace = 6
  Services <- MCServices
  IsWeb <- MCIsWeb
  AddressOf <- MCAddressOf
  ServiceOf <- MCServiceOf
  UrlOf <- MCUrlOf
  Files <- MCFiles
  Slots = 2
INVARIANTS
  SpaceKept
  RegistryExact
  ReportExact
  TrueVersionKept
