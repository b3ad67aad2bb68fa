CONSTANTS
  DatabaseAsSchema = FALSE
  None = None
  Empty = Empty
  All = All
  DatabaseArgs <- MCDatabaseArgs
  TableArgs <- MCTableArgs
  TableTypeLists <- MCTableTypeLists
  BackendTables <- MCBackendTables
  ExtraRows = 1
  Like <- MCLike
  Lower <- MCLower
  Upper <- MCUpper
SPECIFICATION Spec
INVARIANT
  EmptyResultIsWarning
