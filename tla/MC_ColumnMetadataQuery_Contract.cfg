CONSTANTS
  DatabaseAsSchema = FALSE
  None = None
  Empty = Empty
  All = All
  DatabaseArgs <- MCDatabaseArgs
  TableArgs <- MCTableArgs
  BackendTables <- MCBackendTables
  ExtraRows = 1
  Like <- MCLike
  Lower <- MCLower
  Upper <- MCUpper
  ColumnArgs <- MCColumnArgs
  ColumnsOf <- MCColumnsOf
  MeasureColumns <- MCMeasureColumns
  StackTypes = {"NOT_SET"}
SPECIFICATION Spec

PROPERTY
  ImplementsContract
