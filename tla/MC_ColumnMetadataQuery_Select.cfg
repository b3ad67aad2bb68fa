CONSTANTS
  DatabaseAsSchema = FALSE
  None = None
  Empty = Empty
  All = All
  DatabaseArgs <- MCDatabaseArgs
  TableArgs <- MCTableArgsAnyCase
  BackendTables <- MCBackendTables
  ExtraRows = 1
  Like <- MCLike
  Lower <- MCLower
  Upper <- MCUpper
  ColumnArgs <- MCColumnArgsSpec
  ColumnsOf <- MCColumnsOf
  MeasureColumns <- MCMeasureColumns
  StackTypes = {"NOT_SET"}
SPECIFICATION Spec
INVARIANT
  ColumnsAsSpecified
