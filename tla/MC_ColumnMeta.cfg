CONSTANTS
  DatabaseAsSchema = FALSE
  None = None
  Names <- MCNames
  ColumnNames <- MCColumnNames
  TypeTexts <- MCTypeTexts
  Positions <- MCPositions
  Traits <- MCTraits
INIT Init
NEXT Next
INVARIANT TypeOK
INVARIANT NullabilityAnswer
INVARIANT DefaultsSignalled
