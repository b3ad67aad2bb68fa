------------------------- MODULE UnsupportedQuery -------------------------
(***************************************************************************)
(* The catalog functions the backend cannot answer: ForeignKeysQuery       *)
(* (src/odbc/src/query/foreign_keys_query.cpp) and SpecialColumnsQuery     *)
(* (special_columns_query.cpp).  Each declares the standard result schema  *)
(* in its constructor and then answers every call with a constant: Execute *)
(* a warning, FetchNextRow and GetColumn "no data", Close and Cancel       *)
(* success.  The object holds no state that a call changes, so the model's *)
(* only variables are the last call's answers.                             *)
(*                                                                         *)
(* GetMeta's descriptors are ColumnMeta values built by the five-argument  *)
(* constructor; Descriptor(i) instantiates the ColumnMeta module with the  *)
(* fields that constructor stores, so their GetAttribute answers are the   *)
(* Descriptor Model's own.                                                 *)
(***************************************************************************)
EXTENDS Integers, Sequences

CONSTANTS
  DatabaseAsSchema,  \* DATABASE_AS_SCHEMA
  None,              \* an optional that holds no value
  Traits,            \* type_traits, as ColumnMeta takes it
  Kind               \* QueryType: "FOREIGN_KEYS" or "SPECIAL_COLUMNS"

ASSUME Kind \in {"FOREIGN_KEYS", "SPECIAL_COLUMNS"}

VARIABLES
  ret,               \* [op, code]: the last Execute/FetchNextRow/Close/Cancel
  colRet             \* [idx, code]: the last GetColumn

vars == <<ret, colRet>>

\* ColumnMeta(sch, tbl, name, ScalarType, Nullability), sch = tbl = "".
Col(name, type, nul) == [name |-> name, type |-> type, nul |-> nul]

ForeignKeysColumns ==
  << Col("PKTABLE_CAT", "STRING", "NULLABLE"),
     Col("PKTABLE_SCHEM", "STRING", "NULLABLE"),
     Col("PKTABLE_NAME", "STRING", "NO_NULL"),
     Col("PKCOLUMN_NAME", "STRING", "NO_NULL"),
     Col("FKTABLE_CAT", "STRING", "NULLABLE"),
     Col("FKTABLE_SCHEM", "STRING", "NULLABLE"),
     Col("FKTABLE_NAME", "STRING", "NO_NULL"),
     Col("FKCOLUMN_NAME", "STRING", "NO_NULL"),
     Col("KEY_SEQ", "INT", "NO_NULL"),
     Col("UPDATE_RULE", "INT", "NULLABLE"),
     Col("DELETE_RULE", "INT", "NULLABLE"),
     Col("FK_NAME", "STRING", "NULLABLE"),
     Col("PK_NAME", "STRING", "NULLABLE"),
     Col("DEFERRABILITY", "INT", "NULLABLE") >>

SpecialColumnsColumns ==
  << Col("SCOPE", "INT", "NULLABLE"),
     Col("COLUMN_NAME", "STRING", "NO_NULL"),
     Col("DATA_TYPE", "INT", "NO_NULL"),
     Col("TYPE_NAME", "STRING", "NO_NULL"),
     Col("COLUMN_SIZE", "INT", "NULLABLE"),
     Col("BUFFER_LENGTH", "INT", "NULLABLE"),
     Col("DECIMAL_DIGITS", "INT", "NULLABLE"),
     Col("PSEUDO_COLUMN", "INT", "NULLABLE") >>

\* GetMeta: the constructor's columnsMeta, fixed for the life of the query.
columnsMeta ==
  IF Kind = "FOREIGN_KEYS" THEN ForeignKeysColumns ELSE SpecialColumnsColumns

\* The fields ColumnMeta(databaseName, tableName, columnName, type,
\* nullability) stores, with databaseName = tableName = "".
DescriptorText(c) ==
  [catalogName |-> IF DatabaseAsSchema THEN None ELSE "",
   schemaName  |-> IF DatabaseAsSchema THEN "" ELSE None,
   tableName   |-> "", columnName |-> c.name, remarks |-> None,
   columnDef   |-> None]

Descriptor(i) ==
  INSTANCE ColumnMeta WITH
    Names <- {""}, ColumnNames <- {columnsMeta[i].name}, TypeTexts <- {},
    Positions <- {},
    text <- DescriptorText(columnsMeta[i]), columnInfo <- None,
    isAutoIncrement <- "NO", dataType <- columnsMeta[i].type,
    precision <- -1, decimalDigits <- -1, scale <- -1,
    nullability <- columnsMeta[i].nul, ordinalPosition <- -1,
    fresh <- FALSE

Init ==
  /\ ret = [op |-> "Init", code |-> "SUCCESS"]
  /\ colRet = [idx |-> 0, code |-> "SUCCESS"]

\* Execute: adds the "is not supported. Return empty result set." warning.
Execute ==
  /\ ret' = [op |-> "Execute", code |-> "SUCCESS_WITH_INFO"]
  /\ UNCHANGED colRet

\* FetchNextRow: a warning and "no data", whether executed or not.
FetchNextRow ==
  /\ ret' = [op |-> "FetchNextRow", code |-> "NO_DATA"]
  /\ UNCHANGED colRet

\* GetColumn: a warning and "no data" for every index.
GetColumn(idx) ==
  /\ colRet' = [idx |-> idx, code |-> "NO_DATA"]
  /\ UNCHANGED ret

Close ==
  /\ ret' = [op |-> "Close", code |-> "SUCCESS"]
  /\ UNCHANGED colRet

Cancel ==
  /\ ret' = [op |-> "Cancel", code |-> "SUCCESS"]
  /\ UNCHANGED colRet

\* The const queries.
DataAvailable == FALSE

AffectedRows == 0

NextResultSet == "NO_DATA"

\* Query::RowNumber, which neither class overrides.
RowNumber == 0

Next ==
  \/ Execute
  \/ FetchNextRow
  \/ \E idx \in 1..Len(columnsMeta) + 1 : GetColumn(idx)
  \/ Close
  \/ Cancel

Spec == Init /\ [][Next]_vars

=============================================================================
