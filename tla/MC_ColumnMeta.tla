---------------------------- MODULE MC_ColumnMeta ----------------------------
(* TLC instance of ColumnMeta: the empty database and table names the      *)
(* query schemas pass plus one real name, a key column, a measure column   *)
(* and an empty name, each DATA_TYPE text class, and type_traits values     *)
(* as the driver's type mapping gives them for the SiteWise scalar types.  *)
EXTENDS ColumnMeta


MCNames == {"", "asset"}
MCColumnNames == {"asset_id", "int_value", ""}
MCTypeTexts == {"INTEGER", "STRING", "BLOB"}
MCPositions == {1, 2}

\* type_traits as the repository's unit tests (column_meta_test.cpp) expect
\* it: SQL_VARCHAR 12, SQL_BIT -7, SQL_INTEGER 4, SQL_DOUBLE 8,
\* SQL_TYPE_TIMESTAMP 93; NOT_SET is described as VARCHAR; None (no -1 in
\* type_traits) is "no value".  MaxLen stands for IOTSITEWISE_SQL_MAX_LENGTH,
\* which is defined outside src/.  A descriptor with no type maps to nothing.
MaxLen == 1024

Row(varchar, bit, int, dbl, ts, notSet) ==
  [t \in ScalarTypes \cup {None} |->
     CASE t = "STRING" -> varchar [] t = "BOOLEAN" -> bit [] t = "INT" -> int
       [] t = "DOUBLE" -> dbl [] t = "TIMESTAMP" -> ts [] t = "NOT_SET" -> notSet
       [] OTHER -> None]

MCTraits ==
  [typeName       |-> Row("VARCHAR", "BIT", "INTEGER", "DOUBLE", "TIMESTAMP", "NOT_SET"),
   sqlType        |-> Row(12, -7, 4, 8, 93, 12),
   displaySize    |-> Row(MaxLen, 1, 11, 24, 20, MaxLen),
   transferLength |-> Row(MaxLen, 1, 4, 8, 16, MaxLen),
   numPrecRadix   |-> Row(0, 10, 10, 2, 0, 0),
   columnSize     |-> Row(MaxLen, 1, 10, 15, 19, MaxLen),
   decimalDigits  |-> Row(None, None, 0, 15, None, None),
   unsigned       |-> Row(TRUE, FALSE, FALSE, FALSE, TRUE, TRUE)]
=============================================================================
