----------------------------- MODULE ColumnMeta -----------------------------
(***************************************************************************)
(* ColumnMeta (include/.../meta/column_meta.h, src/odbc/src/meta/          *)
(* column_meta.cpp): the descriptor of one result column.  Its state is    *)
(* the optional fields, its operations the constructors (Init), the       *)
(* setters, and the three Read functions that fill a default-constructed  *)
(* descriptor from a bound introspection row or from the backend's        *)
(* ColumnInfo.  The two GetAttribute overloads are const: they are the    *)
(* operators AttrString and AttrLen, which the properties apply to every  *)
(* field identifier.                                                       *)
(***************************************************************************)
EXTENDS Integers, Sequences

CONSTANTS
  DatabaseAsSchema,  \* DATABASE_AS_SCHEMA
  None,              \* an optional that holds no value
  Names,             \* database, table, remarks and default texts
  ColumnNames,       \* column names the backend reports
  TypeTexts,         \* texts the DATA_TYPE binding may hold
  Positions,         \* ordinal positions ReadColumnMetadata is given
  Traits             \* type_traits: Traits[f][dataType], or None

VARIABLES
  text,              \* the optional string fields, by name
  columnInfo,        \* None, or the ColumnInfo's [name, scalarType]
  isAutoIncrement, dataType, precision, decimalDigits, scale, nullability,
  ordinalPosition,
  fresh              \* default-constructed and not yet read (no field of
                     \* the class: the code reads only such a descriptor)

vars == <<text, columnInfo, isAutoIncrement, dataType, precision,
          decimalDigits, scale, nullability, ordinalPosition, fresh>>

TextFields == {"catalogName", "schemaName", "tableName", "columnName",
               "remarks", "columnDef"}
ScalarTypes == {"NOT_SET", "BOOLEAN", "INT", "DOUBLE", "TIMESTAMP", "STRING"}
NullabilityTypes == {"NO_NULL", "NULLABLE", "NULLABILITY_UNKNOWN"}

\* ODBC codes (sql.h, sqlext.h).
SQL_NO_NULLS == 0
SQL_NULLABLE == 1
SQL_NULLABLE_UNKNOWN == 2
SQL_FALSE == 0
SQL_TRUE == 1
SQL_PRED_BASIC == 2
SQL_NAMED == 0
SQL_UNNAMED == 1
SQL_ATTR_READWRITE_UNKNOWN == 2

NoText == [f \in TextFields |-> None]

\* The database name goes to the schema or the catalog, by the mode flag.
WithDatabase(t, db) ==
  IF DatabaseAsSchema THEN [t EXCEPT !.schemaName = db]
  ELSE [t EXCEPT !.catalogName = db]

\* The constructors' common initialiser list.
Construct(t, type, nul, pre, dd) ==
  /\ text = t /\ columnInfo = None /\ isAutoIncrement = "NO"
  /\ dataType = type /\ precision = pre /\ decimalDigits = dd /\ scale = -1
  /\ nullability = nul /\ ordinalPosition = -1

DefaultCtor ==
  Construct(NoText, None, "NULLABILITY_UNKNOWN", -1, None) /\ fresh = TRUE

TableCtor(db, tbl) ==
  /\ Construct(WithDatabase([NoText EXCEPT !.tableName = tbl, !.columnName = ""], db),
               "NOT_SET", "NULLABILITY_UNKNOWN", -1, -1)
  /\ fresh = FALSE

\* ColumnMeta(databaseName, tableName, columnName, ScalarType|int16_t, Nullability)
ColumnCtor(db, tbl, col, type, nul) ==
  /\ Construct(WithDatabase([NoText EXCEPT !.tableName = tbl, !.columnName = col], db),
               type, nul, -1, -1)
  /\ fresh = FALSE

Init ==
  \/ DefaultCtor
  \/ \E db \in Names, tbl \in Names \cup {None} : TableCtor(db, tbl)
  \/ \E db \in Names, tbl \in Names, col \in ColumnNames, type \in ScalarTypes,
        nul \in NullabilityTypes : ColumnCtor(db, tbl, col, type, nul)

\* SetTableName, SetCatalogName, SetSchemaName, SetRemarks, SetColumnDef and
\* their ...Null counterparts.
Set(f, v) ==
  /\ text' = [text EXCEPT ![f] = v]
  /\ UNCHANGED <<columnInfo, isAutoIncrement, dataType, precision,
                 decimalDigits, scale, nullability, ordinalPosition, fresh>>

GetScalarDataType(s) ==
  CASE s = "STRING" -> "STRING"       [] s = "DOUBLE" -> "DOUBLE"
    [] s = "BOOLEAN" -> "BOOLEAN"     [] s = "TIMESTAMP" -> "TIMESTAMP"
    [] s = "INTEGER" -> "INT"         [] OTHER -> "NOT_SET"

MeasureColumns == {"int_value", "boolean_value", "double_value", "string_value"}

\* A bound introspection row: which of the bindings 1..3 the map holds and
\* what they hold (third = None is SQL_NULL_DATA).
Bindings == [present : SUBSET (1..3), name : ColumnNames, type : TypeTexts,
             third : Names \cup {None}]

\* The measure-name test made on the name the descriptor held before.
ReadRowStaleName(b, pos, withRemarks) ==
  LET t1 == [text EXCEPT !.columnName = b.name]
      t3 == IF withRemarks THEN [t1 EXCEPT !.remarks = b.third] ELSE t1
  IN
  /\ fresh /\ fresh' = FALSE
  /\ text' = IF 1 \notin b.present THEN text
             ELSE IF {2, 3} \subseteq b.present THEN t3 ELSE t1
  /\ dataType' = IF {1, 2} \subseteq b.present
                 THEN GetScalarDataType(b.type) ELSE dataType
  /\ IF b.present = 1..3
     THEN /\ nullability' = IF text.columnName \in MeasureColumns THEN "NULLABLE"
                            ELSE "NO_NULL"
          /\ ordinalPosition' = pos
     ELSE UNCHANGED <<nullability, ordinalPosition>>
  /\ UNCHANGED <<columnInfo, isAutoIncrement, precision, decimalDigits, scale>>

\* ReadColumnMetadata and Read return at the first missing binding, keeping
\* what they have assigned so far.  Read also takes REMARKS from binding 3.
ReadRow(b, pos, withRemarks) ==
  LET t1 == [text EXCEPT !.columnName = b.name]
      t3 == IF withRemarks THEN [t1 EXCEPT !.remarks = b.third] ELSE t1
  IN
  /\ fresh /\ fresh' = FALSE
  /\ text' = IF 1 \notin b.present THEN text
             ELSE IF {2, 3} \subseteq b.present THEN t3 ELSE t1
  /\ dataType' = IF {1, 2} \subseteq b.present
                 THEN GetScalarDataType(b.type) ELSE dataType
  /\ IF b.present = 1..3
     THEN /\ nullability' = IF b.name \in MeasureColumns THEN "NULLABLE"
                            ELSE "NO_NULL"
          /\ ordinalPosition' = pos
     ELSE UNCHANGED <<nullability, ordinalPosition>>
  /\ UNCHANGED <<columnInfo, isAutoIncrement, precision, decimalDigits, scale>>

\* Ordinal positions counted from 0.
ReadColumnMetadataZeroBased(b, pos) == ReadRow(b, pos - 1, FALSE)

ReadColumnMetadata(b, pos) == ReadRow(b, pos, FALSE)

Read(b, pos) == ReadRow(b, pos, TRUE)

\* ReadMetadata: the column's name and, when the ColumnType has one, its
\* scalar type; otherwise (an array or row column) STRING.
ReadMetadata(info) ==
  /\ fresh /\ fresh' = FALSE
  /\ columnInfo' = info
  /\ text' = [text EXCEPT !.columnName = info.name]
  /\ dataType' = IF info.scalarType = None THEN "STRING" ELSE info.scalarType
  /\ UNCHANGED <<isAutoIncrement, precision, decimalDigits, scale, nullability,
                 ordinalPosition>>

Infos == [name : ColumnNames, scalarType : ScalarTypes \cup {None}]

Next ==
  \/ \E f \in TextFields \ {"columnName"}, v \in Names \cup {None} : Set(f, v)
  \/ \E b \in Bindings, pos \in Positions : ReadColumnMetadata(b, pos) \/ Read(b, pos)
  \/ \E info \in Infos : ReadMetadata(info)

Spec == Init /\ [][Next]_vars

-----------------------------------------------------------------------------
(* The GetAttribute overloads, answering [found, value].                   *)

GetScalarType == IF dataType = None THEN "NOT_SET" ELSE dataType

\* Nullability::ToSql; the assert(false) past the switch is unreachable,
\* since nullability only ever holds one of the enum's values.
ToSql(n) ==
  CASE n = None -> SQL_NULLABLE_UNKNOWN
    [] n = "NO_NULL" -> SQL_NO_NULLS
    [] n = "NULLABLE" -> SQL_NULLABLE
    [] n = "NULLABILITY_UNKNOWN" -> SQL_NULLABLE_UNKNOWN

\* LexicalCast<std::string> of an integer.
RECURSIVE DecimalText(_)
DecimalText(n) ==
  IF n < 0 THEN "-" \o DecimalText(-n)
  ELSE IF n < 10 THEN SubSeq("0123456789", n + 1, n + 1)
  ELSE DecimalText(n \div 10) \o DecimalText(n % 10)

Unset(v) == v = None \/ v = -1
OrEmpty(v) == IF v = None THEN "" ELSE v
Answer(found, v) == [found |-> found, value |-> v]

\* GetAttribute(fieldId, std::string&).
AttrString(f) ==
  CASE f \in {"LABEL", "BASE_COLUMN_NAME", "NAME"} ->
         Answer(TRUE, OrEmpty(text.columnName))
    [] f \in {"TABLE_NAME", "BASE_TABLE_NAME"} -> Answer(TRUE, OrEmpty(text.tableName))
    [] f = "SCHEMA_NAME" -> Answer(TRUE, OrEmpty(text.schemaName))
    [] f = "CATALOG_NAME" -> Answer(TRUE, OrEmpty(text.catalogName))
    [] f \in {"LITERAL_PREFIX", "LITERAL_SUFFIX"} ->
         Answer(TRUE, IF GetScalarType = "STRING" THEN "'" ELSE "")
    [] f \in {"TYPE_NAME", "LOCAL_TYPE_NAME"} ->
         Answer(TRUE, OrEmpty(Traits.typeName[dataType]))
    [] f \in {"PRECISION", "COLUMN_LENGTH", "COLUMN_PRECISION"} ->
         IF Unset(precision) THEN Answer(FALSE, "")
         ELSE Answer(TRUE, DecimalText(precision))
    [] f \in {"SCALE", "COLUMN_SCALE"} ->
         IF Unset(scale) THEN Answer(FALSE, "") ELSE Answer(TRUE, DecimalText(scale))
    [] OTHER -> Answer(FALSE, "")

\* A type_traits lookup; -1 stays when it has no value.
Trait(f) == IF Traits[f][dataType] = None THEN -1 ELSE Traits[f][dataType]

\* The precision branch with the -1 sentinel forgotten.
ColumnPrecisionNoSentinel ==
  IF dataType # None /\ precision = None THEN Trait("columnSize")
  ELSE IF precision # None THEN precision ELSE -1

ColumnPrecision ==
  IF dataType # None /\ Unset(precision) THEN Trait("columnSize")
  ELSE IF precision # None THEN precision ELSE -1

ColumnScale ==
  IF dataType # None /\ Unset(scale) THEN Trait("decimalDigits")
  ELSE IF scale # None THEN scale ELSE -1

\* GetAttribute(fieldId, SqlLen&).
AttrLen(f) ==
  CASE f = "FIXED_PREC_SCALE" ->
         Answer(TRUE, IF Unset(precision) \/ Unset(scale) \/ scale = 0
                      THEN SQL_FALSE ELSE SQL_TRUE)
    [] f = "AUTO_UNIQUE_VALUE" ->
         Answer(TRUE, IF isAutoIncrement = "YES" THEN SQL_TRUE ELSE SQL_FALSE)
    [] f = "CASE_SENSITIVE" ->
         Answer(TRUE, IF GetScalarType = "STRING" THEN SQL_TRUE ELSE SQL_FALSE)
    [] f \in {"CONCISE_TYPE", "TYPE"} -> Answer(TRUE, Trait("sqlType"))
    [] f \in {"LENGTH", "COLUMN_LENGTH", "DISPLAY_SIZE"} ->
         Answer(TRUE, Trait("displaySize"))
    [] f = "OCTET_LENGTH" -> Answer(TRUE, Trait("transferLength"))
    [] f = "NULLABLE" -> Answer(TRUE, ToSql(nullability))
    [] f = "NUM_PREC_RADIX" -> Answer(TRUE, Trait("numPrecRadix"))
    [] f \in {"PRECISION", "COLUMN_PRECISION"} -> Answer(TRUE, ColumnPrecision)
    [] f \in {"SCALE", "COLUMN_SCALE"} -> Answer(TRUE, ColumnScale)
    [] f = "SEARCHABLE" -> Answer(TRUE, SQL_PRED_BASIC)
    [] f = "UNNAMED" ->
         Answer(TRUE, IF text.columnName \notin {None, ""} THEN SQL_NAMED
                      ELSE SQL_UNNAMED)
    [] f = "UNSIGNED" ->
         Answer(TRUE, IF Traits.unsigned[dataType] = TRUE THEN SQL_TRUE ELSE SQL_FALSE)
    [] f = "UPDATABLE" -> Answer(TRUE, SQL_ATTR_READWRITE_UNKNOWN)
    [] OTHER -> Answer(FALSE, -1)

-----------------------------------------------------------------------------
TypeOK ==
  /\ text \in [TextFields -> Names \cup ColumnNames \cup {None}]
  /\ columnInfo \in Infos \cup {None}
  /\ isAutoIncrement = "NO"
  /\ dataType \in ScalarTypes \cup {None}
  /\ precision = -1 /\ scale = -1 /\ decimalDigits \in {-1, None}
  /\ nullability \in NullabilityTypes
  /\ ordinalPosition \in Positions \cup {-1}
  /\ fresh \in BOOLEAN

\* SQLColAttribute(SQL_DESC_NULLABLE) reports where the descriptor came from:
\* a descriptor filled from a whole system.columns row (ReadColumnMetadata or
\* Read, the only writers of ordinalPosition) is nullable exactly when the
\* column is one of the measure columns and never "unknown"; one filled from
\* the backend's ColumnInfo (ReadMetadata) is "unknown".
NullabilityAnswer ==
  LET ans == AttrLen("NULLABLE").value
  IN  /\ ordinalPosition # -1 =>
           /\ ans # SQL_NULLABLE_UNKNOWN
           /\ (ans = SQL_NULLABLE) = (text.columnName \in MeasureColumns)
      /\ columnInfo # None => ans = SQL_NULLABLE_UNKNOWN

\* Spec 4.4: the string overload declines precision and scale unless an
\* override is stored, "signaling use the type's mapped default"; the
\* integer overload then answers exactly that default from type_traits, and
\* FIXED_PREC_SCALE is false.
MappedDefault(f) ==
  CASE f \in {"PRECISION", "COLUMN_PRECISION"} -> Trait("columnSize")
    [] f \in {"SCALE", "COLUMN_SCALE"} -> Trait("decimalDigits")
    [] f = "COLUMN_LENGTH" -> Trait("displaySize")

DefaultsSignalled ==
  dataType # None =>
    \A f \in {"PRECISION", "COLUMN_PRECISION", "SCALE", "COLUMN_SCALE",
              "COLUMN_LENGTH"} :
      ~AttrString(f).found =>
        /\ AttrLen(f) = Answer(TRUE, MappedDefault(f))
        /\ AttrLen("FIXED_PREC_SCALE").value = SQL_FALSE
=============================================================================
