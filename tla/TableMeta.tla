----------------------------- MODULE TableMeta -----------------------------
(***************************************************************************)
(* TableMeta (include/.../meta/table_meta.h): the descriptor of one row of *)
(* the table enumeration, five optional strings.  The class has no        *)
(* behaviour beyond storing them, and the queries hold descriptors by      *)
(* value in a vector, so a descriptor is a record here and its            *)
(* constructor, setters and getters are operators on records.  The copy   *)
(* constructor and operator= copy all five fields, which a TLA+ value     *)
(* does by being a value.                                                   *)
(***************************************************************************)

CONSTANT None      \* boost::none

Fields == {"catalogName", "schemaName", "tableName", "tableType", "remarks"}

\* TableMeta(): every field boost::none.
TableMetaDefault == [f \in Fields |-> None]

\* SetTableName, SetTableType, SetCatalogName, SetSchemaName, SetRemarks.
Set(m, f, v) == [m EXCEPT ![f] = v]

\* SetCatalogNameNull, SetSchemaNameNull, SetRemarksNull.
SetNull(m, f) == Set(m, f, None)

\* GetCatalogName, GetSchemaName, GetTableName, GetTableType, GetRemarks.
Get(m, f) == m[f]

\* Read(tbType) is declared in table_meta.h and defined outside src/; spec
\* 4.2 step 1 has it produce the synthetic row of type tbType.
Read(m, tbType) == Set(m, "tableType", tbType)

=============================================================================
