--------------------- MODULE MC_ColumnMetadataQuery ---------------------
(***************************************************************************)
(* Model of ColumnMetadataQuery for TLC.  Two backend tables share the    *)
(* column "asset_id", so one column argument selects from both and the   *)
(* per-table numbering restarts; "int_value" is a measure column.  The    *)
(* table argument is an exact name, a prefix pattern, a missing name and,  *)
(* in MCTableArgsAnyCase, an upper-cased name; the column argument is an   *)
(* exact name and, in MCColumnArgsPattern / MCColumnArgsAnyCase, a LIKE    *)
(* pattern or an upper-cased name.                                        *)
(***************************************************************************)
EXTENDS ColumnMetadataQuery, TLC

MCBackendTables == {"asset", "asset_property"}
MCColumnsOf == [t \in MCBackendTables |->
                  IF t = "asset" THEN <<"asset_id", "int_value">>
                  ELSE <<"property_id", "asset_id">>]
MCMeasureColumns == {"int_value", "boolean_value", "double_value", "string_value"}
MCDatabaseArgs == {"sample"}
\* An empty or foreign text (NOT_SET) and leftover "INTEGER" bytes (INT).
MCStackTypes == {"NOT_SET", "INT"}
MCTableArgs == {"asset", "asset%", "nope"}
MCTableArgsAnyCase == MCTableArgs \cup {"ASSET"}
MCColumnArgs == {"asset_id"}
MCColumnArgsPattern == MCColumnArgs \cup {"int%"}
MCColumnArgsAnyCase == MCColumnArgs \cup {"INT_VALUE"}
MCColumnArgsSpec == MCColumnArgsPattern \cup MCColumnArgsAnyCase

MCLower(s) ==
  IF s = "ASSET" THEN "asset" ELSE s

MCUpper(s) ==
  CASE s = "asset"           -> "ASSET"
    [] s = "asset_property"  -> "ASSET_PROPERTY"
    [] s = "nope"            -> "NOPE"
    [] s = "asset_id"        -> "ASSET_ID"
    [] s = "int_value"       -> "INT_VALUE"
    [] s = "property_id"     -> "PROPERTY_ID"
    [] OTHER                 -> s

\* LIKE: "asset%" and "int%" select by prefix, anything else literally.
MCLike(p, n) ==
  CASE p = "asset%" -> n \in {"asset", "asset_property"}
    [] p = "int%"   -> n = "int_value"
    [] OTHER        -> p = n

=============================================================================
