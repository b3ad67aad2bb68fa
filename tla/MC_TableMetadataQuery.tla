---------------------- MODULE MC_TableMetadataQuery ----------------------
(***************************************************************************)
(* Model of TableMetadataQuery for TLC.  The backend holds two of the     *)
(* IoT SiteWise system tables (all lower case, as the service names them); *)
(* the table argument is one exact name, the same name upper-cased, a     *)
(* prefix pattern and a name the backend lacks.  LIKE is case-sensitive.   *)
(***************************************************************************)
EXTENDS TableMetadataQuery, TLC

MCBackendTables == {"asset", "asset_property"}
MCTableArgs == {"asset", "ASSET", "asset%", "nope"}
MCDatabaseArgs == {"sample"}

Tok(w, q, p) == [word |-> w, quote |-> q, pad |-> p]

\* TABLE plain, quoted and padded; VIEW alone; VIEW then a quoted TABLE.
MCTableTypeLists ==
  { <<Tok("TABLE", "none", "none")>>,
    <<Tok("TABLE", "single", "outside")>>,
    <<Tok("VIEW", "none", "none")>>,
    <<Tok("VIEW", "none", "none"), Tok("TABLE", "double", "none")>> }

\* Adds the spellings the spec says must also select "TABLE": lower case and
\* blanks inside the quotes.
MCTableTypeListsAnyCase ==
  MCTableTypeLists \cup
  { <<Tok("table", "none", "none")>>,
    <<Tok("TABLE", "single", "inside")>> }

MCLower(s) ==
  IF s = "ASSET" THEN "asset" ELSE s

MCUpper(s) ==
  CASE s = "asset"           -> "ASSET"
    [] s = "asset_property"  -> "ASSET_PROPERTY"
    [] s = "nope"            -> "NOPE"
    [] s = "table"           -> "TABLE"
    [] OTHER                 -> s

\* "asset%" selects every name starting with "asset"; anything else is a
\* literal here ("%" itself never reaches LIKE: getMatchedTables drops the
\* WHERE clause for it).
MCLike(p, n) ==
  IF p = "asset%" THEN n \in {"asset", "asset_property"} ELSE p = n

=============================================================================
