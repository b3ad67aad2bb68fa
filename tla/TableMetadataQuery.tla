------------------------ MODULE TableMetadataQuery ------------------------
(***************************************************************************)
(* TableMetadataQuery (src/odbc/src/query/table_metadata_query.cpp): the  *)
(* SQLTables emulation.  The constructor fixes the arguments and the three *)
(* special cases (all catalogs, all schemas, all table types); Execute     *)
(* issues "SELECT table_name FROM system.tables [WHERE table_name LIKE     *)
(* '<lower-cased pattern>']" through a DataQuery, filters and de-duplicates *)
(* the answer into meta; FetchNextRow and GetColumn walk meta with a       *)
(* cursor; Close and Cancel drop it.                                       *)
(*                                                                         *)
(* Names are abstract values; the backend's LIKE, ::tolower and ToUpper    *)
(* are constant operators the model instantiates over them.  A table-type  *)
(* list element is a record [word, quote, pad] standing for the text       *)
(* between two commas: quote is "none", "single", "double" or              *)
(* "unbalanced"; pad is "none", "outside" (blanks around the quotes) or    *)
(* "inside" (blanks inside the quotes).                                    *)
(***************************************************************************)
EXTENDS Naturals, Sequences, SequencesExt

CONSTANTS
  DatabaseAsSchema,  \* DATABASE_AS_SCHEMA: databases are reported as schemas
  None,              \* boost::none (an absent argument or a NULL column)
  Empty,             \* the empty string
  All,               \* "%" = SQL_ALL_CATALOGS = SQL_ALL_SCHEMAS = SQL_ALL_TABLE_TYPES
  DatabaseArgs,      \* catalog/schema arguments other than None, Empty and All
  TableArgs,         \* table-name arguments other than None, Empty and All
  TableTypeLists,    \* table-type arguments that are comma-separated lists
  BackendTables,     \* the names system.tables holds
  ExtraRows,         \* how many repeated names one system.tables answer carries at most
  Like(_, _),        \* Like(p, n): the backend's LIKE of name n against pattern p
  Lower(_),          \* std::transform(..., ::tolower)
  Upper(_)           \* Aws::Utils::StringUtils::ToUpper

ASSUME ExtraRows \in Nat

VARIABLES
  metadataId,        \* connection.GetMetadataID() (SQL_ATTR_METADATA_ID)
  catalog, schema, table, tableType,   \* the constructor's arguments
  executed, fetched,
  meta,              \* the TableMeta vector: one table name per row (None: no name)
  cursor,            \* index into meta; Len(meta)+1 is meta.end()
  ret,               \* [op, code]: the last Execute/FetchNextRow/Close/Cancel and its return
  colRet             \* [idx, code, beforeFirst]: the last GetColumn

vars == <<metadataId, catalog, schema, table, tableType, executed, fetched,
          meta, cursor, ret, colRet>>

Codes == {"SUCCESS", "SUCCESS_WITH_INFO", "ERROR", "NO_DATA"}
Succeeded(code) == code \in {"SUCCESS", "SUCCESS_WITH_INFO"}
ResultColumns == 1..5          \* TABLE_CAT, TABLE_SCHEM, TABLE_NAME, TABLE_TYPE, REMARKS
\* GetColumn's index: every result column takes the same path through
\* GetColumn, so one stands for all; 6 is past the last result column.
ColumnIndices == {1, 6}
DatabaseValues == {None, Empty, All} \cup DatabaseArgs
TableValues == {None, Empty, All} \cup TableArgs
TableTypeValues == {None, Empty, All} \cup TableTypeLists
End == Len(meta) + 1

-----------------------------------------------------------------------------
(* Constructor: the special cases, fixed for the life of the query.       *)

all_catalogs ==
  /\ ~metadataId
  /\ catalog = All /\ schema = Empty /\ table = Empty

all_schemas ==
  /\ ~metadataId
  /\ schema = All /\ catalog = Empty /\ table = Empty

all_table_types ==
  /\ tableType = All
  /\ catalog = Empty /\ schema = Empty /\ table = Empty

\* The result columns columnsMeta declares Nullability::NO_NULL.
NotNullColumns ==
  CASE all_catalogs    -> IF DatabaseAsSchema THEN {} ELSE {1}
    [] all_schemas     -> IF DatabaseAsSchema THEN {2} ELSE {}
    [] all_table_types -> {4}
    [] OTHER           -> {3, 4}

TM == INSTANCE TableMeta

\* The TableMeta each row holds: getTables appends a default TableMeta and
\* sets its name, the type "TABLE", and catalog, schema and remarks to
\* NULL; the enumerate-table-types row is a default TableMeta that Read the
\* type "TABLE" (None stands for its name).
TableRow(name) ==
  IF name = None THEN TM!Read(TM!TableMetaDefault, "TABLE")
  ELSE LET named == TM!Set(TM!Set(TM!TableMetaDefault, "tableName", name),
                           "tableType", "TABLE")
       IN  TM!SetNull(TM!SetNull(TM!SetNull(named, "catalogName"), "schemaName"),
                      "remarks")

\* GetColumn's switch: result column col is the getter of one field.
ResultFields == <<"catalogName", "schemaName", "tableName", "tableType", "remarks">>

RowValue(name, col) == TM!Get(TableRow(name), ResultFields[col])

-----------------------------------------------------------------------------
(* Table-type list parsing in MakeRequestGetTablesMeta.                     *)

Trim(tok) ==
  IF tok.pad = "outside" THEN [tok EXCEPT !.pad = "none"] ELSE tok

dequote(tok) ==
  IF tok.quote \in {"single", "double"} THEN [tok EXCEPT !.quote = "none"] ELSE tok

IsTableType(tok) ==
  tok = [word |-> "TABLE", quote |-> "none", pad |-> "none"]

ValidTableType ==
  \/ tableType \in {None, Empty, All}
  \/ \E i \in DOMAIN tableType : IsTableType(dequote(Trim(tableType[i])))

-----------------------------------------------------------------------------
(* The DataQuery that runs the system.tables query (not under src/): it   *)
(* fails, answers "no data" when nothing matches, or succeeds with the     *)
(* matching names in some order, a name possibly repeated.                 *)

DataQueryOutcomes(matching) ==
  {[code |-> "ERROR", rows |-> <<>>]}
  \cup (IF matching = {} THEN {[code |-> "NO_DATA", rows |-> <<>>]} ELSE {})
  \cup {[code |-> "SUCCESS", rows |-> s] :
          s \in {s \in BoundedSeq(matching, Cardinality(matching) + ExtraRows) :
                   ToSet(s) = matching}}

\* getTables: the pattern the table argument stands for.
TablePattern ==
  IF table = None \/ table = Empty THEN All ELSE table

\* getMatchedTables: no WHERE clause for "%", else LIKE on the lower-cased pattern.
MatchedBy(pattern) ==
  IF pattern = All THEN BackendTables
  ELSE {t \in BackendTables : Like(Lower(pattern), t)}

getMatchedTables(out) ==
  CASE out.code = "NO_DATA" -> [code |-> "SUCCESS_WITH_INFO", names |-> <<>>]
    [] out.code = "ERROR"   -> [code |-> "ERROR", names |-> <<>>]
    [] OTHER                -> [code |-> "SUCCESS", names |-> out.rows]

\* Mutant: the alreadyExists check dropped.
AddTableNoDedup(acc, name) ==
  IF metadataId /\ Upper(table) # Upper(name) THEN acc ELSE Append(acc, name)

\* One iteration of getTables' loop: skip a name already in meta; in
\* identifier mode keep only a case-insensitive match of the table argument.
AddTable(acc, name) ==
  IF \/ name \in ToSet(acc)
     \/ metadataId /\ Upper(table) # Upper(name)
  THEN acc
  ELSE Append(acc, name)

getTables(out) ==
  IF metadataId /\ table = None
  THEN [code |-> "ERROR", meta |-> <<>>]
  ELSE LET m == getMatchedTables(out) IN
       IF m.code # "SUCCESS"
       THEN [code |-> m.code, meta |-> <<>>]
       ELSE [code |-> "SUCCESS", meta |-> FoldLeft(AddTable, <<>>, m.names)]

MakeRequestGetTablesMeta(out) ==
  CASE all_table_types  -> [code |-> "SUCCESS", meta |-> <<None>>]
    [] ~ValidTableType  -> [code |-> "SUCCESS_WITH_INFO", meta |-> <<>>]
    [] OTHER            -> getTables(out)

-----------------------------------------------------------------------------

Init ==
  /\ metadataId \in BOOLEAN
  /\ catalog \in DatabaseValues
  /\ schema \in DatabaseValues
  /\ table \in TableValues
  /\ tableType \in TableTypeValues
  /\ executed = FALSE
  /\ fetched = FALSE
  /\ meta = <<>>
  /\ cursor = 1
  /\ ret = [op |-> "Init", code |-> "SUCCESS"]
  /\ colRet = [idx |-> 0, code |-> "SUCCESS", beforeFirst |-> FALSE]

Args == <<metadataId, catalog, schema, table, tableType>>

\* Execute: Close() when executed, then MakeRequestGetTablesMeta; on success
\* the cursor is put on meta.begin().
Execute ==
  \E out \in DataQueryOutcomes(MatchedBy(TablePattern)) :
    LET r == MakeRequestGetTablesMeta(out) IN
    /\ ret' = [op |-> "Execute", code |-> r.code]
    /\ meta' = r.meta
    /\ cursor' = 1
    /\ executed' = Succeeded(r.code)
    /\ fetched' = IF Succeeded(r.code) THEN FALSE ELSE fetched
    /\ UNCHANGED <<Args, colRet>>

FetchNotExecuted ==
  /\ ~executed
  /\ ret' = [op |-> "FetchNextRow", code |-> "ERROR"]
  /\ UNCHANGED <<Args, executed, fetched, meta, cursor, colRet>>

FetchEmpty ==
  /\ executed
  /\ meta = <<>>
  /\ ret' = [op |-> "FetchNextRow", code |-> "NO_DATA"]
  /\ UNCHANGED <<Args, executed, fetched, meta, cursor, colRet>>

\* Mutant: the cursor advanced without comparing it with meta.end().
FetchNextPastEnd ==
  /\ executed
  /\ meta # <<>>
  /\ fetched' = TRUE
  /\ cursor' = IF fetched THEN cursor + 1 ELSE cursor
  /\ ret' = [op |-> "FetchNextRow",
             code |-> IF cursor' >= End THEN "NO_DATA" ELSE "SUCCESS"]
  /\ UNCHANGED <<Args, executed, meta, colRet>>

\* Mutant: no special first fetch; every fetch advances the cursor.
FetchNextSkipsFirst ==
  /\ executed
  /\ meta # <<>>
  /\ fetched' = TRUE
  /\ cursor' = IF cursor # End THEN cursor + 1 ELSE cursor
  /\ ret' = [op |-> "FetchNextRow",
             code |-> IF cursor' = End THEN "NO_DATA" ELSE "SUCCESS"]
  /\ UNCHANGED <<Args, executed, meta, colRet>>

\* Mutant: a later fetch leaves the cursor where it is.
FetchNextNoAdvance ==
  /\ executed
  /\ meta # <<>>
  /\ fetched' = TRUE
  /\ cursor' = cursor
  /\ ret' = [op |-> "FetchNextRow",
             code |-> IF cursor' = End THEN "NO_DATA" ELSE "SUCCESS"]
  /\ UNCHANGED <<Args, executed, meta, colRet>>

\* The first fetch stays on meta.begin(); later ones advance until meta.end().
FetchNext ==
  /\ executed
  /\ meta # <<>>
  /\ fetched' = TRUE
  /\ cursor' = IF fetched /\ cursor # End THEN cursor + 1 ELSE cursor
  /\ ret' = [op |-> "FetchNextRow",
             code |-> IF cursor' = End THEN "NO_DATA" ELSE "SUCCESS"]
  /\ UNCHANGED <<Args, executed, meta, colRet>>

FetchNextRow == FetchNotExecuted \/ FetchEmpty \/ FetchNext

\* GetColumn writes into the caller's buffer only; any index past the last
\* result column falls through the switch and still succeeds.
GetColumn(idx) ==
  /\ colRet' = [idx |-> idx,
                code |-> CASE ~executed     -> "ERROR"
                           [] meta = <<>>   -> "NO_DATA"
                           [] cursor = End  -> "ERROR"
                           [] OTHER         -> "SUCCESS",
                beforeFirst |-> executed /\ meta # <<>> /\ ~fetched]
  /\ UNCHANGED <<Args, executed, fetched, meta, cursor, ret>>

\* The const queries of the cursor: they change nothing the model records
\* (RowNumber's "Cursor does not point to any data" goes to the diagnostics).
DataAvailable == executed /\ meta # <<>> /\ cursor # End

AffectedRows == 0

NextResultSet == "NO_DATA"

\* cursor - meta.begin() + 1, with meta.begin() at index 1.
RowNumber ==
  IF ~executed \/ cursor = End THEN 0 ELSE cursor

Drop(op) ==
  /\ meta' = <<>>
  /\ cursor' = 1
  /\ executed' = FALSE
  /\ ret' = [op |-> op, code |-> "SUCCESS"]
  /\ UNCHANGED <<Args, fetched, colRet>>

Close == Drop("Close")

\* Cancel: the DataQuery has already run to completion inside Execute, so
\* dataQuery_->Cancel() changes nothing here; then Close().
Cancel == Drop("Cancel")

Next ==
  \/ Execute
  \/ FetchNextRow
  \/ \E idx \in ColumnIndices : GetColumn(idx)
  \/ Close
  \/ Cancel

Spec == Init /\ [][Next]_vars

\* The one caller that must progress: ColumnMetadataQuery's
\* GetColumnsWithDatabaseType calls FetchNextRow on its table query again
\* and again while it answers SUCCESS.  No other operation is obliged to
\* happen.
Fairness == WF_vars(FetchNextRow)

FairSpec == Spec /\ Fairness

-----------------------------------------------------------------------------
(* Properties                                                              *)

TypeOK ==
  /\ metadataId \in BOOLEAN
  /\ catalog \in DatabaseValues /\ schema \in DatabaseValues
  /\ table \in TableValues /\ tableType \in TableTypeValues
  /\ executed \in BOOLEAN /\ fetched \in BOOLEAN
  /\ meta \in Seq(BackendTables \cup {None})
  /\ cursor \in 1..End
  /\ ret.code \in Codes /\ colRet.code \in Codes

\* The tables an identifier names (compared case-insensitively, spec 4.2
\* step 4) or a pattern selects (the backend's LIKE on the lower-cased pattern).
SpecSelected ==
  IF metadataId THEN {t \in BackendTables : Upper(t) = Upper(table)}
  ELSE MatchedBy(TablePattern)

\* After any sequence of Execute/Fetch/Close calls, an executed table query
\* that did not short-circuit lists every selected backend table exactly
\* once and nothing else, however the system.tables answer repeated or
\* ordered names (getTables' de-duplication and identifier filter).
TablesMatchBackend ==
  executed /\ ~all_table_types /\ ValidTableType =>
    /\ IsInjective(meta)
    /\ ToSet(meta) = SpecSelected

\* A result column columnsMeta declares NO_NULL is never NULL in a row the
\* query returns (the constructor's special cases against getTables' rows).
NotNullColumnsHoldValues ==
  executed =>
    \A i \in DOMAIN meta : \A col \in NotNullColumns : RowValue(meta[i], col) # None

\* An Execute that finds no table reports a warning, not plain success
\* (spec 4.2 step 6; getTables adds the warning record for it).
EmptyResultIsWarning ==
  ret.op = "Execute" /\ executed /\ meta = <<>> => ret.code = "SUCCESS_WITH_INFO"

\* The spec's reading of a table-type list: it selects "TABLE" when an
\* element, quoted or not, is TABLE in any case and with any blanks.
SpecAcceptsTableType ==
  \/ tableType \in {None, Empty, All}
  \/ \E i \in DOMAIN tableType :
       Upper(tableType[i].word) = "TABLE" /\ tableType[i].quote # "unbalanced"

\* A table-type list that names TABLE (quoted or not, any case or spacing)
\* returns the same tables as no table type at all (spec section 8).
TableTypeListAsSpecified ==
  executed /\ ~all_table_types /\ SpecAcceptsTableType =>
    ToSet(meta) = SpecSelected

\* GetColumn returns data only for a result column of the row under the
\* cursor: spec 4.1 requires an invalid-cursor error before the first row
\* and an invalid-index error past the declared columns.
GetColumnAsSpecified ==
  colRet.idx # 0 /\ colRet.code = "SUCCESS" =>
    ~colRet.beforeFirst /\ colRet.idx \in ResultColumns

\* The fetch loop over the table query ends: once a caller does nothing
\* but call FetchNextRow, the answer is eventually and for ever something
\* other than SUCCESS, whatever the result held (FetchNextRow's cursor
\* advance and its meta.end() test; the loop in
\* ColumnMetadataQuery::GetColumnsWithDatabaseType relies on it).
FetchLoopEnds ==
  <>[][FetchNextRow]_vars => <>[](ret.code # "SUCCESS")

\* The table query implements the query contract: Execute, FetchNextRow,
\* Close and Cancel move the cursor and return what QueryContract allows.
ContractPos ==
  CASE ~executed    -> 0
    [] meta = <<>>  -> 1
    [] ~fetched     -> 0
    [] OTHER        -> cursor

Contract == INSTANCE QueryContract WITH
              Row <- BackendTables \cup {None},
              rows <- IF executed THEN meta ELSE <<>>,
              pos <- ContractPos

ImplementsContract == Contract!Spec


=============================================================================
