------------------------ MODULE ColumnMetadataQuery ------------------------
(***************************************************************************)
(* ColumnMetadataQuery (src/odbc/src/query/column_metadata_query.cpp): the *)
(* SQLColumns emulation.  Execute checks the catalog/schema arguments,     *)
(* defaults the search patterns, resolves the tables (pattern mode: the    *)
(* TableMetadataQuery member built from the constructor's arguments;       *)
(* identifier mode: the table argument itself) and, table by table, runs   *)
(* "SELECT column_name FROM system.columns WHERE table_name = '<t>'"       *)
(* through a DataQuery, appending one ColumnMeta per selected column.      *)
(* FetchNextRow and GetColumn walk the result; Close and Cancel drop it.   *)
(*                                                                         *)
(* The table-resolving member is used only through its Execute and a      *)
(* fetch loop over all its rows inside this Execute; its own Execute       *)
(* closes it first, so its state between two calls never matters and it is *)
(* instantiated as a pure function of its arguments.                      *)
(***************************************************************************)
EXTENDS Naturals, FiniteSets, Sequences, SequencesExt

CONSTANTS
  DatabaseAsSchema, None, Empty, All, DatabaseArgs, TableArgs,
  BackendTables, ExtraRows, Like(_, _), Lower(_), Upper(_),
  ColumnArgs,        \* column-name arguments other than None, Empty and All
  ColumnsOf,         \* [BackendTables -> Seq(names)]: system.columns, in its order
  MeasureColumns,    \* the measure-value column names ReadColumnMetadata makes NULLABLE
  StackTypes         \* what GetScalarDataType makes of the never-written char dataType[64]

VARIABLES
  metadataId,
  catalog, schema, table, column,      \* members; Execute overwrites them with defaults
  subCatalog, subSchema, subTable,     \* the arguments tableMetadataQuery_ was built with
  executed, fetched,
  meta,              \* the ColumnMeta vector: [table, column, nullable, ordinal] rows
  cursor,            \* index into meta; Len(meta)+1 is meta.end()
  ret,               \* [op, code]: the last Execute/FetchNextRow/Close/Cancel and its return
  colRet,            \* [idx, code]: the last GetColumn
  backendFailed,     \* history: a DataQuery of the last request returned ERROR
  answer             \* history: the rows of the first clean successful Execute, or None

vars == <<metadataId, catalog, schema, table, column, subCatalog, subSchema,
          subTable, executed, fetched, meta, cursor, ret, colRet, backendFailed,
          answer>>

Tables == INSTANCE TableMetadataQuery WITH
            TableTypeLists <- {},
            catalog <- subCatalog, schema <- subSchema, table <- subTable,
            tableType <- None,
            executed <- FALSE, fetched <- FALSE, meta <- <<>>, cursor <- 1,
            ret <- [op |-> "Init", code |-> "SUCCESS"],
            colRet <- [idx |-> 0, code |-> "SUCCESS", beforeFirst |-> FALSE]

Codes == Tables!Codes
Succeeded(code) == Tables!Succeeded(code)
DatabaseValues == {None, Empty, All} \cup DatabaseArgs
TableValues == {None, Empty, All} \cup TableArgs
ColumnValues == {None, Empty, All} \cup ColumnArgs
\* GetColumn's index: the 18 result columns take the same path; 19 is past them.
ColumnIndices == {1, 19}
End == Len(meta) + 1
Args == <<metadataId, catalog, schema, table, column, subCatalog, subSchema, subTable>>

-----------------------------------------------------------------------------
(* Execute, step by step.                                                  *)

\* A catalog (databases as schemas) or a schema (databases as catalogs)
\* that names something: the backend has neither.
UnsupportedDatabaseArg ==
  IF DatabaseAsSchema THEN catalog \notin {None, Empty, All}
  ELSE schema \notin {None, Empty, All}

\* Identifier mode: a required argument is a null pointer.
MissingIdentifier ==
  \/ DatabaseAsSchema /\ (schema = None \/ table = None)
  \/ ~DatabaseAsSchema /\ (catalog = None \/ table = None)
  \/ column = None

\* Pattern mode: absent and empty arguments become "%".
Pattern(arg) == IF arg \in {None, Empty} THEN All ELSE arg

\* system.columns as the DataQuery sees it: the backend compares table
\* names exactly.
BackendColumns(name) ==
  IF name \in BackendTables THEN ColumnsOf[name] ELSE <<>>

\* The DataQuery of one table (not under src/): it fails, answers "no data"
\* when the table has no column, or succeeds with the table's columns.
ColumnQueryCodes(name) ==
  {"ERROR", "SUCCESS"} \cup (IF BackendColumns(name) = <<>> THEN {"NO_DATA"} ELSE {})

\* The column test of MakeRequestGetColumnsMetaPerTable: a lone "%" or the
\* very same name, in either mode.
ColumnSelected(col, c) == col = All \/ col = c

\* Mutant: prevPosition kept across tables instead of restarting at 0.
MakeRequestGetColumnsMetaPerTableSharedPosition(name, code, acc, col, dt) ==
  IF code # "SUCCESS" THEN [code |-> "NO_DATA", meta |-> acc]
  ELSE
    LET cols == SelectSeq(BackendColumns(name), LAMBDA c : ColumnSelected(col, c))
        new == acc \o [i \in 1..Len(cols) |->
                         [table |-> name, column |-> cols[i],
                          nullable |-> cols[i] \in MeasureColumns, ordinal |-> Len(acc) + i,
                          dataType |-> dt]]
    IN [code |-> IF new = <<>> THEN "SUCCESS_WITH_INFO" ELSE "SUCCESS", meta |-> new]

\* MakeRequestGetColumnsMetaPerTable: append the selected columns of one
\* table, numbered from 1; the result is a warning while meta is empty.
\* The query selects column_name alone, so nothing writes binding 2, the
\* uninitialized char dataType[64] declared as STRING_BUFFER_SIZE bytes:
\* every row of the call takes the type GetScalarDataType makes of what the
\* stack held there (dt).
MakeRequestGetColumnsMetaPerTable(name, code, acc, col, dt) ==
  IF code # "SUCCESS" THEN [code |-> "NO_DATA", meta |-> acc]
  ELSE
    LET cols == SelectSeq(BackendColumns(name), LAMBDA c : ColumnSelected(col, c))
        new == acc \o [i \in 1..Len(cols) |->
                         [table |-> name, column |-> cols[i],
                          nullable |-> cols[i] \in MeasureColumns, ordinal |-> i,
                          dataType |-> dt]]
    IN [code |-> IF new = <<>> THEN "SUCCESS_WITH_INFO" ELSE "SUCCESS", meta |-> new]

\* GetColumnsWithDatabaseType's loop over the resolved tables: stop at the
\* first table whose request neither succeeds nor warns.
RECURSIVE PerTableLoop(_, _, _, _, _, _)
PerTableLoop(tables, codes, types, i, r, col) ==
  IF i > Len(tables) THEN r
  ELSE LET r2 == MakeRequestGetColumnsMetaPerTable(tables[i], codes[i], r.meta, col,
                                                    types[i]) IN
       IF Succeeded(r2.code) THEN PerTableLoop(tables, codes, types, i + 1, r2, col)
       ELSE r2

\* The tables a request walks: the table query's rows, or the identifier.
ResolvedTables(sub) ==
  IF metadataId THEN <<table>> ELSE sub.meta

\* Mutant: the request appends to the rows a failed Execute left behind.
MakeRequestGetColumnsMetaNoClear(sub, codes, types, col) ==
  IF ~metadataId /\ sub.code # "SUCCESS"
  THEN [code |-> "SUCCESS_WITH_INFO", meta |-> meta]
  ELSE PerTableLoop(ResolvedTables(sub), codes, types, 1,
                    [code |-> "SUCCESS", meta |-> meta], col)

\* MakeRequestGetColumnsMeta / GetColumnsWithDatabaseType, from a cleared meta.
MakeRequestGetColumnsMeta(sub, codes, types, col) ==
  IF ~metadataId /\ sub.code # "SUCCESS"
  THEN [code |-> "SUCCESS_WITH_INFO", meta |-> <<>>]
  ELSE PerTableLoop(ResolvedTables(sub), codes, types, 1,
                    [code |-> "SUCCESS", meta |-> <<>>], col)

-----------------------------------------------------------------------------

Init ==
  /\ metadataId \in BOOLEAN
  /\ catalog \in DatabaseValues
  /\ schema \in DatabaseValues
  /\ table \in TableValues
  /\ column \in ColumnValues
  /\ subCatalog = catalog /\ subSchema = schema /\ subTable = table
  /\ executed = FALSE
  /\ fetched = FALSE
  /\ meta = <<>>
  /\ cursor = 1
  /\ ret = [op |-> "Init", code |-> "SUCCESS"]
  /\ colRet = [idx |-> 0, code |-> "SUCCESS"]
  /\ backendFailed = FALSE
  /\ answer = None

\* An Execute that returns before any request: Close() first when executed.
ExecuteReturns(code) ==
  /\ ret' = [op |-> "Execute", code |-> code]
  /\ meta' = IF executed THEN <<>> ELSE meta
  /\ cursor' = IF executed THEN 1 ELSE cursor
  /\ executed' = FALSE
  /\ UNCHANGED <<Args, fetched, colRet, backendFailed, answer>>

ExecuteUnsupportedDatabase ==
  /\ UnsupportedDatabaseArg
  /\ ExecuteReturns("SUCCESS_WITH_INFO")

ExecuteMissingIdentifier ==
  /\ ~UnsupportedDatabaseArg
  /\ metadataId /\ MissingIdentifier
  /\ ExecuteReturns("ERROR")

ExecuteEmptyTable ==
  /\ ~UnsupportedDatabaseArg
  /\ metadataId /\ ~MissingIdentifier
  /\ table = Empty
  /\ ExecuteReturns("SUCCESS_WITH_INFO")

\* The full request: pattern mode first replaces the arguments by patterns.
ExecuteRequest ==
  /\ ~UnsupportedDatabaseArg
  /\ IF metadataId THEN ~MissingIdentifier /\ table # Empty ELSE TRUE
  /\ LET col == IF metadataId THEN column ELSE Pattern(column) IN
     \E sub \in {Tables!MakeRequestGetTablesMeta(o) :
                   o \in Tables!DataQueryOutcomes(Tables!MatchedBy(Tables!TablePattern))} :
       LET tables == ResolvedTables(sub) IN
       \E codes \in [1..Len(tables) -> UNION {ColumnQueryCodes(t) : t \in ToSet(tables)}] :
         /\ \A i \in 1..Len(tables) : codes[i] \in ColumnQueryCodes(tables[i])
         /\ \E types \in [1..Len(tables) -> StackTypes] :
            LET r == MakeRequestGetColumnsMeta(sub, codes, types, col) IN
            /\ ret' = [op |-> "Execute", code |-> r.code]
            /\ meta' = r.meta
            /\ executed' = (r.code = "SUCCESS")
            /\ fetched' = IF r.code = "SUCCESS" THEN FALSE ELSE fetched
            /\ cursor' = 1
            /\ backendFailed' = \/ ~metadataId /\ sub.code = "ERROR"
                                \/ \E i \in 1..Len(tables) : codes[i] = "ERROR"
            /\ answer' = IF answer = None /\ r.code = "SUCCESS" /\ ~backendFailed'
                         THEN ToSet(r.meta) ELSE answer
  /\ IF metadataId
     THEN UNCHANGED <<catalog, schema, table, column>>
     ELSE /\ catalog' = Pattern(catalog) /\ schema' = Pattern(schema)
          /\ table' = Pattern(table) /\ column' = Pattern(column)
  /\ UNCHANGED <<metadataId, subCatalog, subSchema, subTable, colRet>>

Execute ==
  \/ ExecuteUnsupportedDatabase
  \/ ExecuteMissingIdentifier
  \/ ExecuteEmptyTable
  \/ ExecuteRequest

FetchNotExecuted ==
  /\ ~executed
  /\ ret' = [op |-> "FetchNextRow", code |-> "ERROR"]
  /\ UNCHANGED <<Args, executed, fetched, meta, cursor, colRet, backendFailed, answer>>

\* Mutant: the cursor advances without the "cursor != meta.end()" test.
FetchNextPastEnd ==
  /\ executed
  /\ fetched' = TRUE
  /\ cursor' = IF fetched THEN cursor + 1 ELSE cursor
  /\ ret' = [op |-> "FetchNextRow",
             code |-> IF cursor' >= End THEN "NO_DATA" ELSE "SUCCESS"]
  /\ UNCHANGED <<Args, executed, meta, colRet, backendFailed, answer>>

\* The first fetch stays on meta.begin(); later ones advance until meta.end().
FetchNext ==
  /\ executed
  /\ fetched' = TRUE
  /\ cursor' = IF fetched /\ cursor # End THEN cursor + 1 ELSE cursor
  /\ ret' = [op |-> "FetchNextRow",
             code |-> IF cursor' = End THEN "NO_DATA" ELSE "SUCCESS"]
  /\ UNCHANGED <<Args, executed, meta, colRet, backendFailed, answer>>

FetchNextRow == FetchNotExecuted \/ FetchNext

GetColumn(idx) ==
  /\ colRet' = [idx |-> idx,
                code |-> CASE ~executed       -> "ERROR"
                           [] cursor = End    -> "ERROR"
                           [] idx \in 1..18   -> "SUCCESS"
                           [] OTHER           -> "ERROR"]
  /\ UNCHANGED <<Args, executed, fetched, meta, cursor, ret, backendFailed, answer>>

\* DataAvailable, AffectedRows, RowNumber and NextResultSet change nothing
\* the model records (RowNumber's warning goes to the diagnostics).
DataAvailable == executed /\ meta # <<>> /\ cursor # End

AffectedRows == 0

NextResultSet == "NO_DATA"

\* cursor - meta.begin() + 1, with meta.begin() at index 1.
RowNumber ==
  IF ~executed \/ cursor = End THEN 0 ELSE cursor

Drop(op) ==
  /\ meta' = <<>>
  /\ cursor' = 1
  /\ executed' = FALSE
  /\ ret' = [op |-> op, code |-> "SUCCESS"]
  /\ UNCHANGED <<Args, fetched, colRet, backendFailed, answer>>

Close == Drop("Close")

\* Cancel: the last per-table DataQuery has already completed inside
\* Execute, so dataQuery_->Cancel() changes nothing here; then Close().
Cancel == Drop("Cancel")

Next ==
  \/ Execute
  \/ FetchNextRow
  \/ \E idx \in ColumnIndices : GetColumn(idx)
  \/ Close
  \/ Cancel

Spec == Init /\ [][Next]_vars

-----------------------------------------------------------------------------
(* Properties.                                                             *)

Row == [table : BackendTables \cup TableArgs, column : UNION {ToSet(ColumnsOf[t]) : t \in BackendTables},
        nullable : BOOLEAN, ordinal : Nat, dataType : StackTypes]

TypeOK ==
  /\ metadataId \in BOOLEAN
  /\ catalog \in DatabaseValues /\ schema \in DatabaseValues
  /\ table \in TableValues /\ column \in ColumnValues
  /\ executed \in BOOLEAN /\ fetched \in BOOLEAN
  /\ meta \in Seq(Row)
  /\ cursor \in 1..End
  /\ ret.code \in Codes /\ colRet.code \in Codes
  /\ backendFailed \in BOOLEAN
  /\ answer = None \/ answer \subseteq Row

\* The tables section 4.3 resolves: the table query's pattern selection, or
\* in identifier mode the tables equal to the identifier up to case.
SpecTables ==
  IF metadataId THEN {t \in BackendTables : Upper(t) = Upper(table)}
  ELSE Tables!MatchedBy(Tables!TablePattern)

Pair(r) == <<r.table, r.column>>
ColumnNames == UNION {ToSet(ColumnsOf[u]) : u \in BackendTables}
Pairs == {Pair(meta[i]) : i \in 1..Len(meta)}

\* After a successful Execute the result lists every column the request's
\* column test selects in every resolved table, each exactly once: nothing
\* from a table that was not resolved, nothing left over from an earlier
\* failed Execute (MakeRequestGetColumnsMeta's meta.clear()), no column
\* missed by the per-table loop of GetColumnsWithDatabaseType.
ColumnsMatchBackend ==
  executed =>
    /\ \A i, j \in 1..Len(meta) : i # j => Pair(meta[i]) # Pair(meta[j])
    /\ Pairs = {<<t, c>> \in SpecTables \X ColumnNames :
                  c \in ToSet(ColumnsOf[t]) /\
                  ColumnSelected(IF metadataId THEN column ELSE Pattern(column), c)}

\* A column section 4.3 selects: LIKE on a pattern ("%" selects all),
\* case-insensitive equality on an identifier.
SpecColumn(c) ==
  IF metadataId THEN Upper(column) = Upper(c)
  ELSE LET p == Pattern(column) IN p = All \/ Like(p, c)

SpecPairs ==
  {<<t, c>> \in SpecTables \X ColumnNames : c \in ToSet(ColumnsOf[t]) /\ SpecColumn(c)}

\* Section 4.3 and the glossary: an Execute with valid arguments whose
\* backend queries all answer exposes the columns of the tables the
\* pattern (or the case-insensitive identifier) names that the column
\* pattern (or identifier) selects.  About ColumnMetadataQuery::Execute.
ColumnsAsSpecified ==
  (/\ ret.op = "Execute" /\ ~backendFailed /\ ~UnsupportedDatabaseArg
   /\ ~(metadataId /\ (MissingIdentifier \/ table = Empty))
   /\ SpecPairs # {})
  => executed /\ Pairs = SpecPairs

\* Section 4.3: the columns of one table form one block of the result and
\* are numbered 1, 2, ... in order (ORDINAL_POSITION), whatever the number
\* of tables MakeRequestGetColumnsMetaPerTable was called for before.
OrdinalsSequentialPerTable ==
  executed =>
    \A i \in 1..Len(meta) :
      /\ meta[i].ordinal = 1 + Cardinality({j \in 1..(i - 1) : meta[j].table = meta[i].table})
      /\ \A j \in 1..(i - 1) :
           meta[j].table = meta[i].table => meta[i - 1].table = meta[i].table

\* Section 4.3 derives every row from the arguments and the backend's
\* catalog alone, so executing the same request again (after Close, or
\* Execute over Execute) against an unchanged backend that answers every
\* query exposes the same rows, DATA_TYPE included.  About
\* MakeRequestGetColumnsMetaPerTable and ColumnMeta::ReadColumnMetadata.
SameAnswerEveryExecute ==
  executed /\ ~backendFailed /\ answer # None => ToSet(meta) = answer

\* The statement sees the query contract (section 4.1) through the rows and
\* the cursor; a warning Execute must leave a fetchable (empty) result.
ContractPos ==
  CASE ~executed    -> 0
    [] meta = <<>>  -> 1
    [] ~fetched     -> 0
    [] OTHER        -> cursor

Contract == INSTANCE QueryContract WITH
              Row <- Row,
              rows <- IF executed THEN meta ELSE <<>>,
              pos <- ContractPos

\* ColumnMetadataQuery's Execute/FetchNextRow/Close/Cancel implement the
\* query contract.
ImplementsContract == Contract!Spec


=============================================================================
