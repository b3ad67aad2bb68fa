# TLA+ models of the IoT SiteWise ODBC driver's catalog queries

This directory holds TLA+ models of the driver's metadata-translation core
(`src/src/odbc/src/query/`, `src/src/odbc/src/meta/`,
`src/src/odbc/src/iotsitewise_column.cpp`). `PROJECT.json` lists:
- the components and their status;
- the TLC runs and what each one shows;
- the mutants that every checked property must catch;
- the source lines each definition translates ("map");
- the findings;
- the hazards the code is exposed to.

## The system

The driver emulates the ODBC catalog functions on a backend that only runs
query strings. Two introspection tables do the work: `system.tables` and
`system.columns`.

| Part (spec.md) | Source | What it does |
|---|---|---|
| Query Contract (4.1) | `query/query.h` | The virtual interface every statement query implements: `Execute`, `FetchNextRow`, `GetColumn`, `Close`, `Cancel`. |
| Table Enumeration (4.2) | `query/table_metadata_query.cpp` | SQLTables. It parses the table-type list and runs `SELECT table_name FROM system.tables [WHERE table_name LIKE '<lower>']` through a `DataQuery`. It then de-duplicates the names and, in identifier mode, keeps only names equal to the argument case-insensitively. |
| Column Enumeration (4.3) | `query/column_metadata_query.cpp` | SQLColumns. It checks and defaults its arguments, then resolves the tables through a `TableMetadataQuery` member (pattern mode) or takes the table argument as given (identifier mode). For each table it runs `SELECT column_name FROM system.columns WHERE table_name = '<t>'`. It keeps the matching columns, numbered per table. |
| Descriptor Model (3, 5) | `meta/column_meta.cpp`, `meta/table_meta.h` | `ColumnMeta`: the nullability heuristic, `ReadColumnMetadata`, the `GetAttribute` dispatch. `TableMeta`: the table row descriptor. |
| Value Materializer (5) | `iotsitewise_column.cpp` | Renders scalar, array and row datums into typed output buffers. |
| Unsupported queries (6) | `query/foreign_keys_query.cpp`, `query/special_columns_query.cpp` | A fixed schema whose Execute returns a warning and whose fetch reports no data. |
| DataQuery (6) | not under `src/` | Runs a query string on the backend and streams rows back. |

How the parts interact:
- A statement owns one query object and drives it through the contract.
- `ColumnMetadataQuery` owns a `TableMetadataQuery`. It is built with the same catalog, schema and table arguments and no table type. Inside its own Execute, it executes this member and fetches all of its rows.
- Both enumeration queries create a fresh `DataQuery` per introspection request. Each request runs to completion inside Execute.

## Modules

| Module | Models | State (VARIABLES) | Actions |
|---|---|---|---|
| `QueryContract` | spec 4.1: the abstract promise of every catalog query | `executed`, `rows`, `pos` (0 before the first row, `Len(rows)+1` after the last), `ret` | `ExecuteFails`, `ExecuteSucceeds`, `FetchBeforeExecute`, `FetchNext`, `Drop("Close")`, `Drop("Cancel")` |
| `TableMetadataQuery` | `TableMetadataQuery` | the arguments and `metadataId` (fixed at construction), `executed`, `fetched`, `meta` (table names), `cursor` (index; `Len(meta)+1` is `meta.end()`), `ret`, `colRet` | `Execute`, `FetchNotExecuted`, `FetchEmpty`, `FetchNext`, `GetColumn(idx)`, `Close`, `Cancel`; the const queries `RowNumber`, `DataAvailable`, `AffectedRows`, `NextResultSet` are operators |
| `ColumnMetadataQuery` | `ColumnMetadataQuery`, composing `TableMetadataQuery` through `INSTANCE` | the arguments (which Execute overwrites with `%` defaults in pattern mode), the member table query's own arguments, `executed`, `fetched`, `meta` (`[table, column, nullable, ordinal]` rows), `cursor`, `ret`, `colRet`, `backendFailed` (a history variable, used only by `ColumnsAsSpecified`), and `answer` (a history variable: the rows of the first clean successful Execute) | `ExecuteUnsupportedDatabase`, `ExecuteMissingIdentifier`, `ExecuteEmptyTable`, `ExecuteRequest`, `FetchNotExecuted`, `FetchNext`, `GetColumn(idx)`, `Close`, `Cancel`; `RowNumber`, `DataAvailable`, `AffectedRows`, `NextResultSet` as operators |
| `UnsupportedQuery` | `ForeignKeysQuery`, `SpecialColumnsQuery` | `ret`, `colRet` (the last answers; the object holds no state a call changes); the constant `Kind` picks the class, and `Descriptor(i)` instantiates `ColumnMeta` with the fields the constructor stores for schema column `i` | `Execute`, `FetchNextRow`, `GetColumn(idx)`, `Close`, `Cancel`; the const queries as operators |
| `Materializer` | `IoTSiteWiseColumn` (`iotsitewise_column.cpp`) | `colType` (the declared scalar type), `infoSet` (ColumnInfo and its type set), `datum` (the current row's value), `out` (the Put made on the caller's buffer and the ConversionResult) | `ReadToBuffer`, with `ParseDatum`, `ParseScalarType`, `ParseArrayType` and `ParseRowType` as RECURSIVE operators |
| `ColumnMeta` | `ColumnMeta` (`meta/column_meta.h`, `meta/column_meta.cpp`) | the optional string fields (`text`), `columnInfo`, `dataType`, `precision`, `decimalDigits`, `scale`, `nullability`, `ordinalPosition`, `isAutoIncrement`, and the ghost `fresh` (default-constructed and not yet read) | the constructors (`Init`), `Set(field, value)` for the ten setters, `ReadColumnMetadata`, `Read`, `ReadMetadata`; the GetAttribute overloads are the operators `AttrString` and `AttrLen` |
| `TableMeta` | `TableMeta` (`meta/table_meta.h`) | none: a descriptor is a record of five optional strings, held by value | the default constructor (`TableMetaDefault`), the setters (`Set`, `SetNull`), the getters (`Get`) and `Read(tbType)`; `TableMetadataQuery` builds its rows with them through `INSTANCE` |
| `MC_TableMetadataQuery`, `MC_ColumnMetadataQuery` | TLC instances: the backend's tables and columns, argument sets, and `LIKE` / `Lower` / `Upper` on those strings | | |
| `MC_Materializer`, `MC_ColumnMeta` | TLC instances: the backend texts per scalar type, `timegm` of the one date used, the type_traits values | | |

### Abstractions

- **Argument data.**
  - Null, empty and `"%"` arguments are the model values `None`, `Empty` and `All`.
  - Other arguments are a few names chosen so that every branch is taken: an exact name, the same name upper-cased, a prefix pattern, and a name the backend lacks.
  - A table-type list is a sequence of tokens `[word, quote, pad]`. It records what `Trim` and `dequote` look at.
- **Each Execute is one atomic action.** The code does the whole request, including the fetch loops, synchronously inside `Execute`. Its whole effect is one step: the `meta.clear()`, the requests, the loop with its `break`, and the `executed` / `cursor` update.
- **`DataQuery` is not under `src/`.** It is modelled from spec section 6 as a nondeterministic outcome:
  - `ERROR`;
  - `NO_DATA` when nothing matches;
  - `SUCCESS` with the matching names in any order, one name possibly repeated (`ExtraRows`).
  - `SUCCESS_WITH_INFO` is left out, because the comment at `table_metadata_query.cpp:532` says `DataQuery::Execute` never returns it.
- **`Cancel` changes only what `Close` changes.** The `DataQuery` it cancels has already run to completion inside `Execute`. Spec 5 says a query object is used from one thread at a time and that `Execute` runs to completion on the caller's thread. A `Cancel` racing `Execute` on the same handle is therefore a caller error, and it is not modelled.
- **Materializer texts are TLA+ strings.** `Len`, `SubSeq` and `\o` act on them as the code's `std::string` operations do.
  - `sscanf`'s `%Nd` and `std::stod` are modelled by the digits they consume.
  - `timegm` of the date-time fields is the constant `EpochOf`.
  - The element buffer has `BufferSize = 4` bytes in place of 1024, so that a 4-character element is cut.
  - An uninitialized `fractionNs` is any value of `Uninitialized`.
- **A Materializer behaviour is one column and one datum.** `ReadToBuffer` is `const` and keeps nothing between calls. So `Init` picks the column's type and the datum, and each step is one more `ReadToBuffer` of it (SQLGetData called again).
  - Arrays and rows reach only STRING columns: `ReadMetadata` declares a column with no scalar type as STRING.
  - So their elements always go through `PutString` into the temporary `AI_CHAR` buffer. That buffer keeps `BUFFER_SIZE - 1` characters, as `ApplicationDataBuffer`, which is not under `src/`, is specified to do.
- **`ColumnMeta` is read only when fresh.** The ghost variable `fresh` allows `ReadColumnMetadata`, `Read` and `ReadMetadata` only on a default-constructed descriptor that has not been read yet. That is how `column_metadata_query.cpp:603-624` and the data path use them.
  - The bindings a read is given are any subset of 1..3, so every early return is taken.
  - `type_traits` is the constant `Traits`. `MC_ColumnMeta` gives it the values the repository's unit tests (`column_meta_test.cpp`) expect of each type, for example DOUBLE with column size and scale 15, TIMESTAMP with column size 19 and display size 20, and NOT_SET described as VARCHAR of the maximum length.
  - `AttrString` and `AttrLen` model the whole `GetAttribute` table. The properties use only the answers for `SQL_DESC_NULLABLE`, `SQL_DESC_PRECISION`, `SQL_DESC_SCALE`, `SQL_COLUMN_LENGTH` and `SQL_DESC_FIXED_PREC_SCALE`. The other attributes are translated but not checked.
- **Left out of the rows:**
  - `GetColumn` writes only the caller's buffer, so the model records its return code and not the value.
  - A column row's `DATA_TYPE` is what `GetScalarDataType` makes of the never-written `char dataType[64]` bound at `column_metadata_query.cpp:586`: any member of the constant `StackTypes`, chosen afresh for each table of each Execute. The passing runs fix `StackTypes` to `{"NOT_SET"}`, since none of their properties reads it.
  - The rows also leave out the fixed fields: catalog, schema, remarks and `"TABLE"`.

## Runs

All runs use `DatabaseAsSchema = FALSE`, the driver's default.

| Run | cfg | Expect | Checks |
|---|---|---|---|
| `table_pass` | `MC_TableMetadataQuery.cfg` | pass (~99k states, 22 s) | `TypeOK`; `TablesMatchBackend`; `ImplementsContract`; `FetchLoopEnds` (under `FairSpec`). See below. |
| `table_not_null` | `..._NotNull.cfg` | violation | `NotNullColumnsHoldValues`. With `catalog = '%'`, schema and table empty, the constructor declares `TABLE_CAT` NOT NULL, but Execute returns ordinary table rows whose catalog is NULL. |
| `table_empty_warning` | `..._Empty.cfg` | violation | `EmptyResultIsWarning`. `getTables` overwrites its own empty-result warning with `SUCCESS` (line 500). |
| `table_get_column` | `..._GetCol.cfg` | violation | `GetColumnAsSpecified`. GetColumn after Execute and before any fetch returns the first row. An index past the last column also succeeds. |
| `table_type_case` | `..._Types.cfg` | violation | `TableTypeListAsSpecified`. A lower-case `table`, or blanks inside the quotes, is rejected as not `TABLE`. |
| `column_pass` | `MC_ColumnMetadataQuery.cfg` | pass (~33k states, 9 s) | `TypeOK`; `ColumnsMatchBackend`; `OrdinalsSequentialPerTable`. See below. |
| `column_contract` | `MC_ColumnMetadataQuery_Contract.cfg` | violation | `ImplementsContract`. A column Execute that returns `SUCCESS_WITH_INFO` leaves `executed` false, so the next fetch is a sequence error. |
| `column_selection` | `MC_ColumnMetadataQuery_Select.cfg` | violation | `ColumnsAsSpecified`. A column pattern (`int%`) or an identifier in another case (`INT_VALUE`) selects nothing, because the code compares exact strings. |

`table_pass` checks three properties:
- `TablesMatchBackend`: whatever `system.tables` answers, an executed query (not the table-types short cut, with a valid type list) lists each table the request selects exactly once and nothing else.
- `ImplementsContract`: the query refines `QueryContract`. The mapping is `rows` ← `meta` while executed and `pos` ← `ContractPos`, which is 0 until the first fetch.
- `FetchLoopEnds`: if fetches keep coming, the query eventually stops answering `SUCCESS`. This is what ends `GetColumnsWithDatabaseType`'s `while (FetchNextRow() == SUCCESS)` loop over the table query.

| `materializer_pass` | `MC_Materializer.cfg` | pass (~18k states, 3 s) | `TypeOK`; `RenderAsSpecified`; `TimestampAsSpecified`. See below. |
| `materializer_truncation` | `MC_Materializer_Truncation.cfg` | violation | `TruncationReported`. An array element longer than the temporary buffer is cut (`"abcd"` renders as `"[abc]"`), and the conversion still returns `SUCCESS`. |
| `materializer_fraction` | `MC_Materializer_Fraction.cfg` | violation | `FractionAsSpecified`. The fraction `.5` becomes 5 ns. A timestamp with no fraction takes the uninitialized `fractionNs`. |
| `column_meta_pass` | `MC_ColumnMeta.cfg` | pass (~26k states, 5 s) | `TypeOK`; `NullabilityAnswer`; `DefaultsSignalled`. See below. |

`column_pass` checks two properties beyond the type invariant. Each holds for every success or failure of the table query and of each per-table query:
- `ColumnsMatchBackend`: an executed query lists every column the code's column test selects, for every resolved table, exactly once. Nothing left by a failed Execute survives.
- `OrdinalsSequentialPerTable`: each table's columns form one block numbered 1, 2, ...

`materializer_pass` checks every datum up to depth 2 and width 2, for every declared type and with ColumnInfo set or not:
- `TypeOK` includes "SUCCESS exactly when the caller's buffer was written".
- `RenderAsSpecified`: the code's append-then-`pop_back` loops, including the nested temporary buffers, produce spec 4.5's `[v1,...]` / `(v1,...)` rendering. An empty array gives `""`, an empty row `"()"`, and a row without data `NO_DATA`.
- `TimestampAsSpecified`: a text in the fixed 9-digit format keeps its digits as nanoseconds.

`column_meta_pass` checks every order of setters and reads on every constructed descriptor:
- `NullabilityAnswer`: `SQL_DESC_NULLABLE` follows the measure-name heuristic once a whole row was read, and is "unknown" for a `ReadMetadata` descriptor.
- `DefaultsSignalled`: whenever the string overload declines PRECISION, SCALE or COLUMN_LENGTH, the integer overload answers the type's mapped value and FIXED_PREC_SCALE is false.

Each property of a passing run has a mutant in `PROJECT.json`, and TLC finds the property violated with the mutant in place:

| Run | Property | Mutant |
|---|---|---|
| `table_pass` | `TypeOK` | the fetch walks past `end()` |
| `table_pass` | `TablesMatchBackend` | the `alreadyExists` check is dropped |
| `table_pass` | `ImplementsContract` | the first fetch advances |
| `table_pass` | `FetchLoopEnds` | a later fetch leaves the cursor where it is |
| `column_pass` | `TypeOK` | the fetch walks past `end()` |
| `column_pass` | `ColumnsMatchBackend` | `meta.clear()` is dropped |
| `column_pass` | `OrdinalsSequentialPerTable` | `prevPosition` is shared across tables |
| `materializer_pass` | `TypeOK` | the `default:` case returns `convRes` (SUCCESS) with nothing put |
| `materializer_pass` | `RenderAsSpecified` | the `if (!valueVec.empty())` before the row's `pop_back` is dropped |
| `materializer_pass` | `TimestampAsSpecified` | the fraction is read with `%8d` |
| `column_meta_pass` | `TypeOK` | ReadColumnMetadata stores `position - 1` |
| `column_meta_pass` | `NullabilityAnswer` | the measure-name test looks at the name held before the read |
| `column_meta_pass` | `DefaultsSignalled` | the integer PRECISION branch tests only for `none`, not for `-1` |

### Bounds and why they are enough

- **Backend.** Two tables that share a column name (`asset_id`), plus one measure column (`int_value`). That is the least data in which:
  - de-duplication matters;
  - one column argument selects from several tables;
  - numbering has to restart per table;
  - the nullability heuristic takes both values.
- **`ExtraRows = 1`.** One repeated name is enough to exercise de-duplication.
- **Arguments.** Every mode is enumerated (`metadataId` both ways) with every argument in `{None, Empty, All}` plus the names listed under Abstractions. Together they reach every branch of `Execute`'s argument checks.
- **`GetColumn` indices.** One valid index and one past the last column. All valid indices take the same path.
- **Materializer.** Datums up to depth 2 and width 2 over a 1- and a 4-character text, NULL and an unset datum. This covers:
  - an element cut by the 4-byte buffer;
  - a nested rendering that fits;
  - empty arrays and rows inside others;
  - empty slots.

  Timestamps come in three forms: the spec's format, a 1-digit fraction, and no fraction.
- **ColumnMeta.** The empty database and table names that the query schemas pass, plus one real name. Column names: a key column, a measure column, and `""` (unnamed). Type texts: `INTEGER`, `STRING`, and one that maps to `NOT_SET`. Two positions.
- **Depth.** Executions are unbounded. The state space is finite because `Execute` recomputes everything from the fixed arguments and the backend.

### Fairness

Every operation is synchronous and returns within the call; nothing waits on another actor. The one place where the code relies on progress is `ColumnMetadataQuery::GetColumnsWithDatabaseType` (`column_metadata_query.cpp:527-535`), which fetches from its member table query in a `while (FetchNextRow() == SUCCESS)` loop. That loop keeps calling `FetchNextRow` as long as it is enabled, which is weak fairness on that action: `FairSpec == Spec /\ WF_vars(FetchNextRow)` in `TableMetadataQuery`. `table_pass` checks `FetchLoopEnds` under it. No other action is assumed fair: a caller may stop calling at any time, so Execute, GetColumn, Close and Cancel carry no fairness.

## Findings

1. **NOT NULL column holds NULL (`table_not_null`).** The `TABLE_CAT` column of SQLTables is declared NOT NULL in the SQL_ALL_CATALOGS special case, but the rows returned there have a NULL catalog.
2. **Empty result returns plain success (`table_empty_warning`).** An empty SQLTables result returns `SUCCESS`, not a warning.
3. **GetColumn before the first fetch (`table_get_column`).** SQLTables' `GetColumn` returns data before the first fetch, and for an invalid index.
4. **Table-type match is case-sensitive (`table_type_case`).** Table-type matching is case- and blank-sensitive.
5. **Warning Execute cannot be fetched (`column_contract`).** SQLColumns answers every warning with a query that cannot then be fetched. The warnings include "no column matched", "unsupported catalog/schema" and "table query failed".
6. **Exact column match (`column_selection`).** SQLColumns matches column names exactly and case-sensitively. In identifier mode it also sends the table name to `system.columns` unchanged, so an identifier in another case finds nothing. Spec 4.3 and the glossary say otherwise.
7. **Element truncation is not reported (`materializer_truncation`).** Each array or row element is rendered into a 1024-byte buffer, and `ParseDatum`'s result for it is ignored. A longer element is cut inside the text, and a nested array loses its closing bracket. The conversion still returns `SUCCESS`.
8. **Timestamp fraction (`materializer_fraction`).** `fractionNs` is read with `%9d` and never initialized. The fraction `.5` gives 5 ns, not 500000000 ns. A timestamp with no fraction carries whatever was on the stack (`iotsitewise_column.cpp:114`).

## Not modelled yet, and the plan

1. **Checking `UnsupportedQuery`.** The module models both classes, but no run checks it. Every operation returns a constant and changes nothing, so a property could only restate one `return` statement. The code follows spec 6: Execute warns, and FetchNextRow and GetColumn answer `NO_DATA` even before Execute. That contradicts spec 4.1, which makes a fetch before Execute a sequence error. So `UnsupportedQuery` does not refine `QueryContract`, and the spec itself disagrees on which rule wins.
1. **`RowNumber` before the first fetch.** Both enumeration queries answer 1 between Execute and the first fetch, because the cursor already sits on `meta.begin()`. Spec 4.1 has no current row there. The earlier case would need a violation run, and every run slot is in use.
1. **`DATA_TYPE` determinism.** `SameAnswerEveryExecute` in `ColumnMetadataQuery` says two clean Executes of the same request expose the same rows. With `StackTypes = {"NOT_SET", "INT"}` TLC finds it violated (Execute reads `NOT_SET`, the next Execute `INT`), but no run checks it yet: every run slot is in use.
2. **`DatabaseAsSchema = TRUE` configurations** of both enumeration queries.
3. **Composition of `ColumnMeta` into the column query's rows.** `ColumnMetadataQuery` keeps its rows as `[table, column, nullable, ordinal]`. These are the values that the `ColumnMeta` lifecycle it drives (default constructor, setters, `ReadColumnMetadata`) leaves in the descriptor.

Not planned:
- **A concurrent `Cancel` during `Execute`.** Spec 5 makes handles single-threaded, and `Execute` does all its work synchronously.
- **Precision and scale overrides.** No code under `src/` stores a precision or scale other than -1, so the override branches of `GetAttribute` are unreachable. The model still carries them.

Out of reach, or not part of the core:
- environment and connection handling;
- AAD authentication;
- the Windows dialogs;
- platform utilities (`platform_utils.cpp`) and the `environment.h` / `aad.h` headers;
- the other unsupported catalog functions spec 6 lists (primary keys, statistics, procedures, privileges), whose classes are not under `src/`;
- the tests, mocks, data writer and the performance tools, including the query-timing benchmark;
- `type_traits`, which is not under `src/`.
