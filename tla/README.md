# Verification of DDBCore

TLA+ models, TLC runs and TLAPS proofs for `ddbcore`, an engine-agnostic
database layer in Rust (`crates/ddbcore`, `crates/ddbcore-postgres`,
`crates/ddbcore-mysql`, `crates/ddbcore-testkit`).

## 1. Inventory of the system

| Component | Source | State it keeps | Operations | What is hard |
|---|---|---|---|---|
| Connection and pool | `*/connection.rs` | pool of at most 10 sessions; detached sessions; read-only flag of every session; what a statement leaves behind in a session | `connect`, acquire, detach, drop | dedicated sessions are outside the pool limit; sessions opened later must carry the read-only setting; a transaction left open by one caller is met by the next |
| Postgres row stream | `ddbcore-postgres/stream.rs` | planned SELECT, dedicated session, open transaction and cursor, decoded batch, `done` flag | `stream_rows`, each poll, drop | the plan is read from the catalog before the cursor exists; other sessions write; a bad row, a lost connection or a drop can come at any await; the last batch is recognised by its length |
| MySQL row stream | `ddbcore-mysql/stream.rs` | SELECT text and binds, dedicated session, open result set | `stream_rows`, each poll, drop | the query only runs at the first poll, so the snapshot is taken later than on Postgres |
| Key-range sub-streams | `adapter.rs`, both `stream.rs` | several streams with half-open ranges | opened concurrently by the caller | every sub-stream has its own snapshot; NULL keys; keys that move |
| Postgres bulk write | `ddbcore-postgres/bulk.rs` | COPY in progress, text buffer, counters | `bulk_write` | an error of the source, the server or the network between any two awaits; lost acknowledgement of the final commit |
| MySQL bulk write | `ddbcore-mysql/bulk.rs` | current batch, estimated bytes, rows limit, counter | `bulk_write`, `flush_batch` | every batch commits by itself; placeholder and packet limits; estimated sizes |
| COPY text encoding | `ddbcore-postgres/bulk.rs` | none (pure) | `write_copy_value`, `write_array_literal`, escapers | two layers of escaping, NULL inside arrays |
| Ad-hoc queries | `*/query.rs` | session of a streamed query; decode plan of the result set | `execute_query`, `execute_query_stream` | decode plan chosen from the first row; wire types without a decoder |
| Reflection | `*/reflect.rs` | none of its own; a sequence of catalog queries | `reflect_schema`, `reflect_schema_named`, `reflect_table` | the queries run one by one on pooled sessions with no transaction around them |
| DDL | `*/ddl.rs`, `adapter.rs` | none | `create_table`, `create_index`, `alter_table`, `drop_table_stmt`, `render_ddl` | order of the rendered statements; what a statement needs to exist already |
| Type mapping | `*/types.rs`, `types.rs` | none (pure) | `map_pg_type`, `map_mysql_type`, `category_to_*_type` | round trips, integer ranges, array elements, enum lists |
| Contract tests | `ddbcore-testkit` | none | five contract functions | they state what every adapter promises |

Interaction: a caller holds one `Connection` per database and, to copy a
table, feeds the `RowStream` of one connection to `bulk_write` of another.
`stream_rows`, `execute_query_stream` and the Postgres `bulk_write` take a
session out of the pool for their own use; every other operation borrows a
pooled session for one statement. Nothing is persisted by the library itself:
all durable state is in the database servers, which other sessions change at
any time.


### What makes each component correct

| Component | Correct means | Checked as |
|---|---|---|
| Postgres row stream | it is a read of one committed state of the table; every row once; it ends normally only after all of them; a value it cannot decode is an error and never a missing row; nothing stays pinned | `ImplementsRowStream`, `ExactlyOnce`, `BadRowIsAnError`, `BothStreamsEnd`, `NothingPinned`, `DecoderStaysValid` |
| Key-range sub-streams | ranges that tile the keys yield every row nobody touches exactly once between them | `StableRowsOnce` |
| MySQL row stream | the same promise as the Postgres stream, and the same rows | `MySqlImplements`, `BothStreamsEnd`, `SameRowsWhenQuiet` |
| Postgres bulk write | all rows or none; Ok only when the whole stream went to the table; bounded buffer | `AllOrNothing`, `OkMeansWritten`, `BufferBound`, `ImplementsBulkWrite` |
| MySQL bulk write | the table holds the first rows of the stream, in order; Ok only when it holds all; statements stay within the server's limits; the same outcome as on Postgres | `MySqlImplements`, `EnginesAgree`, `PlaceholderCap`, `PacketBound` |
| Connection, pool, ad-hoc queries | read-only holds in every session; only running statements take places of the pool; what Ok was returned for stays; a call that waits for a session gets one | `ReadOnlyHolds`, `NoSlotPinned`, `LoadsAreKept`, `EveryCallIsServed` |
| Text encoding, types, decoding | a copy that succeeds keeps every cell, or what the decoder made of it; one within an engine fails only for the columns and values named; types keep their category | `NothingLostSilently`, `SameEngineCopies`, `CategoryKept` |
| Reflection | a table, view, sequence or function nobody changes comes out once and exactly, whatever happens to others; it always ends | `EitherIsExact`, `EitherReflectionEnds` |
| Rendered DDL | the statements are accepted in their order and make the table that was reflected | `EitherCopyIsIdentical` |

The hazards these properties are for, each at its line, are listed in
`PROJECT.json`.

## 2. The modules

```
StreamTable ── RowStream                         what stream_rows promises
     │
     ├── PgStream ──── KeyRangeTiling ── MCPgStream
     ├── MySqlStream ── MySqlStreamProofs
     └── StreamParity (PgStream, MySqlStream) ── MCStreamParity
             └── StreamParityProofs (KeyRangeTiling, MySqlStreamProofs)

BulkSource ── BulkWrite                          what bulk_write promises
     ├── PgBulk
     ├── MySqlBulk ── MCMySqlBulk
     └── BulkEngines (PgBulk, MySqlBulk) ── MCBulkEngines
             └── BulkEnginesProofs

Catalog ── Reflection ── ReflectionProofs
               ├── PgSchema ── MCPgSchema
               ├── MySqlSchema ── MySqlSchemaProofs (ReflectionProofs)
               └── SchemaEngines (PgSchema, MySqlSchema) ── MCSchemaEngines
                       └── SchemaEnginesProofs (ReflectionProofs, MySqlSchemaProofs)

Pool ── MCPool
  └── PoolProofs

CopyFormat ── TypeMapping ── ValueCopy ── MCValueCopy
                                └── ValueCopyProofs
```

### Row streams

`StreamTable` is the table a stream reads and the sessions that write to it. A
row is its primary key and the value of the range column, which may be NULL;
`InRange` is the WHERE clause of `key_range`. `touched` is a history variable:
the rows written to since the start.

`RowStream` is the promise of `Connection::stream_rows` (`adapter.rs`): a stream
takes a session, fixes one committed state of the table (`Snapshot`), delivers
its rows one by one, and ends when none is left, or stops before. Writes of
other sessions never reach it.

`PgStream` follows `stream_rows` of `ddbcore-postgres/stream.rs` await by await:

| Action | Code |
|---|---|
| `Call` | the check of `batch_size` (154-157) |
| `Plan`, `PlanRefused` | `build_select` with the catalog query on a pooled session, `render_key_range` (22-145) |
| `Acquire`, `Begin`, `Declare` | `pool.acquire().detach()`, `BEGIN`, `DECLARE CURSOR` (160-169) |
| `Fetch`, `FetchUndecodable` | one `FETCH FORWARD`, the test for the last batch and the decoding of the whole batch (173-196) |
| `Yield` | the flattened batch yields one row |
| `Finish` | `COMMIT` and `close` at the poll after the last row |
| `Fail`, `Break`, `Drop` | every `?`, a broken connection, the caller dropping the future or the stream |
| `Alter` | `ALTER TABLE` of another session, which the lock of an open cursor keeps waiting |

Beside the range column the table has one column whose type may change, or which
may be dropped. `cast` is what `build_select` decided for it (`CastOf`: as it is, as
text, or left out because it is gone), `wire` its type when the cursor was declared. A
caller who names a column that is gone gets an error, which is `Fail`. The text of literals and identifiers is left out.

`KeyRangeTiling` states what several streams yield between them. `MySqlStream`
is `ddbcore-mysql/stream.rs`: the call only takes a session, the first poll runs
the SELECT, later polls read one row each. `StreamParity` runs a stream of every
table through the Postgres adapter and, when it is done, through the MySQL one,
with the same options: every promise is checked of both, and their rows are
compared.

### Bulk writes

`BulkSource` is the stream of items `bulk_write` is given. Items have kinds
(small, big, a JSON document, an array, suppressed by a trigger, rejected by the
server, an error instead of a row); rows are told apart by position. `BulkWrite`
is the promise: rows are written in order, each once, and Ok comes only after
all. Its constant `Atomic` says whether the stream is written in one step.

`PgBulk` is the loop of `ddbcore-postgres/bulk.rs` 21-54 (`Pull`, `Send`,
`SourceEnd`, `SendLast`, `Finish`, `Confirm`) with the server's side of the COPY
(`ServerCommit`, `ServerReject`), and `Hangup` for what a closed connection means
to a COPY that was not, or was already, finished. `MySqlBulk` is
`ddbcore-mysql/bulk.rs` 31-103: batches limited in rows, placeholders and
estimated bytes, each one INSERT that commits by itself. `Break` and `Drop` leave
an INSERT on its way undecided. `BulkEngines` gives the same stream to both, one
after the other, and compares what they return and what they leave behind.

### Schemas

`Catalog` is the schema at the server, changed by the statements of
`create_table`, `create_index` and `alter_table`; elements are told apart by name
and by the columns they rest on, and `WellFormed` is what every server insists
on. Beside its tables it has views, sequences and functions (`others`), of which
only the names are kept; others create and drop them with `execute_query`
(`ChangeObject`), and CREATE OR REPLACE is the two in a row.

`Reflection` is common to both engines: the three entry points (`only` is a table,
`Every` for `reflect_schema_named`, `Whole` for `reflect_schema`), the schemas still
to be walked (`queue`), the tables still to be read (`todo`), the one being read
(`draft`), lists that are read further entry by entry (`listed`), the results, and the
replay of `render_ddl`. Of the schemas only `Home` has contents: what the loop can
do wrong is to mix schemas up, to leave one out or to read one twice.

| Action | Postgres | MySQL |
|---|---|---|
| `ListSchemas` | `reflect_schema` 18-35 | `reflect_schema` 18-34 |
| `LoadEnumTypes` | `load_enum_types` 58-79 | |
| `ListTables`, `ReadTables` | `reflect_tables` 81-121 | 54-70, with the comments |
| `ReadColumns` ... `ReadTriggers` | one query each, 151-526 | one query each, 103-367 |
| `LookupColumns`, `LookupRefs`, `LookupFailed` | `resolve_column_names` 235-261 | |
| `ReadIndexColumns` | `resolve_index_columns` 433-465 | |
| `ReadComment`, `NoComment` | `reflect_table_comment` 528-540, `fetch_one` | |
| `ChecksUnreadable`, `SequencesUnlisted` | | the swallowed errors at 273 and 396 |
| `ListViews`, `ReadViewColumns` | `reflect_views` 542-561 | 369-384 |
| `ReadSequences` / `ListSequences`, `ReadSequence`, `NoSequence` | one query | the list, then one query per sequence |
| `ReadFunctions` | 599-638 | 429-460 |
| `Fail` | every `?` | every `?` |
| `RenderDdl`, `Execute`, `Refuse`, `Copied` | `render_ddl` 105-193, and its caller | 103-153 |

`pc` ends as `done`, `failed` (a session cannot be had or breaks) or `missing` (a
query counts on something that is gone). `PgSchema` and `MySqlSchema` also have the
DDL that each engine does in its own way (`DropColumn`, `AlterColumnType`,
`DropTable`). Which indexes are reflected as indexes is `PlainIndexes`, the
condition of the query. Postgres foreign keys and indexes arrive with numbers,
resolved by later queries (`pending`); its enum types arrive by bare name
(`labels`) and are looked up by the name `format_type` prints (`Category`). MySQL
comments are read with the list of tables (`comments`).

`SchemaEngines` is both under the same interference, the engine chosen in `Init`.
DDL of others stops mattering once the result is there, and is left out from then
on (`~Ended` in `Ddl`): the rendered statements are made from the result and run
on another database.

### Pool and queries

`Pool` is the `Connection` of either engine as several callers share it. A session
is in the pool (`setup`, `idle`, `busy`, `draining`), out of it (`dedicated`) or
`closed`; `restricted`, `inTx` and `work` are what the server knows of it: that
writes are refused in it, that a transaction is open in it, and whose loads are
uncommitted in it.

| Action | Code |
|---|---|
| `Open`, `SetUp`, `SetUpFails` | `connect` and later sessions of the pool, with the `options` (Postgres `connection.rs` 30-32) or the `after_connect` hook (MySQL 33-40) |
| `Call`, `Entry` | a method of the trait, and where it begins: `stream_rows` on Postgres plans on the pool first, `bulk_write` on MySQL pulls rows first |
| `Borrow`, `Execute`, `ExecuteFails`, `GiveBack` | `fetch_all` and `execute` on `&conn.pool` |
| `Acquire`, `Detach` | `pool.acquire().await?.detach()` |
| `NextBatch`, `PullFails` | the MySQL batches, each on any session of the pool |
| `FinishCopy`, `OwnFails` | the Postgres COPY on its own session, closed in every case |
| `Declare`, `Poll`, `EndStream` | cursors and streamed queries; the statement of `execute_query_stream` is sent at the first poll |
| `GiveUp`, `Cancel`, `Drain`, `Break` | the acquire times out; the caller drops its future; the pool finishes an abandoned statement; a session breaks or is retired |

The pool itself is sqlx, whose behaviour is taken from how the code uses it:
sessions are handed out in the order of the requests, one that is given back
keeps its transaction and settings, and an abandoned statement is finished before
its session is idle again. Reads, DDL and reflection use the pool exactly as
`execute_query` does. SQL by which a caller changes the read-only setting of its
own session is not among the inputs.

### Values

`CopyFormat` has the two layers of escaping of `bulk.rs` 56-205 and a reader that
undoes them as the server does. `TypeMapping` has the type tables of both
`types.rs` and `ddl.rs`, `decodes_natively`, and the decoders of both `query.rs`.
`ValueCopy` takes a row from a table of one engine to a table of another: the
column types are reflected and rendered, the row is decoded, written cell by cell
or bound, and stored by the target server. A text is a sequence of the characters
that matter; a type is a name and one argument.

A Rust type does not hold every value of its column: `Decimal` has 28 digits,
`chrono` no infinity, no zero month and no 24 hours, a JSON number is an `i64`, a `u64`
or an `f64`, `Vec<Option<T>>` one dimension. `ReadAs` says, by variant and symbol,
which values are read as another one, as NULL (`Nothing`) or not at all (`Refused`);
the proofs hold for every such table, `MCValueCopy` has the ones the types have.
(sqlx reads an all-zero MySQL date as NULL, which the run follows, and one with a zero
month as an error.) An array of several dimensions is a datum of its own kind
(`Matrix`) that no array decoder takes. Spatial values are bytes: the decoder takes
them for text if they are UTF-8, which `HighBytes` decides. `Large` are the texts and
bytes of more than 64 KB, which `longtext` and `longblob` hold and `text` and `blob`,
the types these are rendered as (MySQL `types.rs` 42-45), refuse. A geometry keeps its
type as subtype in its category (MySQL `types.rs` 60-62), as in the code.

Three properties have exceptions, each written in the property: what the decoder
itself changes without an error (`Copied` in `NothingLostSilently`; the copy must then
have exactly what was decoded); the columns and values that cannot be decoded or sent
back (`Uncopyable`, `Unreadable` in `SameEngineCopies`); and the subtype of spatial
types, all of which are rendered as `geometry` (`CategoryKept`). Section 5 lists them
against what the texts of the code promise.

## 3. The runs

| Run | What it asks | Bounds | States |
|---|---|---|---|
| `StreamParity` | one stream through both adapters on any table of three rows, one of which does not decode; a write and an ALTER TABLE of others; failures and drops | key 1 or NULL, range from 1, batch sizes 0, 1, 2 | 441,494 |
| `PgStreams` | three Postgres streams: two ranges that tile the keys, one refused; a write and an ALTER TABLE | two rows, one of which does not decode, batch size 1 | 1,532,508 |
| `BulkEngines` | every stream of up to four items of six kinds (five of ordinary rows) through both adapters | COPY flushes at 2 rows or 4 bytes, a big row has 5; INSERT batches of 3 rows, 5 placeholders of 2 columns, 3 bytes | 173,314 |
| `SchemaEngines` | reflection of one table, a schema or the catalog, and the replay, on either engine | two tables that reference each other and themselves, a view, a sequence, a function, two enum types, two schemas; 2 statements of others | 932,412 |
| `Pool` | two callers with any calls, on either engine, read-only or not | one pooled session, two dedicated ones | 48,079 |
| `ValueCopy` | rows over all routes between the engines | one or two cells out of some forty per engine | 36,734 |
| `PgStreamFallback` | is the fallback decoder really for ad-hoc queries only? | violated | |
| `MySqlBulkPacket` | does the byte budget keep statements below the packet size when JSON documents are large? | violated | |
| `PgSchemaIndex` | is every index reflected? | violated | |
| `PgSchemaDrop` | can the schema be reflected while others drop tables of their own? | violated | |
| `ValueCopyPrecision` | does a copy from Postgres to MySQL keep values of columns without a precision? | violated | |
| `PoolTransaction` | does a load stay although another caller leaves a transaction open? | violated | |

Why the bounds are enough:

- *Streams.* With batch sizes 1 and 2, tables of zero to three rows include
  every relation of size and batch: empty, shorter, an exact multiple (which
  costs an empty fetch), one more. One write suffices for every anomaly between
  two snapshots of a row, and one ALTER TABLE for every stale plan; `Init` takes
  every table contents, so longer histories begin somewhere in between.
- *Bulk.* Five ordinary rows cross both thresholds twice and leave a rest in the
  buffer. With four items a failing one can be at any place of any batch.
- *Schemas.* Two statements are enough to drop a table and create another of its
  name, or to drop a constraint and put it back, between two queries. A larger
  number only repeats what one query can see between two others. One object of
  each kind and a second schema without contents are enough to list something
  twice, nowhere, or under the wrong schema.
- *Pool.* One pooled session makes every call wait for every other, which is where
  a call that holds a session while it waits for a second one would block all; two
  callers are the one who leaves something behind and the one who meets it. With
  two dedicated sessions there can be one more stream than the pool has places.
- *Values.* Escaping is per character and per cell; two cells show that one
  cell cannot reach into the next. The texts are the ones a reader could take
  for something else: empty, `\N`, `NULL`, separators, quotes, backslashes. The values
  are, for every Rust type that is narrower than its column, one that is refused and
  one that is changed where there is one, in a cell and in an array.

Deadlock is not checked in any run: streams end, `bulk_write` returns and
reflections finish, and a refused `connect` is the end of a Connection, after which
nothing needs to happen. That callers do not wait on each other in the pool is
`EveryCallIsServed`.

**Fairness.** `FairSpec` of the streams assumes that the runtime drives a call to
its return (`WF` of `Progress`, `Step`) and that the caller polls the stream to
its end (`WF` of `Poll`), as `try_collect` and every reader in the contract tests
do. For reflection it assumes that the runtime drives the call (`WF` of `Reflect`).
For the pool it assumes that sqlx opens a session when one is needed (`WF` of
`Open`), that a server that is tried again and again is reached (`SF` of `SetUp`),
that idle sessions are handed out in the order of the requests, so that no caller
is passed over for ever (`SF` of `Borrow` or `Acquire`), and that statements and
abandoned statements end (`WF` of `Execute` and `Drain`); streams, copies and the
sources of bulk writes may stay open for ever, which is the point of
`EveryCallIsServed`. Nothing is assumed of other sessions, of a failure or of a
drop. Every one of these awaits is a
statement to a server, which answers or breaks the connection. That a server
never answers is left out: the code sets no timeout for it.

### What the violations show

- **Stale plan** (`PgStreamFallback`). `build_select` asks the catalog before
  the cursor exists. An ALTER TABLE in between makes the cursor return a type
  without a decoder, and the row comes out of the fallback decoder as raw
  bytes, which `query.rs` 120-123 says cannot happen to a stream. Once the cursor
  is open its lock keeps the type (`DecoderStaysValid`).
- **Packet size** (`MySqlBulkPacket`). A JSON document that is not a string is
  estimated at 256 bytes (`bulk.rs` 79-82). `PacketBound` holds for every other
  kind of row (`BulkEngines`).
- **Lost index** (`PgSchemaIndex`). Reflection leaves out every index named in
  some `pg_constraint.conindid`. A foreign key names there the index of the table
  it references, so a plain unique index that is referenced is lost.
  `SchemaEngines` keeps the keys that are referenced to constraints, where
  reflection is exact.
- **Walk in the way of others** (`PgSchemaDrop`). A table that is dropped after the
  list of tables was read makes `reflect_table_comment` (`fetch_one`) or a foreign
  key lookup fail, and with it the reflection of the whole schema or catalog. The
  testkit says its functions can run in parallel (`lib.rs` 10-12); each of them
  expects `reflect_schema` to succeed and drops its tables at the end. On MySQL
  the same table comes out empty; only a sequence that is dropped after it was
  listed is an error there.
- **Rounded values** (`ValueCopyPrecision`). `numeric`, `time` and `timestamp`
  without a precision become `decimal(10,0)`, `time` and `datetime`. `ValueCopy`
  leaves these three out on the way from Postgres to MySQL.
- **Load in a foreign transaction** (`PoolTransaction`). `execute_query` gives its
  session back with whatever transaction its SQL left open. A later `bulk_write`
  that gets this session runs inside that transaction: Ok is returned, and the
  rows are rolled back when the session closes (at once on Postgres, later on
  MySQL). In the run `Pool` callers open transactions only with
  `execute_query_stream`, whose session never returns to the pool, and loads
  are kept.

## 4. The proofs

Each theorem is proved for every value of the constants the named assumptions
allow; TLC evaluates these assumptions on every run.

### Row streams

Of the Postgres stream and of tilings (the first part of `StreamParityProofs`), for
every set of streams, every table, every batch size, every set of key ranges and
every number of writes and ALTER TABLEs (`StreamAssumption`, `TableAssumption`):

| Theorem | States |
|---|---|
| `TypeCorrectness` | `Spec => []TypeOK` |
| `EveryRowExactlyOnce` | `Spec => []ExactlyOnce` |
| `NoBadRowIsSkipped` | `Spec => []BadRowIsAnError` |
| `NothingLeftPinned` | `Spec => []NothingPinned` |
| `DecoderIsNeverStale` | `Spec => []DecoderStaysValid` |
| `ScanStaysStable` | `Spec => []ScanIsStable` |
| `EveryStableRowOnce` | `Spec => []StableRowsOnce` |
| `Refinement` | `Spec => ImplementsRowStream` |

`ExactlyOnce` is not inductive: it says nothing of a stream that has no cursor yet
and nothing of the flag that ends it. The inductive invariant adds to the types
that nothing was read before the cursor exists and that `isLast` implies that
nothing is left to fetch (`RowsAccounted`), that what is in the batch is decodable
(`RowsDecoded`), and `NothingPinned`. The heart is the lemma `ShortBatchIsAll`: a
batch shorter than asked for is all that was left. `DecoderStaysValid` needs
`NothingPinned`: a stream that is open holds the lock `Alter` waits for.
`Refinement` maps `Fetch` to a stutter, `Declare` to `Snapshot`, `Yield` to
`Deliver`, and every way of giving up to `Stop`.

`StableRowsOnce` speaks of several streams at once. It follows from `ScanIsStable`,
an invariant of its own: a row nobody touched is in a cursor exactly when it is
selected by the stream's range, whenever the cursor was declared. With that, a
row in the range of one stream of a tiling is in that stream's result and in no
other's. The property is false of ranges that carry bounds although no range is
given, which `build_select` cannot be asked for: `KeyRanges` of `StreamTable` has
`NoBound` for both there, as `Option<KeyRange>` does.

`MySqlStreamProofs` proves the same invariant of `MySqlStream` (`Invariance`:
`TypeOK`, `SessionsExact`, `RowsAccounted`, `ScanIsStable`) and
`Refinement` (`Spec => ImplementsRowStream`).

The rest of `StreamParityProofs` puts the two together: the steps of one stream leave the
other alone, so both invariants hold of the pair (`ParityInvariance`), from which
follow `MySqlTypeCorrectness` (`MySqlTypeOK`), `MySqlRefinement`
(`MySqlImplements`) and `EnginesReturnTheSame` (`SameRowsWhenQuiet`): two streams
that end normally where nobody wrote both delivered what their range selects from
the table.

### Bulk writes

Of COPY (the first part of `BulkEnginesProofs`), for every stream of rows, every size
of an encoded row and every pair of thresholds (`SourceAssumption`,
`PgBulkAssumption`):

| Theorem | States |
|---|---|
| `TypeCorrectness` | `Spec => []TypeOK` |
| `CopyIsAllOrNothing` | `Spec => []AllOrNothing` |
| `OkIsTrue` | `Spec => []OkMeansWritten` |
| `BufferIsBounded` | `Spec => []BufferBound` |
| `Refinement` | `Spec => ImplementsBulkWrite` |

The inductive invariant says where the rows are (`RowsInOrder`: what was received
followed by the buffer is what was taken from the stream, in order), how far the
server is at every place of the client (`ServerInStep`), that Ok follows a commit
(`ResultInStep`), that every item that was taken is a row (`ItemsSeen`), and that
the buffer has room whenever a row is pulled (`Room`).

Of both bulk writes (the rest of it), under `BulkEnginesAssumption` too:

| Theorem | States |
|---|---|
| `BothKeepTheirTypes` | `EnginesSpec => []BulkTypeOK` |
| `PlaceholdersFit` | `EnginesSpec => []PlaceholderCap` |
| `PacketsFit` | `EstimatesHold => (EnginesSpec => []PacketBound)` |
| `BothAccept` | `EnginesSpec => []EnginesAgree` |
| `MySqlRefinement` | `EnginesSpec => MySqlImplements` |

The invariant of the MySQL side (`MyInv`) says that table, INSERT on its way and
batch continue each other (`MyRowsInOrder`), that the batch is below the limit
that its first row set (`MyLimits`), and that Ok follows the last INSERT
(`MyResultInStep`). `EstimatesHold` says that no row of any stream takes more
than `estimated_value_size` gives it. It is a hypothesis and not an assumption
because the code does not ensure it: the streams of the run `BulkEngines` satisfy
it, those of `MySqlBulkPacket` do not, and there TLC shows the packet exceeded.
`BothAccept` uses both invariants: the rows before an error or a rejected row are
all that either side can have taken.

Sums and subsequences are defined by recursive functions (`SumOver`, `Through`).
What is proved of them is an induction, stated of sets of numbers instead of
operators: a set of numbers that has 0 and is closed under the successor has all
of them (`AllNumbers`, from `LeastNumber`).

### Pool

`PoolProofs`, for any number of callers and sessions, every size of the pool and
every choice of SQL (`PoolAssumption`, `NoCallAssumption`):

| Theorem | States |
|---|---|
| `TypeCorrectness` | `Spec => []TypeOK` |
| `ReadOnlyEverywhere` | `Spec => []ReadOnlyHolds` |
| `SlotsAreFree` | `Spec => []NoSlotPinned` |
| `LoadsStay` | `"begin" \notin QuerySql => (Spec => []LoadsAreKept)` |

The inductive invariant says which place a call of each method may be at
(`CallInStep`), that calls and sessions point to each other and no session is held
twice (`HeldInStep`), that pooled and dedicated sessions are as many as may be
(`Bounds`), and that every session a statement can run in is restricted where the
caller asked for read-only (`Restricted`). `LoadsAreKept` needs a second one,
`NoTransaction`: only streams have a transaction open. Its hypothesis, that
`execute_query` is never given a BEGIN, is what the run `Pool` satisfies; without
it the property is false, which is the run `PoolTransaction`.

### Schemas

For every set of tables, schemas, objects and enum types, every set of
definitions the server can have of a table, and every number of statements of
others (`CatalogAssumption`, `SchemasAssumption`, `EnumAssumption`,
`MyDefinitionsAssumption`):

| Theorem | States |
|---|---|
| `TypeCorrectness` (`SchemaEnginesProofs`) | `Spec => []TypeOK` of `PgSchema` |
| `ReflectionIsExact` (`SchemaEnginesProofs`) | `EnumsAtHome /\ KeysAreConstraints => (Spec => []UntouchedIsExact)` |
| `TypeCorrectness` (`MySqlSchemaProofs`) | `Spec => []TypeOK` of `MySqlSchema` |
| `ReflectionIsExact` (`MySqlSchemaProofs`) | `MySqlDefinitions => (Spec => []UntouchedIsExact)` |
| `EnginesTypeCorrectness` | `EnginesSpec => []EnginesTypeOK` |
| `EitherReflectsExactly` | the hypotheses of both `=> (EnginesSpec => []EitherIsExact)` |
| `CopiesAreIdentical` (`SchemaEnginesProofs`) | `EnumsAtHome /\ KeysAreConstraints /\ IdentitiesInKey => (Spec => []CopyIsIdentical)` |
| `CopiesAreIdentical` (`MySqlSchemaProofs`) | `MySqlDefinitions /\ IdentitiesInKey => (Spec => []CopyIsIdentical)` |
| `EitherCopiesIdentically` | the hypotheses of both `=> (EnginesSpec => []EitherCopyIsIdentical)` |

The assumptions say what the elements of a definition are (`IsDefinition`: names and
sets of columns, finitely many, no index name taken twice), that `Gone` is not
such a definition, and that enum types are told apart by schema and name, qualified
or not (`EnumAssumption`).

`ReflectionProofs` has what the walks of both engines share. `CatalogInv` is that
statements of others keep every definition a definition and the catalog
well-formed, and give an element only to a table it is defined for; it takes a
lemma for each statement (`DdlKeeps`). `WalkInv`, `TablesInv` and `Covered` follow
the walk through schemas, lists and objects: the tables of the result and those
still to be read are each listed once, and every untouched one that was asked for is
among them as soon as the list was read; likewise the objects of a kind. From them
follow `ReadOnce` (`TablesOnce`) and `ObjectsExact` (`ObjectsOnce`). Lists are
made by `SetToSeq`, so all that is read has to be finite (`FiniteInv`).

On top of that each engine has the invariant that the draft agrees with the catalog
in every field whose query has been done, provided that nobody touched the table
(`DraftInv`; `After(field)` are the queries that come later). On Postgres, what is
`pending` makes up for the foreign keys and indexes that are still to be looked up,
and the table has the identity it had when they were listed. On MySQL the comments
read with the list stay those of untouched tables (`CommentsInv`), and an untouched
table has one of its definitions (`DefinedInv`).

The hypotheses are what the code needs and does not ensure:

- `KeysAreConstraints`: no foreign key references a plain unique index. The run
  `PgSchemaIndex` shows the property false without it.
- `EnumsAtHome`: an enum type in the search path is one of the schema that is
  reflected. `load_enum_types` asks for the enums of that schema only, so the type of
  a column whose enum is in another schema, although in the search path, comes out as
  unsupported, under its bare name.
- `IdentitiesInKey`: where the server wants every identity column to be in a key
  (MySQL), that is the primary key. The server accepts an AUTO_INCREMENT column in any
  key, but `CREATE TABLE` comes with the primary key only and the unique constraints
  follow (`ddl.rs` 103-153), so the copy of a table whose AUTO_INCREMENT column is in
  no more than a unique constraint is refused.

`MySqlDefinitions` is what that server ensures by itself: there are no exclusion
constraints, a unique index is a unique constraint, and no two indexes have one name,
those that foreign keys bring with them included. TLC confirms all hypotheses for the
definitions of the run `SchemaEngines`.

The copy has an invariant that is the same on both engines (`Making`): the target has
every element of the reflected table but those whose statements are left, and the
statements left come in an order in which no foreign key is before a unique constraint
(`Arranged`). `NextAccepted` is that the server then accepts the next statement: its
columns are there since the table came first, its name is not taken since no statement
comes twice, and a foreign key of the table to itself finds the key it references.
`MakingGoesOn` is that executing it keeps the invariant, and `MadeInTheEnd` that
nothing is missing when no statement is left. What is then left to each engine is
that `render_ddl` arranges its statements (`RenderedAre`) and that an exact reflection
can be copied (`Copyable`): on Postgres it takes `CopiedIs`, by which rendering undoes
what reflection made of the types of columns, and on MySQL that the indexes foreign
keys had brought, now created by statements of their own, are not brought again.

`SchemaEngines` takes MySQL's part from an instance of its own, so that
`SchemaEnginesProofs` first shows that this instance and the one of
`MySqlSchemaProofs` are the same (`MyInit`, `MyDdl`, `MyReflect`, `MyFail`,
`MyCopy`, `MyPromises`).

### Values

`ValueCopyProofs`, for every set of cells, documents and numbers, every choice of what
the decoders refuse or change, and rows of any length (`CopyAssumption`,
`CellAssumption`, `DecoderAssumption`):

| Theorem | States |
|---|---|
| `TypeCorrectness` | `Spec => []TypeOK` |
| `CategoriesAreKept` | `Spec => []CategoryKept` |
| `MySqlLosesNothing` | `Spec => [](BetweenMySql => NothingLostSilently)` |
| `MySqlCopiesItsOwn` | `Spec => [](BetweenMySql => SameEngineCopies)` |

`CellAssumption` says what a MySQL table holds (`MyHolds`): a type without a length
where the server always shows one does not occur, zero digits are shown as no
argument, and a value is one the server would store as it is, also as the decoder
rounds it. `DecoderAssumption` says which variants are narrower than their columns at
all; nothing is assumed of the values they refuse or change. Nothing is assumed of a
Postgres cell. `CategoriesAreKept` goes through the type tables: what a category is
rendered as is reflected as that category (`PgReflected`, `MyReflected`), a spatial
type as a geometry without its subtype. Between
MySQL servers a value is bound, not encoded, so its way can be followed without
an induction over its text: the decoder hands on what the cell holds, or what `ReadAs` makes of it, or fails
(`MyDecodes`), a spatial value comes back as its bytes (`SpatialBytes`),
the rendered column keeps what the column of the source keeps (`MyKept`), and the
text of a BIT never fits into the bytes of the column (`BitsAreRefused`), which makes
a refusal of what would be a loss. `FailedInv` says that such a copy fails only where
a value does not decode, or at the INSERT.

### Only model-checked

- Liveness (`BothStreamsEnd`, `EitherReflectionEnds`, `EveryCallIsServed`): it
  needs fairness and ENABLED, which the provers do not handle.
- `NothingLostSilently` and `SameEngineCopies` of a copy to or from Postgres. What
  the encoding of COPY and its reader make of a text, and the casts to text, are
  folds over data of any length; the runs compare the two.

## 5. What is not modelled, and what the code does that no run shows

Not modelled: TLS modes and the parameters of `connect`; the `Dialect` and all
quoting; the inside of sqlx and of the servers, beyond what the code relies on
(marked external in `PROJECT.json`); array parameters of queries, which are refused
before anything is sent; default expressions, partition keys and parents, the
bodies of views, functions and triggers, which are text that is passed along;
dependencies of views on tables. `value.rs`, `schema.rs` and `error.rs` are plain
data; the contract tests and the test environment are the source of properties.

Places where the two adapters, or the code and its texts, differ, met while
modelling and not the subject of a run:

*Streams.* A row with NULL in the range column is in no range (`adapter.rs`
62-64). A NULL bound is an error on Postgres and selects nothing on MySQL. The
Postgres call returns with its cursor declared, the MySQL SELECT runs at the first
poll, so its snapshot is later. An empty projection is accepted by Postgres and
refused by MySQL. The Postgres stream loses the decodable rows of the batch that
has a bad row; MySQL yields them. A `bytea[]` column passes through
(`stream.rs` 21-43) although no decoder exists for it (`query.rs` 191-209), so
its table cannot be streamed.

*Bulk writes.* A failed write leaves nothing on Postgres and the earlier batches
on MySQL, although `adapter.rs` 197-199 asks for identical behaviour. The count
`finish()` returns is ignored (Postgres `bulk.rs` 51-53), so rows that a trigger
suppresses are counted, although `adapter.rs` 231-233 promises the number of rows
written: the model returns what the code returns, and `OkMeansWritten` excepts the
count of such streams. An
answer that is lost after the commit is an error to the caller on both. The
number generator of a Postgres identity column stays where it was when a copy
writes explicit numbers, so that the next insert that asks for one may collide
with a copied row; MySQL moves its counter along. A MySQL row whose
AUTO_INCREMENT column is 0 is written under a generated number (`bulk.rs` 94).

*Pool and queries.* Dedicated sessions are not counted by `max_connections`; the
model bounds them with `MaxDedicated`. The statement of `execute_query_stream` runs
at the first poll, so one that is never polled never runs. Statements of one
caller run on any session of the pool, so `SET` and temporary tables do not last
from one `execute_query` to the next.

*Reflection.* A table changed while it is read may come out torn: an index
without columns, a foreign key on `........pg.dropped.N........`. Such a table is
an error on Postgres only when it is gone at one of the late queries; on MySQL a
table dropped after the list comes out with no columns. On MySQL any failure of
the query for checks or for the list of sequences is taken for none
(`reflect.rs` 273, 396), although `adapter.rs` 206-209 wants reflection to be
exhaustive; `EitherIsExact` allows for both. An enum type outside the search path
is printed with its schema by `format_type` and found under no name, so it becomes
`Unsupported` (`types.rs` 3-20; `EitherIsExact` allows for it); of two enum types
of one name in two schemas, a column may be given the labels of the wrong one. The
join with `pg_inherits` lists a table with two parents twice (`reflect.rs` 100).

*DDL and types.* MODIFY COLUMN drops NOT NULL, the default and AUTO_INCREMENT of
the column. The Postgres DROP INDEX does not name the schema (`ddl.rs` 275-277). A
MySQL column with AUTO_INCREMENT whose only key is a UNIQUE constraint gives a
CREATE TABLE the server refuses, because the constraint is added later; the
columns of `MCSchemaEngines` have it in their primary key. `bpchar` without a length
becomes `character(1)`. UNSIGNED is lost, and the upper half then does not fit
(the copy fails). `point` and the other spatial types are rendered as `geometry` (MySQL
`ddl.rs` 66), which reflects as another category, although testkit `lib.rs` 232-236
wants "same canonical types". `longtext` and `longblob` become `text` and `blob`, which
refuse more than 64 KB. MySQL BIT columns are decoded to zeros and ones and sent back as
bytes, which the server refuses. An empty Postgres array of enums (or of another type
that is cast to text) arrives as the text `{}`, which the JSON column an array becomes
on MySQL takes for an empty object (`stream.rs` 21-43, MySQL `ddl.rs` 65); any
other such array is refused, and the cells of `MCValueCopy` have only those. Commas in ENUM labels split them
(MySQL `types.rs` 93-98). An interrupted replay leaves a part of the table.

*Values.* Postgres `json` is parsed and written again without its spaces (`query.rs` 234,
`bulk.rs` 88-90), although core `types.rs` 36-40 calls it verbatim text; repeated keys and
the order of keys, which the parser does not keep either, are not told apart in the
model. JSON numbers that are no 64-bit integer pass through an `f64`, `numeric` and
`decimal` values through 28 digits, and 24:00 comes out as 00:00, without an error. These
rows fail to decode: `numeric` NaN and values of 10^29 and more, infinite dates and
timestamps, arrays of several dimensions (Postgres `query.rs` 224-269); `time` below zero
or beyond a day, dates with a zero month (MySQL `query.rs` 199, 217-219). The branch for
arrays in arrays of `write_array_literal` (`bulk.rs` 148) is not modelled: no decoder makes
such a value.

## 6. Plan

Done: the streams, their parity and tiling; both bulk writes and their parity; the
pool and the queries that use it; reflection of tables, schemas and the catalog,
DDL and its replay on both engines; values and types; the proofs of section 4.

Next, in this order:

1. A copy as a whole: a stream of one adapter feeding the `bulk_write` of another,
   with the abstract `RowStream` and `BulkWrite` composed, and the claim that a
   copy returning Ok holds one committed state of the source.
