# TLA+ models of the connectors

This directory holds TLA+ models of the parts of the connectors whose
correctness rests on concurrency, ordering and recovery, together with the TLC
configurations that check them. Six modules model code, and one is an
abstract specification:

- `BinlogReplication` models the MySQL replication stream (`src/source-mysql/replication.go`).
- `TableMetadata` models the column metadata of that stream: the column-list
  edits of `handleAlterTable`, the key columns and `decodeRow`.
- `BackfillCapture` models the capture coordinator (`src/sqlcapture/capture.go`).
- `Discovery` holds the pure helpers of catalog discovery and stream
  naming (`src/sqlcapture/discovery.go`, `JoinStreamID`/`splitStreamID` of
  `capture.go`) as operators on strings.
- `CaptureCatalog` models `updateState`, the coordinator's reconciliation of
  the configured catalog, the database's tables and the persisted stream
  state, across catalog republications and primary-key changes.
- `SnowflakeTransactor` models the Snowflake materialization's
  store/commit/acknowledge protocol (`src/materialize-snowflake/snowflake.go`).
- `MaterializedTables` is the abstract promise of that protocol: committed
  transactions reach their tables once, uncommitted ones never.
  `SnowflakeTransactor` is checked to implement it.

`PROJECT.json` lists the components, the runs, the mutants, the map from every
definition to its source lines, the findings, and the hazards.

## The system

A capture has three parts: a database adapter, a replication stream and a coordinator.

- The **database adapter** (C1) discovers tables, scans table chunks and writes watermarks.
- The **replication stream** (C2) turns the database's change log into a
  channel of `ChangeEvent`, `FlushEvent`, `MetadataEvent`, `KeepaliveEvent`
  and `TableDropEvent`.
- The **coordinator** (C3) interleaves chunked backfill scans with that
  stream. It buffers each scanned chunk in a result set (C4) and patches it
  with changes that race the scan. It emits records, and it emits a state
  checkpoint (C5) at every flush.

In the MySQL stream, two goroutines share data:

- The worker goroutine (`run`) reads binlog events and sends on a channel
  with a capacity of 256 (`emitEvent`).
- The capture goroutine consumes the channel in `StreamToFence`. It also
  changes the set of active tables in `ActivateTable`.

They share the `rs.tables` set, guarded by a readers-writer lock:

- The worker takes the write lock in `handleAlterTable` and `deactivateTable`.
- The capture goroutine takes the read lock in `StreamToFence` and the write
  lock in `ActivateTable`.

`Close` cancels the worker and waits for it.

Note on the APIs: `capture.go` drives its stream through an older
`Events()`/watermark interface, while `replication.go` implements the
`StreamToFence` interface. The two are therefore modelled as separate modules,
each against an abstract peer:

- The coordinator sees an in-order log.
- The replication stream sees an arbitrary caller of `StreamToFence`,
  `ActivateTable` and `Close`.

## Inventory

| component | state | operations | hard behaviour |
|---|---|---|---|
| replication worker (`run`, `handleQuery`, `handleAlterTable`) | binlog cursor, `uncommittedChanges`, `nonTransactionalChanges` | one step per binlog event kind; DROP/ALTER handling; deactivation | blocking sends; lock held across a send; implicit flushes; failure exit |
| tables registry (`rs.tables`) | active set, nonTransactional flags, dirty metadata, metadata, key columns | `ActivateTable`, `deactivateTable`, reads | RW lock shared by both goroutines; flags computed once |
| fence (`StreamToFence`) | fence position, timed-phase locals | dirty-metadata report, timed phase, fence query, early exit, fenced phase, watchdog | position read concurrently with the worker; timers |
| coordinator (`Run`, `streamToWatermark`, `emitBuffered`, `backfillStreams`) | `PersistentState` (cursor, mode, scanned) | watermark write, stream to watermark, emit buffered chunk, scan next chunk | patch-or-emit decision at `scanned`; checkpoint before the buffer is emitted; crash/restart |
| result set (C4, not in this repository) | buffered chunk, last key, complete flag | Buffer, Patch, Changes, Scanned, Complete | patches past the end of an incomplete chunk |
| discovery (`discovery.go`) | none | table filters, suggested key, key pointers, catalog names, version check | escape order; fallback keys |
| catalog reconciliation (`updateState`) | configured catalog, persisted `Streams` | new, checked and removed streams; partial failure | stale persisted keys; stream ID join/split |
| snowflake materialization | staged files, pipe records, checkpoint | Store, Acknowledge, copy-history polling | crash between staging and load; retries |
| postgres config, hello-world, slack | none or a counter | validation, defaults, posting | sequential |

## Modules

### `BinlogReplication` (MCBinlogReplication)

The MySQL server is the environment. It appends whole transactions to the
binlog:

- `BEGIN`.
- A `RowsQuery` and a `Rows` event per statement.
- An `XID` for InnoDB tables, or a `COMMIT` query for MyISAM tables.

It also appends single `ALTER TABLE` and `DROP TABLE` statements. Binlog
positions are binlog indices. The model keeps only the events the worker has
not read yet. Event payloads are dropped: an event keeps its position, and a
change also keeps where its transaction ends.

Worker actions, one per case of `run`'s switch:

- `HandleRowsEvent`
- `HandleXIDEvent`
- `HandleImplicitFlushEvent`, for the event kinds that only permit an
  implicit flush.
- `HandleCommitQuery`
- `HandleQuery`, for BEGIN, ignored COMMIT, and DDL on inactive tables.
- `HandleDropTable`
- `HandleAlterTable`

Each worker action computes the whole list of sends, lock releases and
deactivations the handler performs (`pending`). These are then taken one at a
time:

- `Send`, which blocks on a full channel.
- `Unlock`, the deferred unlock of `handleAlterTable`.
- `DeactivateTable`

`WorkerCanceled` models cancellation waking the worker where it blocks.

The capture goroutine has a program counter `main`. Its actions are:

- `StartStreamToFence` and `ReportDirtyMetadata`, the latter under the read lock.
- `TimedReceive` and `TimedDeadline`
- `QueryFencePosition`, which includes the early exit and its sanity check.
- `FencedReceive` and `FenceWatchdog`
- `ChannelClosed`
- `BeginActivateTable` and `ActivateTable`, the latter under the write lock.
- `Close` and `CloseJoin`

Fairness:

- Both goroutines are scheduled weakly fairly.
- The deadline and watchdog timers eventually fire, so they are weakly fair.
- Lock acquisition is strongly fair. Go's `RWMutex` does not starve a waiting
  writer or reader once the lock is released repeatedly.
- The server and the caller's choices are not fair. These are: more commits,
  another fence, an activation, and `Close`.

### `TableMetadata` (MCTableMetadata)

The MySQL server is both the environment and the reference. It applies each
`ALTER TABLE` to its own column list by MySQL's rules (`ServerAlter`) and
writes the statement to the binlog only if it accepts it. Under those rules:

- `RENAME COLUMN` options of one statement are resolved against the table as
  it was before the statement, so two of them can swap names.
- `CHANGE` and `MODIFY` keep the column's place unless `FIRST` or `AFTER` is
  given.
- `ADD` appends, or goes `FIRST` or `AFTER` an existing column.
- The last column cannot be dropped.

The code side translates `handleAlterTable` option by option:

- `RenameColumn`, `ChangeColumn`, `ModifyColumn`, `AddColumns` and
  `DropColumn` use Go's 0-based `slices.Index`, `Delete` and `Insert`
  (`IndexOf`, `SliceDelete`, `SliceInsert`).
- A `RenameTableName` option is an unsupported-alteration error.
- Any other option is ignored.
- `ApplyAlterOptions` folds the options in order and stops at the first
  error.

Actions:

- `HandleAlterTable` pairs one accepted statement with the code's result. An
  error ends the capture.
- `HandleRowsEvent` takes a row image from the server. It picks the column
  names from the binlog's row metadata (`FULL`) or from the tracked
  metadata, runs `decodeRow`, and translates the values by the tracked
  types.

Data abstraction:

- A value is abstracted to the server column it came from and that column's
  type, so a wrong decoding is visible directly.
- `ADD COLUMN` adds one column.
- `ColumnTypes`' nil sentinel and a missing entry are both `NoType`.
- A column's declared type is an abstract type or an `ENUM` with a
  sequence of case names. `translateDataType` turns an `ENUM` into its
  metadata form, `enumValues = ["", cases...]`, the empty string being the
  index-0 value MySQL writes for an invalid case; every other type is kept.
- `Init` is `ActivateTable` on a restart. The persisted metadata was
  written either by this version of the code or by an older one
  (`OldTranslateDataType`, the cases followed by `""`), and
  `MigrateEnumOrdering` moves a trailing `""` to the front when the first
  value is not `""`. Every subset of the columns may hold old metadata.
- Key columns are fixed at `Init` (`ActivateTable` from discovery) and are
  never changed afterwards, as in the code.

### `BackfillCapture` (MCBackfillCapture)

The model has one captured table with integer keys. The database commits
single-row insert, update and delete transactions, each followed by a flush.
The coordinator's watermark writes go into the same log.

Coordinator actions, following `Run`:

- `WriteWatermark` is the loop head.
- `StreamEvent` is one iteration of `streamToWatermark`. A flush is
  checkpointed and ends the stream once the watermark has been seen. A change
  is emitted if its key is at or below `scanned`, or else patched.
- `EmitBuffered`
- `BackfillStreams`

The result set is modelled from spec §4.4. `Patch` ignores keys past the last
key of an incomplete chunk. That rule is forced by spec invariant 1 ("every
ChangeEvent emitted downstream has row_key ≤ scanned"). Taken literally, §4.4
would insert such rows (see Results).

Downstream, the emitted records build a table `view`. Each checkpoint stores
the view it commits. `Restart` models a crash: downstream keeps the
checkpointed view, and `Run` starts over from the checkpointed state with
replication at its cursor.

The coordinator is weakly fair. It is one goroutine with no waits other than
the log.

`MaxWatermarks` caps the loop's iterations. The exactly-once run does not
check deadlock: the capture stops for good only after tail-off mode
(`Terminated`), and a stop anywhere before the table is Active, at the cap
included, violates `BackfillCompletes`, which the same run checks. A mutant
whose loop does not progress stops at the cap and is reported that way.

### `SnowflakeTransactor` (MCSnowflakeTransactor) and `MaterializedTables`

The runtime drives the transactor:

- `Store`, then `StartCommit`, whose checkpoint becomes the recovery log.
- `Acknowledge`, then the clearing checkpoint.

The transactor's actions follow the code:

- `Store` stages a file per binding and transaction. The checkpoint item is a
  MERGE if any document exists, otherwise a Snowpipe item if the binding is
  delta-updates with a pipe, otherwise COPY INTO. `StoreWaitPipe` spins on
  `SHOW PIPES`.
- `AckDispatch`, `RunQuery`, `QueryExec` and `QueryCleanup` model the query
  goroutines: execute, then delete the staged files.
- `InsertFiles` submits a pipe's files.
- `GroupWait` waits for the errgroup and computes
  `maxTries = WaitSeconds / (RetrySeconds * len(pipes))`.
- `PollPipe` is one iteration of the `insertReport`/`COPY_HISTORY` loop,
  with its resets of `tries` and its failure branches.
- `NextTry` and `AckClear` end the loop and clear the checkpoint.

The environment's actions:

- Snowflake's load history deduplicates COPY INTO and Snowpipe loads.
- Snowpipe loads, or fails to load, each file.
- A pipe becomes visible after it is created.
- A crash keeps only the last checkpoint. `Recover` reloads it, and the
  runtime acknowledges it again.

A file is `<<binding, txn>>`, so a replayed transaction reuses its file
names, as the code's per-checkpoint names do.

Fairness (`LiveSpec`):

- The transactor's steps other than `Store`, `StartCommit` and `Recover` are
  weakly fair.
- Snowpipe's processing is weakly fair.
- Pipe visibility is weakly fair.
- New transactions and crashes are not fair.

`MaterializedTables` is what the transactor promises, without stages,
pipes, queries or checkpoints: the runtime commits files (`<<binding,
txn>>`), a committed file is applied to its table once, and nothing else
changes a table. `SnowflakeTransactor` instances it with its own
`committed` and `rows` (the identity refinement mapping, since both are
already the abstract state), and `TablesSpec` is checked as a PROPERTY.
`StoredPc` is where `Store` returns its `StartCommitFunc`; the mutant that
starts `Acknowledge` there instead of after the commit applies an
uncommitted transaction.

### `Discovery` and `CaptureCatalog` (MCCaptureCatalog)

`Discovery` is a module of operators. A string is a sequence of
one-character strings, so `strings.ReplaceAll` (`StringsReplaceAll`, left to
right, non-overlapping), `ToLower`, the catalog-name sanitizer and
`strings.SplitN` do their character-level work. `DiscoverCatalog` maps the
tables and their current primary keys to the set of discovered bindings:
views, omitted bindings and tables with a `flow_published_at` column are
skipped, and a key with an omitted column becomes the fallback key with the
without-key mode. Each binding carries its collection schema, reduced to
what the key relies on (`CollectionSchema`): a property for each column not
omitted, and the suggested key as the required properties.

No property of the capture-catalog run restates `updateState`'s key
comparison (`strings.Join(key, ",")` at `capture.go:208`) or discovery's
omitted-column check: on the run's names each would hold by the guard
itself. The comparison's real weakness, a column named with a comma, is
listed as a hazard.

`CaptureCatalog` has four variables:

- `pk`: each table's primary key in the database (`DiscoverTables`);
- `catalog`: `Catalog.Streams`, the configured streams in order;
- `streams`: `State.Streams`, stream ID to mode and key columns;
- `status`: the outcome of the last `updateState`.

Its actions:

- `PublishCatalog`: a catalog made of discovered bindings, in any order, each
  with its key pointers read as RFC 6901 paths, or with no key, or with no
  namespace (the runtime's part, modelled from RFC 6901);
- `AlterPrimaryKey`: the database changes a table's key between runs;
- `UpdateState`: the loop over the catalog (`UpdateStream`, one iteration:
  invalid key element, catalog or database key, no key, new stream, key
  compared by `strings.Join(..., ",")`), then the removal of streams no longer
  in the catalog; on an error nothing is persisted;
- `DiscoverTablesFails` and `DefaultSchemaFails`: the error paths of
  `updateState` before its loop (the second only while a catalog stream has
  no namespace);
- `BackfillComplete`: `emitBuffered` marks a pending stream Active (the
  backfill itself is `BackfillCapture`).

No fairness: the properties are safety properties, and nothing in the
environment is obliged to act.

## Runs

| run | cfg | bounds | checks |
|---|---|---|---|
| binlog_fence | MCBinlogFence.cfg | tables t1 (InnoDB) and t2 (MyISAM); channel 2; 8 binlog events; 2 statements per txn; no DDL | TypeOK, FlushAtCommitBoundary, FenceCoversServerPosition, NoSanityCheckFailure, NoFenceWatchdogTimeout |
| binlog_ddl | MCBinlogDDL.cfg | one MyISAM table; channel 11; 5 events; column and unsupported ALTERs and DROP | FenceCoversServerPosition, NoSanityCheckFailure, FenceCompletes |
| binlog_lock_cycle | MCBinlogLockCycle.cfg | channel 1; column ALTERs | NoLockChannelCycle (violated) |
| binlog_engine_change | MCBinlogEngineChange.cfg | one InnoDB table; engine ALTERs | NoFenceWatchdogTimeout (violated) |
| backfill_exactly_once | MCBackfillExactlyOnce.cfg | keys 1..3; values {1,2}; chunk 2; 2 concurrent commits; 1 crash; tail-off; 6 watermarks | TypeOK, ExactlyOnce, BackfillCompletes |
| table_metadata_ddl | MCTableMetadataDDL.cfg | names {a,b,c}; types {t1,t2}; ENUMs ('x','y') and ('x',''); table (a,b) keyed on a, b possibly an ENUM with old or new persisted metadata; 3 single-option ALTERs of every kind and position; MINIMAL and FULL row metadata | TypeOK, RowsDecodeFaithfully |
| table_metadata_rename_swap | MCTableMetadataRenameSwap.cfg | one statement of two RENAME COLUMNs; MINIMAL | RowsDecodeFaithfully (violated) |
| table_metadata_key | MCTableMetadataKey.cfg | one ALTER | RowKeyPresent (violated) |
| snowflake_ack | MCSnowflakeAck.cfg | a MERGE/COPY binding and a Snowpipe binding; 2 transactions; 1 crash; 1 load failure; poll budget 6/3 | TypeOK, NoLostTransaction, CommittedEventuallyApplied, TablesSpec (refinement) |
| capture_catalog | MCCaptureCatalog.cfg | tables p.t (key `a` or `/`,`a`), q.U (key `~1`, or `b`, an omitted column), a view and a materialized table; default schema p; escaping also checked on all strings of up to 3 characters over `~ / 0 1` | TypeOK, EscapeRoundTrip |
| capture_catalog_dots | MCCaptureCatalogDots.cfg | a table c in schema `a.b`, beside p.t | BackfillScansItsTable (violated) |
| snowflake_many_pipes | MCSnowflakeManyPipes.cfg | two Snowpipe bindings; 1 transaction; poll budget 3/3 | NoLostTransaction (violated) |

Why the bounds are enough:

- **Channel 2 in the fence run.** This makes backpressure happen: the worker
  blocks while the fence is in either phase.
- **Channels of 11–13.** These are at least the number of events the binlog
  bound can produce. This keeps the known lock cycle out of the runs that ask
  other questions.
- **Six binlog events.** These hold a transaction and two DDL statements, in
  either order, around any number of fences and activations.
- **Three keys with a chunk of two.** A full table takes two chunks, and the
  second chunk is short. Two concurrent commits are enough for a change to
  land:
  - below the scan point,
  - inside the buffered chunk,
  - past its end,
  - between the scan and the next watermark.

  One crash can fall between the watermark checkpoint and `emitBuffered`.
- **Three names, two types, three statements.** Each kind of column edit can
  hit a key column, a column before or after another, the first and the last
  position, and a name that was used before. Two types are enough to tell a
  type carried to the wrong column. Two ENUMs, one with an explicit `''`
  case, give both branches of `MigrateEnumOrdering` and the case where a
  migrated list already starts with `''`.
- **Four catalog tables.** Between them they take every branch of
  `DiscoverCatalog` (view, materialized table, key with an omitted column and
  its fallback key, escaped key columns) and of `updateState` (invalid key
  element, no key, new stream, key mismatch, removed stream). A blank
  namespace defaults to p, which makes q.U's stream a stream of a table the
  database does not have. Two primary keys per table give a key change
  between any two runs; a two-column key exercises the `","` join.
- **Engine changes** are checked only in the engine-change run: with them,
  the fence never comes (the finding below), so the liveness of
  `StreamToFence` is checked with column and unsupported ALTERs.
- **The Snowflake poll budget.** The code's budget is `(5*60)/(3*len(pipes))`.
  The model scales it through `WaitSeconds` and `RetrySeconds`:
  - 6/3 gives one pipe two tries, so both the report path and the
    `COPY_HISTORY` fallback run.
  - 3/3 with two pipes gives `maxTries = 0`, as 101 pipes do with the real
    constants.
  Two transactions with one crash cover a crash between every pair of
  protocol steps, and a replay of an uncommitted transaction.

## Results

- **Flush alignment, fence and sanity check.** These hold with row changes,
  DDL, activation, backpressure and repeated fences.
  - Every FlushEvent is sent only after the transactions of all changes sent
    before it have ended.
  - When `StreamToFence` returns, no non-flush event at or before the fence
    is still queued.
  - The early exit's sanity check cannot fail.
- **Lock cycle (code bug).** `handleAlterTable` holds `rs.tables.Lock()`
  while `emitEvent` blocks on a full channel. If the capture goroutine then
  calls `StreamToFence` (read lock) or `ActivateTable` (write lock), both
  goroutines wait forever. TLC finds this in five steps with a channel of one.
- **Engine change (spec/code divergence).** `ActivateTable` decides
  `nonTransactional` once, from discovery. `ALTER TABLE … ENGINE=MyISAM` is an
  "ignorable table alteration". After it, a MyISAM transaction's `COMMIT`
  query is not treated as a commit, so `uncommittedChanges` never returns to
  zero. No FlushEvent is sent again, and the fence watchdog fails the capture.
  Spec §4.2 says such a COMMIT is a commit.
- **Exactly once.** This holds under concurrent commits and a crash at any
  point. At every step, downstream equals the source as of the last delivered
  change on every key the capture covers, and is empty on every other key.
  With a literal §4.4 `Patch` (the `PatchUnbounded` mutant), TLC finds a row
  patched past an incomplete chunk that is emitted above `scanned` and then
  lost.

- **Column metadata.** After any three single-option `ALTER TABLE`
  statements that MySQL accepts, `handleAlterTable` never fails on an
  unknown column. Every row decodes each value under the name and type of the
  server column it came from, with or without row metadata.
  This includes `ENUM` columns whose metadata was persisted by an older
  version and migrated by `ActivateTable`. One case it does not cover: an
  `ENUM` whose first declared case is `''` has old metadata `['', x, '']`,
  which `MigrateEnumOrdering` leaves alone, so every value decodes one case
  off. Setting `MCEnumCases` to `{<<"", "x">>}` makes `RowsDecodeFaithfully`
  fail; it is listed as a hazard.
- **Rename swap (code bug).** MySQL accepts
  `ALTER TABLE t RENAME COLUMN a TO b, RENAME COLUMN b TO a` as a swap.
  `handleAlterTable` applies the two options one after the other to the list
  it is editing:
  - the first makes the list `[b, b]`;
  - the second renames the first `b` back to `a` and sets `b`'s type to nil.

  The tracked list stays `[a, b]` while the table is `[b, a]`. The arity is
  unchanged, so no error is raised, and every later row swaps the two values.
- **Key columns (spec gap).** `keyColumns` is set only by `ActivateTable`.
  After a key column is renamed, changed or dropped, decoded rows no longer
  have the field the row key is computed from. The spec lists these
  alterations as supported, but does not say what happens to the key.
- **Backfill termination and refinement.** The backfill loop ends with the
  table Active under concurrent commits and a crash. A scan that ignores
  the resume key loops forever.
- **Snowflake acknowledgement.** With a crash at any point and a failed
  Snowpipe load, no committed transaction is lost, none is applied twice, and
  under fairness each is eventually applied. The transactor implements
  `MaterializedTables`: no table ever receives a transaction the runtime
  has not committed, even when a crash makes the runtime store it again.
- **Many pipes (code bug).** `maxTries` is 0 from 101 pipes on, so the
  polling loop never runs. `Acknowledge` clears the checkpoint without
  checking any load, and a file whose Snowpipe load fails is lost. The
  comment at `snowflake.go:717` promises to wait until every load succeeded
  or an error was thrown.

- **Catalog reconciliation.** After any sequence of republications (keys
  dropped, namespaces dropped, streams reordered or removed), primary-key
  changes, backfills, restarts and failures of `updateState`, every
  persisted stream has a non-empty scan key. Key pointers discovered for columns named `/` or `~1` are read back by an
  RFC 6901 reader as the very columns; escaping `/` before `~` (mutant)
  turns `/` into the other table column `~1`.
- **Dotted schema names (spec/code divergence).** `splitStreamID` splits at
  the first dot. For table `c` in schema `a.b`, the stream ID is `a.b.c` and
  the backfill scans table `b.c` of schema `a`. `schemaActive` likewise does
  not see schema `a.b` as captured, so a `DROP DATABASE` of it is not fatal.
  Spec §2 makes joining and splitting the only sanctioned conversion, and the
  comments call the split the join's inverse.

Every property of a passing run has a mutant in `PROJECT.json`. A mutant is a
plausible bug of the mapped code, such as a missing counter reset, a dropped
guard, or a restart from the wrong cursor, and TLC catches each one.

## Not modelled, and the plan

Not modelled yet:

- The other `handleQuery` branches. `RENAME TABLE` of an active table
  takes the same path as `DROP TABLE` (a `TableDropEvent` and
  `deactivateTable`); `DROP DATABASE` of a captured schema and DML
  statements on active tables end the worker as an unsupported `ALTER`
  does, so `BinlogReplication` has the one failure exit for all of them.
- Other parts of the column metadata:
  - multi-column `ADD`;
  - the skipped columns of partial row images;
  - `mergePreimage`;
  - charsets: `DefaultCharset` is stale after
    `ALTER TABLE … DEFAULT CHARSET` (listed as a hazard; decoding of text
    is abstracted).
- The dirty-metadata report of a table dropped after activation
  (`replication.go:1010`). `BinlogReplication` keeps the table in
  `dirtyMetadata` as `deactivateTable` does, but it abstracts metadata
  contents, so the null it reports is invisible to its properties.
- Two consequences of `updateState`'s comparisons are listed as hazards
  without a run: a key compared as `strings.Join(key, ",")` takes `[a, b]`
  and a column named `a,b` for the same key, and two tables whose names
  differ only in case share one stream ID. The checked run's names avoid
  both, so that its properties hold; each is one more table away.
- Discovery's JSON schema generation beyond properties and required keys
  (column types, anchors, history-mode reductions) and `ParseVersion`'s regular expression. `ValidVersion` is an
  operator with no caller in this repository, so no run checks it.
- The conversion of discovered key pointers into the catalog's primary-key
  paths happens in the Flow runtime, outside this repository;
  `CaptureCatalog` reads them as RFC 6901 reference tokens.
- Parts of the Snowflake materialization:
  - `Load`, whose load files leak when a flush fails before its deferred
    clean-up (a hazard; `Load` changes no state the properties read);
  - spec versions and state-key changes, with their pipe clean-up;
  - the "Pipe not found" skip;
  - configuration and SQL templates.

Out of scope:

- The TLS connection fallback.
- JSON and tuple encodings.
- Logging.
- The Slack, hello-world and source-postgres configuration code. spec.md
  scopes the CDC engine; these are materialization writers and
  configuration loading. Each runs one sequential loop with no state that
  outlives a transaction beyond a counter, and no concurrency. Their
  two Slack hazards (a repost on replay, the shared `lastMessage`) are
  listed in `PROJECT.json` with the reason no property checks them.
