# bittice in TLA+

bittice is a read layer: it copies MySQL tables into local columnar *mirror
tables*, keeps them current by reading the binary log, and answers HTTP and
gRPC queries from them. These pieces of its code carry the promise it makes to
its users, that a query shows what MySQL holds:

* the **mirror table** (`core/storage`), which must not lose, duplicate or
  resurrect rows although the process may be killed between any two writes, be
  it of a row, of a log or of a compaction;
* its **indexes**, which must cover every live row although they are saved
  seldom, and the **queries**, whose shortcuts must answer as a scan would;
* the **CDC worker** (`core/cdc/mod.rs`), which must not miss or misapply a
  change although snapshots, log positions and flushes happen at different
  times, and must not let the ports open on a half-filled mirror;
* the **table cache** (`server/table_manager.rs`), through which workers and
  queries share open tables, and which closes tables that others may be using;
* the **engine** (`server/mod.rs`), which starts, retries, stops and joins the
  workers, serves saved operations that are edited meanwhile, and counts what
  is billed.

Source paths below are relative to the repository's `src/`.

## 1. Inventory

| Component | State | Operations | Hard behaviour |
|---|---|---|---|
| `core/storage/table.rs`, `segment.rs`, `manifest.rs`, `primary_index*.rs` | segments (append-only rows + `deleted.bitmap`), active segment, `primary.idx`, manifest | insert, update, delete, flush, rotate, close, open, open_for_query, reconcile, reload, compact, wipe | files written at different times; BufWriters that spill at will; recovery from any crash |
| `core/storage/wal.rs` | `wal.log`, its BufWriter | append, flush_writes, replay, truncate | torn tail; replay that appends to the log it reads |
| `core/storage/exact_index*`, `core/migrate_exact_index.rs` | per column: delta, LRU cache, snapshot, file in one of four formats | open, get, merge, purge, save, migrate | three layers that must answer as one; migration that dies half way |
| column bitmaps, zone maps, `exact_index_cache` | in memory, saved now and then | append, rotate, build, patch, evict, rehydrate | stale files after a crash; index never patched |
| `Table::search`, `core/join_query.rs` | – | search, probe, paged and ordered fetch, join, filter, aggregate | shortcut vs scan; early cut; parallel top-k |
| `core/cdc/mod.rs`, row handlers | – | write, update, delete rows; end of batch | redelivery of rows already applied; update in several steps |
| `core/cdc/mod.rs`, worker | `cdc_state.json`, stream, table maps, catch-up streak | snapshot, copy, anchor, stream, checkpoint, reconnect, rebuild, halt | MySQL commits in between; crash between two saves; lost streams; purged logs |
| `server/table_manager.rs` | cache of open tables, dirty set, per-key open locks | get, mark_dirty, flush, evict, close | eviction and close of a table another thread still holds; one dirty set for all workers |
| `server/mod.rs`, `repl/startup.rs` | halt flag, thread handles, Notify, active workers | start, stage, retry, reload, fatal stop, join, ctrl-c, menu | detached tasks; lost notifications; join timeouts; flags shared by two starts |
| `.bittice_ops.json`, `server/response_cache.rs` | file, cache of definitions, cache of responses | read, batch, create, replace, delete, reload | unlocked load–modify–save; response stored after a clear |
| `server/op_counter.rs`, `heartbeat.rs` | hourly buckets, file, temporary file | bump, persist, restore, report | one more writer per start; lost reports; death between persists |
| GTID text sets, consistency check, self health, auth, control plane, CLI, deployment, logging | files | sequential I/O | – |

Interaction: the worker obtains a table from the table cache, takes its write
lock, applies the rows of one event and marks the table dirty; a checkpoint
flushes every dirty table and then saves `cdc_state.json`; the first live
report of the worker lets the startup code open the ports; queries take the
same tables from the same cache. `PROJECT.json` lists the components with what
is modelled of each, and under `hazards` what is hard to test, line by line.

What makes each correct: a key has at most one live row and the index names it;
what was flushed survives; a location, once handed out, stays valid; recovery
ends; compaction changes no content; an index covers every live row, and a query
answers as a scan of the table, or the relational join, would; a key with nothing
left to deliver reads as in MySQL; the ports open only after the copy's backlog;
the worker gets there when MySQL falls silent; a table is opened once, a closed
one is never handed out, and every call returns; a profile has one worker; a
fatal failure stops the engine; an edited operation takes effect; the bill counts
what was answered.

## 2. Modules

| Module | Models |
|---|---|
| `TableOps` | `struct Table` and its methods as functions from table to table, used by the three next |
| `MirrorTable` | one table: row handlers, flush, rotation, close, open, replay, reconcile, process death |
| `Compaction` | the same table seen by its directories and manifest: compact, ghost purge, wipes, reload |
| `SecondaryIndexes` | column bitmaps, zone maps and exact indexes of a table, and when they are saved |
| `ValueIndex`, `ExactIndex` | what an exact index promises; the index of one field, its files and migrations |
| `TableSearch` | search, probe, paged and ordered fetch, group counts |
| `JoinQuery` | the executor of multi-table queries |
| `CdcReplication` | one worker, MySQL, and the mirror as `MirrorTable` promises it |
| `TableCache` | the cache of open tables, and the threads around it |
| `EngineLifecycle`, `OpCounter`, `SavedOperations` | starts and stops of the engine; the billing counter; saved operations and their caches |
| `Engine` | the three composed: start, answer, reload and death are steps of several of them |
| `MC*` | their TLC instances |
| `TableOpsProof`, `MirrorTableProof`, `CompactionProof`, `QueryProof`, `SearchProof`, `CdcReplicationProof`, `TableCacheProof`, `EngineProof` | the proofs |

`SearchProof` is about `ExactIndex` and `TableSearch`, `QueryProof` about
`SecondaryIndexes` and `JoinQuery`; the others are about the module they are named after.

How they fit: `TableSearch` assumes of bitmaps, zone maps and exact indexes what
`SecondaryIndexes` shows, and `SecondaryIndexes` treats an exact index as the set
`ExactIndex` refines; `JoinQuery` fetches what `TableSearch` returns, over-wide
answers included; `CdcReplication` uses the contract of `MirrorTable`.

### MirrorTable

`t` is `struct Table`: the active segment's id, its row count and how many of
those rows have left the BufWriters (`flushed`), the rows of all segments by
location, the tombstones, the in-memory index and the log. On disk are
`idxFile` (`primary.idx`), the first `walFile` entries of the log, the flushed
rows and all tombstones (`persist_deleted_bitmap` is called wherever a row is
marked). Table operations are functions from table to table, named after the
methods; actions are the handlers. A handler is cut into several actions
exactly where it writes to disk, so that `Crash` can fall between the writes.

`Crash` is the death of the process, not of the machine. Each BufWriter keeps
any part of its contents, independently, and the log may end in a length header
without its record (`torn`). `FastExit` is `process::exit` after
`fast_exit_flush`: the log is flushed, the segment is not.

Three history variables carry the specification: `content` is what readers must
see, `kept` what they must see after a crash (a key touched since the last
flush is `Unknown`), and `exposure` the set of crash windows hit so far:

| Window | What happened |
|---|---|
| `respill` | entries re-appended by a replay reached the log they came from |
| `partial` | rows appended by a replay reached the segment while the log was still there |
| `dangling` | `primary.idx` names a row that did not survive |
| `deadSlot` | a tombstone was persisted for a row that did not survive; the next row in that slot is born deleted |

In each of them the code really loses or resurrects flushed rows; the safety
property excuses exactly these and nothing else, and replacing `exposure = {}`
by `exposure \subseteq {w}` shows a counterexample for each window `w`.

Simplifications. A crash inside `insert` or `delete` (between the log append
and the bitmap) is not a separate point: the log entry is then still buffered or
is replayed to the same effect. A row has one content besides its key, so the
merge of partial update images is out, and so are updates that change the key.
Which flush trigger fires (rows, time, dirty tick) is left open. I/O errors and
`WalOperation::Update`, which nothing writes, are out.

### Compaction

The state is which directories exist, what is in them, which of them the manifest
(in memory, on disk) names, `primary.idx`, and the progress of `compact`: rename
the new segments one by one, delete the old directories one by one, install, save
index, save manifest. `prepare_for_full_snapshot`, `delete_all_rows`, the ghost
purge, a copy that is started over and `reload_if_needed` are the other actions.
Rows reach their directory in the step that applies them; recovery is one step;
what happens between the writes of a row is `MirrorTable`'s business.

| Window | What happened |
|---|---|
| `leftover` | a compacted segment has its final name and the manifest does not name it: the id comes up again and its rows with it |
| `dropped` | directories the manifest names are gone |
| `unlisted` | a wiped table went into use before a rotation saved its manifest |

### ExactIndex and SecondaryIndexes

`ExactIndex` is one handle with its three layers and the file in any of the
formats the code opens; the map `Merged` (snapshot overlaid by delta) and the
contents of the file, or of the backup while a migration has moved it, are the
refinement mapping to `ValueIndex`. `SecondaryIndexes` gives a bitmap, a zone map
or an index as the set of locations that went into it. Its windows: `bitmaps` (rows
were flushed after the bitmap file), `zones` (rows of the active segment on disk,
their zone map not), `exact` (an index file saved while the active segment was in
it: it is never patched again).

### TableSearch and JoinQuery

Pure algorithms: the initial states range over tables and queries, the result is
compared with a reference definition written in the same module (`Wanted`,
`RefRows`). Steps are the pages of a fetch and the stages of the executor. Values
are numbers with their string order (`StrLess`), cells of a join carry the way
they are written, since `6351` and `6351.0` must join. A row maps qualified fields
to cells; `FetchBase`, `ApplyNextJoin` and `Finish` are `execute_join_query` before, in
and after its loop over the joins. `IsQuery` is what `resolve_joins` lets through,
`Fits` that the columns a query joins on, filters by and sums are there and that none
has the name of a synthetic field. `IsView` says what a table
under the read lock is: what `SecondaryIndexes` and `MirrorTable` show of bitmaps, zone
maps, exact indexes and the primary index. Rows come out segment by segment; where
the code iterates a `HashMap` or an exact index the order of the segments is open.
The parallel top-k is a task per one or more chunks in a row, since that is what the
fold of `par_chunks` gives a thread, and a merge in order. The named conditions
(`NumbersInOrder`, `KeyAlone`, `RowsAreTold`, ...) say where the code answers
differently from the reference; section 5 lists them with the lines.

### Engine

`EngineLifecycle` has the process-wide statics (halt flag, handles, Notify, cause)
apart from what each start owns (task, ports, active workers), because the menu
starts the engine again while the task of the last start, its retry threads and
the workers it could not join still run. A worker is reduced to connecting,
starting, live, ending. `OpCounter` has the persistence tasks of all starts over
one temporary file: a writer keeps the file it opened when another renames it.
`SavedOperations` numbers the edits; an operation is the edit that wrote it.
History variables say which edit a read must see at least (`since`), what a death
may forget (`lost`) and which workers outlive their engine.

### CdcReplication

The binlog is a sequence of events: per transaction a GTID event, a table map
and one row; and rotations. A position is the number of events before it. `w`
is the worker's `CdcState`, `st` the file. The actions follow `run_impl`:
`StartFresh`/`Resume`, `ReadCoordinates`, `CopyTable`, `Anchor`,
`ResolvePosition`, `CaptureGtids`, `OpenStream`, one action per kind of event
with the checkpoint at the end of the loop, the two idle branches, the 1236
error with and without rebuild, stream end and error, halt and crash.

The mirror is the contract of `MirrorTable`: a flush settles the contents, a
crash leaves for every touched key any content since the last flush, and, when
something was unflushed, possibly a table that cannot be opened.

`lapses` names the gaps through which the code loses rows; the safety property
excuses exactly these:

| Gap | What happened | Where |
|---|---|---|
| `snapshotGap` | MySQL committed between the snapshot and the reading of its coordinates | `cdc/mod.rs:2312`–`2316` |
| `orphanCopy` | a crash after a copy was recorded, before its coordinates were | `2464`, `2575`, `2704` |
| `clearedPending` | a restart cleared a catch-up that had not ended | `2638` |
| `midTransaction` | a restart from a position between a table map and its row | `3298`, `3352` |
| `hastySave` | a crash after a position was saved without a flush | `3058`, `3206`, `3363` |
| `unopenable` | a crash left a log that cannot be read; the events are skipped | `3728` |
| `tipAnchor` | the checkpoint was given up for the current tip (documented behaviour) | `2984`, `3200` |

Simplifications. One table, one row per transaction. The copy of a table is one
step: a crash halfway is one before its save, and the copy starts over. Heartbeats
only reset the streak (they come every 15 s, the idle branch runs every 50 ms).
The server is modelled from how it is used: it sends from the requested position
and passes over transactions whose GTID event it meets in the given set. DDL and
schema validation, allowlists, sync-all, `exit_after_cdc_ready`,
`SKIP_BINLOG_BACKLOG`, failing MySQL statements and the connect backoff are out.

### TableCache

Threads are CDC workers (row events, copies of a table, checkpoints) and clients
(queries, the startup compaction). A `Table` value is an identity with a key and
a state: `clean`, `volatile` (rows in its BufWriters), `closed` (`close` has taken
the active segment). The Arc is explicit: an instance lives while the cache or a
thread's `ref` names it, and the step that lets go of the last reference runs
`Drop`, that is `close` again. Every lock the code holds over more than one step
(per-key mutex, `tables`, each table's RwLock) is a set of program counters; the
short critical sections are single steps. `evict_lru` is cut at the removal and
the close of each victim, because it waits for the victim's lock in between.

`max_open` and the eviction classes (cold, CDC only, queried, both) follow from
`ops` and `cdcActive`. Victims are a lowest-ranked set; within it they are closed
in any order. A row event on a closed instance is recorded in `lost`: `insert`
and `delete` then write only to the log, which `Drop` truncates. Exempt is a table
without any data, whose log is kept; the model does not tell it apart.

Left out: HTTP inserts, the broadcast of row events, lock poisoning.
`reload_if_needed` is in `Compaction`.

## 3. Runs

| Run | Checks | Instance |
|---|---|---|
| `table_safety` | `TypeOK`; `IndexNamesEveryLiveRow` (no ghost rows); `FlushedRowsSurvive`; `SegmentsAppendOnly` | 2 keys, 2 contents, segments of 2 rows, index saved every 2nd flush, 3 rows, 3 deaths |
| `table_recovery` | `RecoveryEnds`, `SegmentsAppendOnly` | 1 key, lazy opens, 2 deaths |
| `compaction` | `TypeOK`; `ContentIsKept`; `NoStrayRows` | 2 keys, 2 contents, segments of 1 row compacted to 2; 4 rows, 2 compactions or wipes, 1 death |
| `exact_index` | `TypeOK`; `ImplementsValueIndex` (refinement) | 3 values of which 2 share a hash, 2 segments, cache of 1, 4 changes, every file format |
| `secondary_indexes` | `TypeOK`; `BitmapsCover`; `ZonesCover`; `ExactCovers` | 2 keys, 2 columns, cache of 1 index, 3 rows, 2 deaths |
| `search` | `NoMatchIsMissed`; `NoDeadRow`; `SearchIsExact`; `FetchVisitsEveryRowOnce`; `OrderedPageIsRight`; `GroupsCountTheMatches` | all tables of 3 rows in 2 segments, all queries of up to 2 of 10 filters, pages of 1, chunks of 2, buffers of 2 pages: 864,048 states |
| `join` | `JoinIsRelational`; `NothingIsInvented`; `AggregatesSeeEveryRow`; `GroupsAddUp`; `TotalIsExact` | 81 databases of 3 tables of 2 rows; 2,580 queries over up to 3 tables |
| `cdc_safety` | `TypeOK`; `DeliveredKeysAreCurrent`; `GateHolds` | GTIDs, rebuild on gap; 2 transactions, 1 rotation, 2 crashes, 1 lost stream or stop |
| `cdc_live` | `EventuallyLiveAndEqual` | no GTIDs, no rebuild, resume gate; 2 transactions, 1 rotation, 1 crash, 1 lost stream |
| `cache_safety` | `TypeOK`; `OpenedOnce`; `CachedTablesAreOpen`; `SavedRowsAreDurable` | 2 workers, 1 client, 2 tables, room for 1; 4 calls, 1 reload of the operations |
| `cache_live` | `CacheIsBounded`; `CallsReturn` | 1 worker, 1 client, 3 tables, room for 1; 3 calls |
| `engine` | `OneWorkerPerProfile`; `BillIsRight`; `EditsTakeEffect`; `FatalFailureStopsEngine` | 2 profiles, 2 starts, 3 workers, 2 clients, 1 operation and 1 batch, 3 hours; nine scenarios |

Bounds. Three rows with segments of two fill one segment and start the next, so
updates cross segments; two flushes pass between index saves, so the index file
is stale in one of two states; a second and a third death are what it takes to
crash in the recovery from a crash and to look at the result. For the worker,
two transactions give one during the copy and one after it; two crashes, one
interrupting the recovery from the other. Keys and contents are interchangeable
and are declared symmetric in the safety runs (not in the liveness runs). For
the cache, room for one table makes every second open an eviction; four calls of
three threads are an open, an eviction of what is in use, a checkpoint and one
that races it. With two threads `CacheIsBounded` allows two tables, so a third
one is there to be cached by mistake.

Segments of one row give compaction four of them to pack into two, so that a new
segment takes an id that was in use. In `exact_index` two values share a hash, as
two spellings of one text do, and the cache of one entry is full at the second
get. In `search` the values 2 and 10 are ordered differently as numbers and as
strings; one row may supersede another; an index may name a segment that is gone.
In `join` keys are written as integers on one side and as decimals on the other,
empty on some rows, and two rows of a table may look alike.

The scenarios of `engine` (`MCBudgets`) each bound what the environment does:
start, leave and start again; the same with a failing worker; two profiles under
ctrl-c; a failure before live, its retry and a reload; reads and an edit around a
reload; two edits; an edit and a death; two starts that persist, and a death; the
counter over three hours with a report and a death. The components meet only in
the steps `Engine` gives them, so a scenario leaves alone what it is not about.

Fairness. `MirrorTable`: a thread holding the table's write lock runs to the end
of its call. `CdcReplication`: the worker is one task that is always scheduled
and "down" is left because the container is restarted (deploy files set a
restart policy); the idle branch, a 50 ms timer, runs whenever nothing arrives.
Nothing is assumed of MySQL, of lost streams or of crashes, which the bounds end.
`TableCache`: a thread that can take a step takes it; nobody has to call. The
locks of `std::sync` are not fair, so `CallsReturn`, checked with a bounded number
of calls, excludes deadlock and not starvation under endless load. `Engine`: the
loop of `join_all_cdc_background_threads`, the task that was woken and the worker
about to notify go on, since threads and tasks that can run do; nothing is assumed
of MySQL, so a worker may connect for ever.

Deadlock is checked for the table, the worker, the cache and the exact index. A
table that cannot be opened and an idle worker stutter (`OpenFails`, `IdlePoll`), as
in the code; `TableCache` stops when all calls have returned (`Done`). It is not
checked where the modelled thing ends: a query that is answered (`search`, `join`),
an engine that has stopped, a table whose bounded changes are used up
(`compaction`, `secondary_indexes`).

Every property of a passing run has a mutant: a plausible slip in a modelled
operation (a tombstone forgotten by reconcile, a local id off by one, GTIDs
seeded after the copy, a poll that does not compare positions, an open without
the per-key mutex) under which TLC finds it violated.

## 4. Proofs

For every value of the constants (keys, contents, threads, tasks, tuning
parameters, bounds), from the `ASSUME`s of the modules, which TLC evaluates on
every run. They say what the code grants: special values are no values, sizes are
positive, a report covers no more hours than the file keeps
(`RetentionCoversReports`), a scenario of the engine is a record of counts
(`BudgetsAreScenarios`). The large inductive
invariants were checked by TLC on the bounds of their runs before they were proved (that
of `Compaction` in an earlier form).

`TableOpsProof` treats each operation of `struct Table` once: what is well formed
stays so and the log does not shrink; rows keep their locations; the replay loop,
a recursive function of the log's length, keeps whatever its body keeps, and a
bounded set of rows has a newest one. Both are shown from a least counterexample,
since the provers cannot instantiate an induction scheme.

Mirror table (`MirrorTableProof`)

* `TypeCorrect`: `Spec => []TypeOK`. `Reconcile` keeps a newest row, so the rows
  have to be bounded as well.
* `NoGhostRows`: with eager opens, `Spec => []IndexNamesEveryLiveRow`. Every way
  into a serving state goes through `Reconcile`; within a batch it holds since
  `Insert` tombstones exactly the row the index named. With lazy opens it is false:
  a crash can lose the log's buffer and keep the rows, and the reconcile that
  would index them is skipped.
* `RowsAreStable`: `Spec => SegmentsAppendOnly`. The strengthening is the layout: no
  row lies beyond the active segment, none in it beyond `count`, and
  `flushed <= count`, so an append meets a free location.
* `SurvivalTheorem`: with eager opens, `Spec => []FlushedRowsSurvive`, the promise
  recovery exists for. `SurvivalInv` says what index file, log and segment must
  determine together. While serving, the index is what the log's last entry for
  a key says, a key without an entry is as `primary.idx` has it, and the part of
  the log on disk holds all that `kept` relies on. In a table that is down, each
  key adds up (`AddsUp`): replaying what is left of its entries on the rows that
  are left gives `kept`. During the replay the same is said of the entries still
  to be replayed (`Replaying`), before the reconcile of its input (`ReconcileInv`).
  Each of the four windows of `exposure` is needed at exactly one place. TLC met the
  invariant in 2,892,256 states of the `table_safety` instance.

Compaction (`CompactionProof`)

* `CompactionTypes`: `Spec => []TypeOK`. Places are computed from ranks, so the rows
  have to be finitely many for the ranks to be numbers.
* `ContentTheorem`, `StrayTheorem`: `Spec => []ContentIsKept` and
  `Spec => []NoStrayRows`. Both say what holds between operations; neither says what
  the files are while `compact`, a wipe or a recovery is under way. `CleanInv` does,
  per control point, as long as `exposure` is empty. In use (`Clean`): the local ids of
  a segment are consecutive, so the manifest's record count names exactly its rows
  (`Stored`, `Counted`); the index names the only live row of a key (`Keys`); the
  log's last entry for a key is its content, and a key without an entry is as
  `primary.idx` has it, up to rows that a compaction has moved (`Logged`); the first
  insert of the log differs from the row `primary.idx` names, so replay does not take
  it for one already applied (`Ahead`). While directories are renamed and deleted, the
  disk holds the old segments still to go and the new ones that have come (`Holds`),
  and the new ones hold each key's content once (`PackedInv`). When the process is down,
  the files alone determine the content (`Down`): replay, `reconcile_orphan_rows` and
  the seal of the active segment lead back to `Clean`. The three windows of
  `exposure` are the deaths after which `Down` fails. A table that no death has hit in
  them never has ghosts, so `PurgeGhosts` matters to the types only.

Indexes

* `QueryProof!IndexesTypeTheorem`, `BitmapsTheorem`, `ZonesTheorem`,
  `ExactIndexTheorem`: the four invariants of `SecondaryIndexes`. `IndexInv` adds what
  the files hold while the table is closed (`bmFile` and `mmFile` have the active
  segment, immutable segments are rebuilt from their rows), that a cached exact index
  names every immutable segment, and that a saved one names no segment that is
  still written unless the window `exact` was hit.
* `SearchProof!ExactTypeCorrect`: `Spec => []TypeOK`.
* `SearchProof!ExactIndexRefines`: `Spec => ImplementsValueIndex`. Every step of
  the layered index is a step of the plain one or none, given `CacheMatchesSnapshot`
  (a cached entry is the snapshot's) and `MigrationIsFaithful` (no handle is open
  during a migration, and the new file holds what the backup holds).

Search and fetch (`SearchProof`), for all tables that satisfy `IsView` (the `ASSUME`
`ViewsAreTables`), all filters and all sizes of pages, chunks and buffers. The table
and the query do not change while rows are fetched, so what `Search` returns is proved
of every table and query; only the two fetches need an inductive invariant.

* `NoDeadRowHolds`, `NoMatchIsMissedHolds`, `SearchIsExactHolds`: scans first (a zone
  map that rules a filter out holds no match, by the order of decimal strings), then
  the loop of `exact_matches_for_eq_filters`, for which `Known` says that its answer is
  of live rows and has every row that all filters hold for, and `Narrow` that its rows
  satisfy the lookups made so far; then the branches of `search` one by one.
* `FetchVisitsEveryRowOnceHolds`: a listing has each row once and there is only one by
  segment id. `FetchInv`: what a paged fetch has is the beginning of that listing, all
  of it when it ends. It rests on `SameSearch`, that a later search of the same table and
  query finds the same, operator by operator.
* `OrderedPageIsRightHolds`: `KeepsBest`, of a task's state after some rows: whatever is
  neither in the buffer nor among the rows merged so far has at least `upto` of those
  that are no worse, and so has whatever the threshold turns away. A row skipped or
  buffered, a cut and a merge keep it (`CutKeepsBest`), and a sorted list of best rows has
  the ranks of the sorted result (`BestIsRanked`).
* `GroupsCountTheMatchesHolds`: the counts after each segment are those of the rows in
  the segments so far.

Queries over several tables (`QueryProof`), for all tables and queries that satisfy
the `ASSUME`s of `JoinQuery` (`IsDatabase`, `IsQuery`, `Fits`), any number of joins, any
page and any join limit.

* `JoinInvHolds`: `JoinSpec => []JoinInv`, the invariant the next five rest on. Until the
  rows are cut, `LateAt`: of the executor's rows and those of the relational reading
  after as many joins, the ones that meet the filters on the tables joined so far
  (`FiltersAt`) go together, one to one and in order, and agree in every field the query
  mentions (`Matched`). The others may differ, since a pushdown drops rows early and an
  index answer may be too wide. Once they are cut, `EarlyAt`: the rows are the first
  ones of the result, sorted and filtered, of the joins done so far (`Begins`), all or
  as many as the page needs (`Enough`), and `totalFound` counts that result. For rows a
  fingerprint cannot tell apart, `SetsAt`: they correspond as sets. TLC: 1,007,153 states.
* A join keeps `Matched` (`NextLate`): each current row finds, among the rows fetched for
  all of them, its own matches, in the order of the table (`FetchIs`: what coalescing
  merges and `WithoutRepeats` drops is in no row's way), and merged rows agree where
  their parts do. `NextCut` cuts: filtering and a stable sort commute with agreement
  (`KeptCommutes`, `SortCommutes`: a sort is determined by the keys and places, so lists
  that agree are sorted alike). `NextEarly`: the LEFT joins that are left neither drop,
  reorder nor filter out rows, so the beginning of a list stays one (`LeftStep`), and
  without fan-out its length stays (`LeftCount`).
* `JoinIsRelationalHolds`, `NothingIsInventedHolds`, `AggregatesSeeEveryRowHolds`,
  `TotalIsExactHolds`: at the end `FinishLate`, `FinishEarly` and `FinishSets` turn these
  into equal pages, aggregates, totals and sets.
* `GroupsAddUpHolds`: the groups part the places of a list, so the sum over the groups of
  a sum over their places is the sum over all places (`GroupsSum`).

CDC worker (`CdcReplicationProof`)

* `CdcTypeCorrect`: `Spec => []TypeOK`, including that no position passes the end
  of the binlog.
* `GateTheorem`: `Spec => GateHolds`. Inductive invariant: unless a restart cleared a
  pending catch-up, both the worker's state and the saved state are past the
  copy's window or still pending.
* `DeliveryTheorem`: `Spec => []DeliveredKeysAreCurrent`. A position is good for a
  mirror when every key without a later change in the binlog reads as in MySQL.
  `DeliveryInv`: the binlog determines the source; no held GTID is of a transaction
  still to be sent, so the server skips nothing; the worker's position is good
  for the mirror, the coordinates for the snapshot; and whatever a crash leaves is
  good for the saved position, unless a position was saved ahead of its rows. A
  mirror that a rebuild has wiped is not good for the saved position, which the
  server has purged by then and will refuse. TLC: 2,386,271 states.

Table cache (`TableCacheProof`)

* `OpenedOnceTheorem`, `CachedTheorem`: for any threads and tables. `CacheInv` says
  that the two locks exclude, that past its second look a thread's key stays out of
  the cache, that a table just opened is its opener's alone and that a table
  about to be closed has left the cache for good.
* `DurabilityTheorem`: `Spec => []SavedRowsAreDurable`. Relative to `CacheInv`: no
  instance leaks, a checkpointing worker has no dirty mark of its own left, and
  unflushed rows are marked, drained or in a table out of the cache.
* `CacheTypeCorrect`: `Spec => []TypeOK`, because `open_count` is the number of tables
  cached or opened and not yet cached (`FinitelyMany`).
* `CacheBoundTheorem`: `Spec => []CacheIsBounded`. The cached tables and the threads
  between the limit check and the insert are, together, fewer than limit plus threads;
  a thread in `evict_lru` is counted with the victims it has still to remove.

Engine (`EngineProof`)

* `BillTheorem`: `Spec => []BillIsRight`. `CounterInv`: no copy of a count (memory,
  file, temporary file, a task's snapshot, a report) exceeds what was answered, and
  an hour that can still be reported is nowhere forgotten except by a death.
* `OneWorkerTheorem`: `Spec => []OneWorkerPerProfile`. A profile of a start is queued,
  staged, deferred or retried, and is owned by at most one living worker
  (`OneOwner`); old starts are halted before the next begins.
* `EditsTheorem`: `Spec => []EditsTakeEffect`. `OpsInv` orders edits along file, cached
  definitions, looked-up operation and cached response. The attempt showed that the
  property failed with two starts: a server may cache an empty set of definitions
  from a file that the server of another start is just writing, and nothing drops
  them. The model now records that (`foreign`) and the property excuses it. TLC
  confirms both with one read and two edits over two starts (3,360,226 states), a
  scenario too large for the run; the theorem covers it.

Only model-checked: the liveness properties `RecoveryEnds`, `EventuallyLiveAndEqual`,
`CallsReturn` and `FatalFailureStopsEngine`, which are out of the prover's reach. Every
invariant and every other action property the runs check is a theorem.

## 5. Where the code departs from its comments

Found while modelling; each is a window, gap or condition that the properties name.

* `core/storage/table.rs:658` says of replay "The extra WAL append that `insert`
  performs is harmless: we truncate the WAL a few lines below this loop". After a
  death in between, the next replay meets the entries out of order (`respill`).
* `core/cdc/mod.rs:2307`: "single MVCC snapshot + binlog coords **before** bulk
  `SELECT *`, matching mysqldump `--single-transaction` semantics." The two are
  separate statements; a commit in between is in neither (`snapshotGap`).
* `core/cdc/mod.rs:2351`: "Lossless initial sync requires ...". A copy recorded
  before its coordinates is kept with later coordinates (`orphanCopy`).
* `core/cdc/mod.rs:3295`: "Safe to skip — MySQL will re-emit the map on the next
  write to this table". The row itself is not sent again (`midTransaction`).
* `server/table_manager.rs:45`: the open locks are there so that two tables' "Drop/close
  paths" do not race. `close_table` closes after it has let go of the cache, and the
  Drop of an evicted table closes it again whenever its last holder is done.
* `server/table_manager.rs:272`: "cheap buffer-flush below still guarantees
  durability". Rows applied to a table that was evicted after `get_table` returned
  it are only in a log that the Drop truncates (`lost` in `TableCache`).
* `core/storage/table.rs:2060`: "the index can be rebuilt from disk on next
  `Table::open` if the in-memory cache is cold". A file that was saved while it
  already named the active segment is loaded and not patched (`exact`).
* `core/storage/table.rs:2156`: primary-key columns "are validated via remaining_filters
  + scan after other Eq columns narrow candidates". With all filters answered by
  indexes nothing remains, and the key filter is not applied (`KeyAlone`).
* `core/saved_queries.rs:173`: `count_matches_as` "is set to the number of matches".
  Joined rows that agree in every column the query reads are one row (`RowsAreTold`).
* `core/cdc/mod.rs:726`: "Any condition that used to fall back to a static mirror now
  stops the whole engine instead". During the staged startup the notification is
  lost, the profile is deferred, the halt flag stays up and the engine serves.
* `server/op_counter.rs:191`: "Atomic write via temp + rename so a crash mid-write can't
  corrupt the file". Each start adds a task that writes the same temporary file; one
  may rename what the other has just truncated.
* `server/op_counter.rs:38`: older buckets are kept "in case the control plane lost the
  previous heartbeat"; `heartbeat_snapshot` only ever sends two of them.

Without a comment that says otherwise: zone maps compare numbers as strings
(`NumbersInOrder`) and are applied filter by filter under OR, where a composite key
is looked up alone (`OrIsScanned`); an Eq on a column without exact index
whose value the active segment holds finds the active segment's rows only
(`NoSkippedLookup`); pushdown
takes every filter as conjunctive (`AllMustHold`); an Eq on the key of a LEFT-joined
table is not checked again (`LeftKeysFree`); `total_found` is counted before the LEFT
joins that fan out (`NoFanOut`); a retry thread looks neither at the halt flag nor at
the active workers; an edit does not clear the response cache.

## 6. Not modelled, and the plan

The next proof: `MirrorTable` as an implementation of the durable map that
`CdcReplication` takes it for, with `SurvivalInv` as the invariant.

Still to model: the files of a segment, column by column, and I/O errors; DDL exit
and schema validation; updates that change a key; HTTP inserts against checkpoints
(`handle_insert`, `server/mod.rs:2523`, marks no table dirty); rows read by id under a
later lock; the consistency check and its repair; GTID interval texts against sets
of numbers.

Left out for good: deployment, REPL prompts, command line, logging, file-descriptor
limits, self health, authentication, the control-plane client, expressions and value
formatting, which are I/O or row-by-row evaluation without state of their own.
