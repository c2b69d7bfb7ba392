---------------------------- MODULE MirrorTable ----------------------------
(***************************************************************************)
(* One mirror table of the engine: struct Table of core/storage/table.rs   *)
(* with its segments (segment.rs), its write-ahead log (wal.rs) and its    *)
(* primary index, driven by the CDC row handlers of core/cdc/mod.rs.       *)
(*                                                                         *)
(* The table is an append-only list of segments.  A row never moves; it is *)
(* superseded by a tombstone in its segment's deleted.bitmap and a new row *)
(* appended to the active segment.  Three things are written at different  *)
(* times and so can disagree after a SIGKILL:                              *)
(*   - deleted.bitmap, written in full inside every call that marks a row; *)
(*   - the active segment's column files and wal.log, written through      *)
(*     independent BufWriters that spill whenever they fill;               *)
(*   - primary.idx, written only every IndexSaveInterval flushes.          *)
(*                                                                         *)
(* The failure modelled is the death of the process: bytes handed to the   *)
(* operating system survive, BufWriter contents survive up to any point    *)
(* they may have spilled to, memory is gone.                               *)
(***************************************************************************)
EXTENDS TableOps

CONSTANTS
    Unknown,            \* "nothing is promised" (used by the history variables)
    SegMaxRows,         \* BITTICE_CDC_SEGMENT_MAX_ROWS
    IndexSaveInterval,  \* BITTICE_INDEX_SAVE_INTERVAL
    LazyQueryOpen,      \* BITTICE_QUERY_OPEN_LAZY
    MaxOps,             \* bound: rows applied by the CDC handlers
    MaxCrashes          \* bound: process deaths

ASSUME ValuesDistinct == NoVal \notin Val /\ Unknown \notin Val /\ NoVal # Unknown
ASSUME TuningIsPositive == SegMaxRows \in Nat \ {0} /\ IndexSaveInterval \in Nat \ {0}
ASSUME LazyIsBoolean == LazyQueryOpen \in BOOLEAN
ASSUME BoundsAreNat == MaxOps \in Nat /\ MaxCrashes \in Nat

VARIABLES
    pc,       \* where the thread holding the table's write lock is
    t,        \* struct Table: see TableOps
    idxFile,  \* primary.idx on disk
    walFile,  \* number of entries of t.wal that have reached wal.log for certain
    torn,     \* wal.log ends in a length header whose record never followed
    saves,    \* flush_count_since_index_save
    todo,     \* entries returned by Wal::replay and not yet re-applied
    base,     \* rows the active segment held when that replay began
    ev,       \* the row event being applied
    ops,      \* rows applied so far            (bounded by MaxOps)
    crashes,  \* process deaths so far          (bounded by MaxCrashes)
    content,  \* history: what readers must see, per key
    kept,     \* history: what readers must see after a crash, per key
    exposure  \* history: the crash windows that have been hit

disk == <<idxFile, walFile, torn>>
recovery == <<todo, base>>
bounds == <<ops, crashes>>
history == <<content, kept, exposure>>
vars == <<pc, t, saves, ev, disk, recovery, bounds, history>>

-----------------------------------------------------------------------------
(* The history variables *)

\* A row handler touched pk; until the next durable flush nothing is promised
\* about pk across a crash.
Touch(pk) == kept' = [kept EXCEPT ![pk] = Unknown]
NowReads(pk, v) == content' = [content EXCEPT ![pk] = v]

-----------------------------------------------------------------------------
(* The CDC row handlers (core/cdc/mod.rs).  A row event of one kind carries *)
(* one or more rows; the table's write lock is held from the first row to   *)
(* the rotation check at the end, so only a crash can intervene.            *)

NoEvent == [kind |-> "none", pk |-> NoVal, val |-> NoVal]
BatchOf(kind) == pc = "idle" \/ (pc = "batch" /\ ev.kind = kind)

\* apply_binlog_write_rows, a key the mirror does not hold.
WriteRow(pk, v) ==
    /\ BatchOf("write") /\ ops < MaxOps
    /\ Lookup(t, pk) = NoVal
    /\ t' = Insert(GetRow(t, pk), pk, v)
    /\ pc' = "batch" /\ ev' = [kind |-> "write", pk |-> pk, val |-> v]
    /\ ops' = ops + 1 /\ Touch(pk) /\ NowReads(pk, v)
    /\ UNCHANGED <<saves, disk, recovery, crashes, exposure>>

\* Table::update, first half: the old row is deleted.  Reached from an UPDATE
\* event (apply_binlog_update_deltas, the row being in the mirror or fetched
\* from MySQL) and from a WRITE event for a key the mirror holds.
UpdateDelete(kind, pk, v) ==
    /\ BatchOf(kind) /\ ops < MaxOps
    /\ kind = "write" => Lookup(t, pk) # NoVal
    /\ t' = Delete(GetRow(t, pk), pk)
    /\ pc' = "insert" /\ ev' = [kind |-> kind, pk |-> pk, val |-> v]
    /\ ops' = ops + 1 /\ Touch(pk) /\ NowReads(pk, Unknown)
    /\ UNCHANGED <<saves, disk, recovery, crashes, exposure>>

\* Table::update, second half: the new row is inserted ...
UpdateInsert ==
    /\ pc = "insert"
    /\ t' = Insert(t, ev.pk, ev.val)
    /\ pc' = "settle" /\ NowReads(ev.pk, ev.val)
    /\ UNCHANGED <<saves, ev, disk, recovery, bounds, kept, exposure>>

\* ... and the table reconciled.
UpdateReconcile ==
    /\ pc = "settle"
    /\ t' = Reconcile(t)
    /\ pc' = "batch"
    /\ UNCHANGED <<saves, ev, disk, recovery, bounds, history>>

\* apply_binlog_delete_rows
DeleteRow(pk) ==
    /\ BatchOf("delete") /\ ops < MaxOps
    /\ t' = Delete(t, pk)
    /\ pc' = "batch" /\ ev' = [kind |-> "delete", pk |-> pk, val |-> NoVal]
    /\ ops' = ops + 1 /\ Touch(pk) /\ NowReads(pk, NoVal)
    /\ UNCHANGED <<saves, disk, recovery, crashes, exposure>>

\* The end of handle_rows_event: a write batch is reconciled, and a full active
\* segment is rotated.  One that is not full is flushed when enough batches or
\* enough time have passed, which is FlushActiveSegmentBuffers from "idle".  The
\* auto-compaction after an UPDATE needs 20 segments and is out of this module.
EndBatch ==
    /\ pc = "batch"
    /\ t' = IF ev.kind = "write" THEN Reconcile(t) ELSE t
    /\ pc' = IF t'.count >= SegMaxRows THEN "rotate" ELSE "idle"
    /\ ev' = NoEvent
    /\ UNCHANGED <<saves, disk, recovery, bounds, history>>

-----------------------------------------------------------------------------
(* Flushing *)

\* Wal::flush_writes, then, every IndexSaveInterval-th time, save_primary_index
\* (the truncation that follows it is TruncateWal).  From here on everything
\* applied so far has left the process.
FlushWalAndMaybeSaveIndex(tb) ==
    /\ walFile' = Len(tb.wal)
    /\ kept' = content
    /\ IF saves + 1 >= IndexSaveInterval
       THEN idxFile' = tb.index /\ pc' = "truncate" /\ saves' = saves
       ELSE idxFile' = idxFile /\ pc' = "idle" /\ saves' = saves + 1

\* Table::flush_active_segment_buffers, from the row handler's batch or time
\* trigger and from TableManager::flush_dirty_tables.
FlushActiveSegmentBuffers ==
    /\ pc = "idle"
    /\ t' = FlushBuffers(t)
    /\ FlushWalAndMaybeSaveIndex(t')
    /\ UNCHANGED <<torn, ev, recovery, bounds, content, exposure>>

\* Table::flush_active_segment up to save_manifest: the rows are flushed and
\* the manifest, renamed into place, seals the segment and names the next one.
SealSegment ==
    /\ pc = "rotate"
    /\ t' = [t EXCEPT !.active = @ + 1, !.count = 0, !.flushed = 0]
    /\ pc' = "sealed"
    /\ UNCHANGED <<saves, ev, disk, recovery, bounds, history>>

\* The rest of Table::flush_active_segment.
FinishRotation ==
    /\ pc = "sealed"
    /\ FlushWalAndMaybeSaveIndex(t)
    /\ UNCHANGED <<t, torn, ev, recovery, bounds, content, exposure>>

\* Mutated form of TruncateWal: the file keeps its length.
TruncateWalMemoryOnly ==
    /\ pc \in {"truncate", "closing"}
    /\ t' = [t EXCEPT !.wal = <<>>, !.index = IF pc = "closing" THEN NoIndex ELSE @]
    /\ walFile' = walFile /\ saves' = 0
    /\ pc' = IF pc = "closing" THEN "down" ELSE "idle"
    /\ UNCHANGED <<idxFile, torn, ev, recovery, bounds, history>>

\* Wal::truncate after the index save; in Table::close the table then goes away.
TruncateWal ==
    /\ pc \in {"truncate", "closing"}
    /\ t' = [t EXCEPT !.wal = <<>>, !.index = IF pc = "closing" THEN NoIndex ELSE @]
    /\ walFile' = 0 /\ saves' = 0
    /\ pc' = IF pc = "closing" THEN "down" ELSE "idle"
    /\ UNCHANGED <<idxFile, torn, ev, recovery, bounds, history>>

\* Table::close (eviction, close_table, Drop): everything is flushed; the index
\* is saved and the log truncated only when there is data.
Close ==
    /\ pc = "idle"
    /\ walFile' = Len(t.wal) /\ kept' = content
    /\ IF (\E p \in PK : t.index[p] # NoLoc) \/ t.active > 0
       THEN /\ t' = FlushBuffers(t)
            /\ idxFile' = t.index /\ pc' = "closing" /\ saves' = saves
       ELSE /\ t' = [FlushBuffers(t) EXCEPT !.index = NoIndex]
            /\ idxFile' = idxFile /\ pc' = "down" /\ saves' = 0
    /\ UNCHANGED <<torn, ev, recovery, bounds, content, exposure>>

-----------------------------------------------------------------------------
(* Opening *)

\* Table::open up to the first replayed entry: manifest, segments, active
\* segment, index file, sync.  Wal::replay reads the whole log before any entry
\* is applied, and fails on a torn tail.
Open ==
    /\ pc = "down" /\ ~torn
    /\ t' = SyncIndex([t EXCEPT !.index = idxFile])
    /\ todo' = t.wal /\ base' = t.count
    /\ pc' = IF t.wal = <<>> THEN "reconcile" ELSE "replay"
    /\ UNCHANGED <<saves, ev, disk, bounds, history>>

\* Table::open returns the error of Wal::replay; the caller logs it and skips.
OpenFails ==
    /\ pc = "down" /\ torn
    /\ UNCHANGED vars

\* Table::open_for_query with an empty log: no replay and no reconcile.
OpenForQuery ==
    /\ LazyQueryOpen
    /\ pc = "down" /\ ~torn /\ t.wal = <<>>
    /\ t' = SyncIndex([t EXCEPT !.index = idxFile])
    /\ pc' = "idle"
    /\ UNCHANGED <<saves, ev, disk, recovery, bounds, history>>

\* The loop of Table::replay_wal.
ReplayOp ==
    /\ pc = "replay" /\ todo # <<>>
    /\ t' = Replay(t, Head(todo)) /\ todo' = Tail(todo)
    /\ UNCHANGED <<pc, saves, ev, disk, base, bounds, history>>

\* The end of Table::replay_wal: the index is saved, then the log is flushed
\* and truncated.  The replayed rows are still in the segment's BufWriters.
ReplaySaveIndex ==
    /\ pc = "replay" /\ todo = <<>>
    /\ idxFile' = t.index
    /\ pc' = "replayed"
    /\ UNCHANGED <<t, saves, ev, walFile, torn, recovery, bounds, history>>

\* Mutated form of ReplayTruncate: the replay is entered again.
ReplayTruncateStartsOver ==
    /\ pc = "replayed"
    /\ t' = [t EXCEPT !.wal = <<>>] /\ walFile' = 0
    /\ pc' = "replay"
    /\ UNCHANGED <<saves, ev, idxFile, torn, recovery, bounds, history>>

ReplayTruncate ==
    /\ pc = "replayed"
    /\ t' = [t EXCEPT !.wal = <<>>] /\ walFile' = 0
    /\ pc' = "reconcile"
    /\ UNCHANGED <<saves, ev, idxFile, torn, recovery, bounds, history>>

\* The tail of Table::open: reconcile, then rotate a non-empty active segment.
OpenReconcile ==
    /\ pc = "reconcile"
    /\ t' = Reconcile(t) /\ base' = 0
    /\ pc' = IF t.count > 0 THEN "rotate" ELSE "idle"
    /\ UNCHANGED <<saves, ev, disk, todo, bounds, history>>

-----------------------------------------------------------------------------
(* The process dies *)

\* What is left of the table when n rows of the active segment and w log
\* entries have reached their files.
Surviving(n, w) ==
    LET left == {l \in DOMAIN t.rows : l[1] # t.active \/ l[2] <= n} IN
    [t EXCEPT !.count = n, !.flushed = n, !.index = NoIndex,
              !.rows = [l \in left |-> @[l]],
              !.wal = SubSeq(@, 1, w)]

\* The windows in which a crash leaves files that recovery misreads:
\*   respill  - entries re-appended by a replay reached the log they came from
\*   partial  - rows appended by a replay reached the segment, the log being
\*              still there to be replayed again
\*   dangling - the index file names a row that did not survive
\*   deadSlot - a tombstone is persisted for a row that did not survive, so
\*              the next row appended at that place is born deleted
WindowNames == {"respill", "partial", "dangling", "deadSlot"}
Windows(n, w) ==
    {x \in WindowNames :
        \/ x = "respill" /\ pc \in {"replay", "replayed"} /\ w > walFile
        \/ x = "partial" /\ pc \in {"replay", "replayed"} /\ n > base
        \/ x = "dangling" /\ \E p \in PK : /\ idxFile[p] # NoLoc
                                          /\ idxFile[p] \notin DOMAIN Surviving(n, w).rows
        \/ x = "deadSlot" /\ \E l \in t.deleted : l[1] = t.active /\ l[2] > n}

\* SIGKILL, OOM or panic.  Each BufWriter may have spilled any part of what it
\* held; a spill provoked by a record's data leaves its length header behind.
Crash ==
    /\ pc # "down" /\ crashes < MaxCrashes
    /\ \E n \in t.flushed .. t.count, w \in walFile .. Len(t.wal), header \in BOOLEAN :
        /\ header => w < Len(t.wal)
        /\ t' = Surviving(n, w) /\ walFile' = w /\ torn' = header
        /\ exposure' = exposure \cup Windows(n, w)
    /\ pc' = "down" /\ saves' = 0 /\ ev' = NoEvent /\ todo' = <<>> /\ base' = 0
    /\ crashes' = crashes + 1 /\ content' = kept
    /\ UNCHANGED <<idxFile, ops, kept>>

\* fast_exit_flush and process::exit after a DDL event: the log is flushed, the
\* segment's BufWriters are not (no destructor runs).
FastExit ==
    /\ pc = "idle" /\ crashes < MaxCrashes
    /\ \E n \in t.flushed .. t.count :
        /\ t' = Surviving(n, Len(t.wal))
        /\ exposure' = exposure \cup Windows(n, Len(t.wal))
    /\ walFile' = Len(t.wal) /\ kept' = content
    /\ pc' = "down" /\ saves' = 0
    /\ crashes' = crashes + 1
    /\ UNCHANGED <<idxFile, torn, ev, recovery, ops, content>>

-----------------------------------------------------------------------------

Init ==
    /\ pc = "down" /\ t = EmptyTable
    /\ idxFile = NoIndex /\ walFile = 0 /\ torn = FALSE /\ saves = 0
    /\ todo = <<>> /\ ev = NoEvent
    /\ ops = 0 /\ crashes = 0
    /\ content = [p \in PK |-> NoVal] /\ kept = [p \in PK |-> NoVal]
    /\ base = 0 /\ exposure = {}

\* A row of a row event, chosen by MySQL.
RowStep ==
    \E p \in PK :
        \/ DeleteRow(p)
        \/ \E v \in Val : \/ WriteRow(p, v)
                          \/ \E k \in {"write", "update"} : UpdateDelete(k, p, v)

\* What a thread holding the table does next without waiting for anyone.
Continue ==
    \/ UpdateInsert \/ UpdateReconcile \/ EndBatch
    \/ SealSegment \/ FinishRotation \/ TruncateWal
    \/ ReplayOp \/ ReplaySaveIndex \/ ReplayTruncate \/ OpenReconcile

Next ==
    \/ RowStep \/ Continue
    \/ FlushActiveSegmentBuffers \/ Close
    \/ Open \/ OpenFails \/ OpenForQuery
    \/ Crash \/ FastExit

Spec == Init /\ [][Next]_vars

\* A thread that holds the write lock runs to the end of its call.
FairSpec == Spec /\ WF_vars(Continue)

-----------------------------------------------------------------------------
(* Properties *)

\* Every variable has its type: locations, rows, log entries and program
\* points of the Table handlers are of the declared kinds in every state.
TypeOK ==
    /\ pc \in {"down", "replay", "replayed", "reconcile", "idle", "batch", "insert",
               "settle", "rotate", "sealed", "truncate", "closing"}
    /\ IsTable(t)
    /\ idxFile \in Index /\ walFile \in 0 .. Len(t.wal)
    /\ torn \in BOOLEAN /\ saves \in Nat /\ todo \in Seq(WalOp)
    /\ ev \in [kind : {"none", "write", "update", "delete"},
               pk : PK \cup {NoVal}, val : Val \cup {NoVal}]
    /\ pc = "insert" => ev.pk \in PK /\ ev.val \in Val
    /\ ops \in 0 .. MaxOps /\ crashes \in 0 .. MaxCrashes
    /\ content \in [PK -> Val \cup {NoVal, Unknown}]
    /\ kept \in [PK -> Val \cup {NoVal, Unknown}]
    /\ base \in Nat /\ exposure \subseteq WindowNames

\* The states in which the table answers queries or applies rows.
Serving == pc \in {"idle", "batch", "insert", "settle", "rotate", "sealed", "truncate", "closing"}

IndexCovers(tb) == \A l \in Live(tb) : tb.index[tb.rows[l].pk] = l

\* reconcile_orphan_rows and the row handlers: while the table is in use, every
\* live row of every segment is the one the primary index names for its key, so
\* a key never has two live rows (the "ghost row" bug).
IndexNamesEveryLiveRow ==
    Serving => IndexCovers(t)

\* What a key reads as, by a scan (rows minus deleted.bitmap) and by a point
\* lookup (primary index).
ScanReads(pk) == {t.rows[l].val : l \in LiveOf(t, pk)}
ReadersSee(pk, v) ==
    /\ ScanReads(pk) = IF v = NoVal THEN {} ELSE {v}
    /\ Lookup(t, pk) = v
ReadersAgree ==
    pc = "idle" => \A p \in PK : content[p] # Unknown => ReadersSee(p, content[p])

\* flush_active_segment_buffers ("WAL entries survive a process crash"), replay
\* and reconcile: once flushed, a key nobody touched since reads the same, by
\* scan and by lookup, after any number of crashes, restarts, rotations and clean
\* closes, unless a crash fell into one of the windows above.
FlushedRowsSurvive == exposure = {} => ReadersAgree

\* A row whose bytes have left the BufWriters, or that sits in a sealed segment,
\* is never moved, rewritten or dropped, by any handler, crash or recovery: the
\* mmaps of Segment and the locations in primary.idx and wal.log rely on it.
KeepsDurableRows ==
    \A l \in DOMAIN t.rows :
        l[1] < t.active \/ l[2] <= t.flushed
            => l \in DOMAIN t'.rows /\ t'.rows[l] = t.rows[l]
SegmentsAppendOnly == [][KeepsDurableRows]_vars

\* Table::replay_wal works off the entries it read at the start although insert
\* appends to the same log, so recovery ends.
RecoveryEnds == (pc = "replay") ~> (pc \in {"idle", "down"})
=============================================================================
