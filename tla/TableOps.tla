----------------------------- MODULE TableOps -----------------------------
(***************************************************************************)
(* The data of a mirror table and the operations of struct Table           *)
(* (core/storage/table.rs) on it, as functions from a table to a table.    *)
(* MirrorTable runs them against crashes and recovery, TableSearch against *)
(* queries, Compaction against the files that compact() replaces.          *)
(***************************************************************************)
EXTENDS Naturals, Sequences, FiniteSets

CONSTANTS
    PK,      \* primary key values
    Val,     \* row contents apart from the key
    NoVal    \* "no row"

-----------------------------------------------------------------------------
(* Data *)

\* A physical location (seg_id, local_id); local ids count from 1 here, so
\* that NoLoc is not a location.
Loc == Nat \X (Nat \ {0})
NoLoc == <<0, 0>>
Row == [pk : PK, val : Val]

\* WalOperation.  A Delete carries the location it tombstoned.
InsertOp(pk, v) == [op |-> "insert", pk |-> pk, val |-> v, loc |-> NoLoc]
DeleteOp(pk, l) == [op |-> "delete", pk |-> pk, val |-> NoVal, loc |-> l]
WalOp == [op : {"insert"}, pk : PK, val : Val, loc : {NoLoc}]
         \cup [op : {"delete"}, pk : PK, val : {NoVal}, loc : Loc]

\* Table: the active segment's id, record_count and the part of its rows that
\* has left the BufWriters; every row of every segment; the deleted bitmaps;
\* the primary index in memory; the log.
NoIndex == [p \in PK |-> NoLoc]
EmptyTable == [active |-> 0, count |-> 0, flushed |-> 0, rows |-> <<>>,
               deleted |-> {}, index |-> NoIndex, wal |-> <<>>]

Index == [PK -> Loc \cup {NoLoc}]
IsTable(tb) ==
    /\ DOMAIN tb = {"active", "count", "flushed", "rows", "deleted", "index", "wal"}
    /\ tb.active \in Nat /\ tb.count \in Nat /\ tb.flushed \in Nat
    /\ DOMAIN tb.rows \subseteq Loc /\ \A l \in DOMAIN tb.rows : tb.rows[l] \in Row
    /\ tb.deleted \subseteq Loc /\ tb.index \in Index /\ tb.wal \in Seq(WalOp)

\* (seg_id, local_id) ordering used to pick the surviving row.
Newer(a, b) == a[1] > b[1] \/ (a[1] = b[1] /\ a[2] > b[2])

Live(tb) == DOMAIN tb.rows \ tb.deleted
LiveOf(tb, pk) == {l \in Live(tb) : tb.rows[l].pk = pk}

-----------------------------------------------------------------------------
(* Table operations, as functions from a table to a table *)

\* SegmentWriter::flush_buffers
FlushBuffers(tb) == [tb EXCEPT !.flushed = tb.count]

\* Segment::mark_deleted followed, as in every caller, by persist_deleted_bitmap.
Tombstone(tb, l) == [tb EXCEPT !.deleted = @ \cup {l}]

\* The row get_row_as_map returns: whatever sits at the indexed location,
\* tombstoned or not, provided its key is the one asked for.
Lookup(tb, pk) ==
    LET l == tb.index[pk] IN
    IF l \in DOMAIN tb.rows /\ tb.rows[l].pk = pk THEN tb.rows[l].val ELSE NoVal

\* Its side effect: the buffers are flushed when the row is in the active segment.
GetRow(tb, pk) ==
    IF tb.index[pk] # NoLoc /\ tb.index[pk][1] = tb.active THEN FlushBuffers(tb) ELSE tb

\* Mutated form of AppendRow: the local id is taken after a decrement.
AppendRowOffByOne(tb, pk, v) ==
    LET l == <<tb.active, IF tb.count = 0 THEN 1 ELSE tb.count>> IN
    [tb EXCEPT !.wal = Append(@, InsertOp(pk, v)),
               !.rows = [x \in DOMAIN @ \cup {l} |-> IF x = l THEN [pk |-> pk, val |-> v] ELSE @[x]],
               !.count = @ + 1,
               !.index[pk] = l]

\* Wal::append, SegmentWriter::append_record and the index update of Table::insert.
AppendRow(tb, pk, v) ==
    LET l == <<tb.active, tb.count + 1>> IN
    [tb EXCEPT !.wal = Append(@, InsertOp(pk, v)),
               !.rows = [x \in DOMAIN @ \cup {l} |-> IF x = l THEN [pk |-> pk, val |-> v] ELSE @[x]],
               !.count = @ + 1,
               !.index[pk] = l]

\* Table::insert: a no-op when the indexed row already has this content,
\* otherwise the indexed row is tombstoned and the new one appended.
Insert(tb, pk, v) ==
    IF tb.index[pk] = NoLoc THEN AppendRow(tb, pk, v)
    ELSE IF Lookup(tb, pk) = v THEN GetRow(tb, pk)
    ELSE AppendRow(Tombstone(GetRow(tb, pk), tb.index[pk]), pk, v)

\* Table::delete
Delete(tb, pk) ==
    IF tb.index[pk] = NoLoc THEN tb
    ELSE [tb EXCEPT !.index[pk] = NoLoc,
                    !.wal = Append(@, DeleteOp(pk, tb.index[pk])),
                    !.deleted = @ \cup {tb.index[pk]}]

\* Table::reconcile_orphan_rows: of the live rows of a key the newest location
\* survives, the others are tombstoned and the index is pointed at the survivor.
\* A key without a live row keeps whatever index entry it has.
Winner(tb, pk) == CHOOSE l \in LiveOf(tb, pk) : \A m \in LiveOf(tb, pk) \ {l} : Newer(l, m)

\* Mutated form of Reconcile: the index is re-pointed, the orphans stay live.
ReconcileKeepsOrphans(tb) ==
    [tb EXCEPT !.flushed = tb.count,
               !.index = [p \in PK |-> IF LiveOf(tb, p) = {} THEN @[p] ELSE Winner(tb, p)]]

Reconcile(tb) ==
    [tb EXCEPT !.flushed = tb.count,
               !.deleted = @ \cup {l \in Live(tb) : l # Winner(tb, tb.rows[l].pk)},
               !.index = [p \in PK |-> IF LiveOf(tb, p) = {} THEN @[p] ELSE Winner(tb, p)]]

\* Table::sync_primary_index_to_active_bitmaps: keys the index file does not
\* know are registered at their first live row in the active segment.
SyncIndex(tb) ==
    LET inActive(p) == {l \in LiveOf(tb, p) : l[1] = tb.active} IN
    [tb EXCEPT !.index = [p \in PK |->
        IF @[p] # NoLoc \/ inActive(p) = {} THEN @[p]
        ELSE CHOOSE l \in inActive(p) : \A m \in inActive(p) \ {l} : Newer(m, l)]]

\* Mutated form of Replay: a Delete tombstones only the location in its entry.
ReplayLoggedLocationOnly(tb, op) ==
    IF op.op = "insert" THEN Insert(tb, op.pk, op.val)
    ELSE [tb EXCEPT !.index[op.pk] = NoLoc, !.deleted = @ \cup {op.loc}]

\* One WAL entry in Table::replay_wal.  A replayed Insert goes through
\* Table::insert and is appended to the log again; a replayed Delete is not.
Replay(tb, op) ==
    IF op.op = "insert" THEN Insert(tb, op.pk, op.val)
    ELSE [tb EXCEPT !.index[op.pk] = NoLoc,
                    !.deleted = @ \cup ({op.loc, tb.index[op.pk]} \ {NoLoc})]

\* The loop of Table::replay_wal over the entries of the log.
ReplayWal(tb, log) ==
    LET after[n \in 0 .. Len(log)] == IF n = 0 THEN tb ELSE Replay(after[n - 1], log[n])
    IN  after[Len(log)]
=============================================================================
