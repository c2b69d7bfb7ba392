---------------------------- MODULE Compaction ----------------------------
(***************************************************************************)
(* The operations of core/storage/table.rs that replace or remove whole    *)
(* segments: Table::compact, the purge of ghost segments,                  *)
(* prepare_for_full_snapshot and delete_all_rows, against the files they   *)
(* work on (segment directories, manifest.json, primary.idx, wal.log) and  *)
(* a death of the process between any two of them.                         *)
(*                                                                         *)
(* Unlike MirrorTable, a row here reaches its directory and the log in the *)
(* step that applies it (every event is followed by a flush), recovery is  *)
(* one step, and the state of interest is which directories exist and      *)
(* which of them the manifest names.                                       *)
(***************************************************************************)
EXTENDS TableOps

CONSTANTS
    MinSegments,  \* compact() leaves tables with fewer segments alone (4 in the code)
    TargetRows,   \* BITTICE_COMPACT_SEGMENT_ROWS
    SegMaxRows,   \* rows after which the CDC rotates the active segment
    MaxOps,       \* bound: rows applied
    MaxCompacts,  \* bound: compactions, wipes and removals of all rows
    MaxCrashes    \* bound: process deaths

ASSUME ValuesDistinct == NoVal \notin Val
ASSUME SizesArePositive == {MinSegments, TargetRows, SegMaxRows} \subseteq Nat \ {0}
ASSUME BoundsAreNat == {MaxOps, MaxCompacts, MaxCrashes} \subseteq Nat

VARIABLES
    pc,        \* where the thread holding the table is
    t,         \* struct Table in memory
    sealed,    \* ids of immutable_segments
    listed,    \* the manifest in memory: record_count of every segment it names
    disk,      \* directories, their rows and deleted bitmaps; manifest.json
    idxFile,   \* primary.idx; wal.log is t.wal, which every step flushes
    out,       \* compacted rows and their index, not yet installed
    todo,      \* segment ids the current loop has still to rename or remove
    copying,   \* a full snapshot is being copied into the table
    ops, compacts, crashes,
    content,   \* history: what readers must see, per key
    exposure   \* history: the crash windows that have been hit

work == <<out, todo>>
bounds == <<ops, compacts, crashes>>
history == <<content, exposure>>
vars == <<pc, t, sealed, listed, disk, idxFile, work, copying, bounds, history>>

-----------------------------------------------------------------------------
(* Directories and segments *)

NoRows == <<>>
NoOutput == [rows |-> NoRows, index |-> NoIndex]
Within(rows, segs) == [l \in {k \in DOMAIN rows : k[1] \in segs} |-> rows[l]]
Over(new, old) == [l \in DOMAIN new \cup DOMAIN old |-> IF l \in DOMAIN new THEN new[l] ELSE old[l]]
CountIn(rows, s) == Cardinality({l \in DOMAIN rows : l[1] = s})

\* The directory of a segment is removed with everything in it.
WithoutDirs(d, segs) ==
    [d EXCEPT !.dirs = @ \ segs, !.rows = Within(@, d.dirs \ segs),
              !.dead = {l \in @ : l[1] \notin segs}]

\* Every row and tombstone of the table in memory is on disk.
Flushed(d, tb) == [d EXCEPT !.rows = Over(tb.rows, @), !.dead = @ \cup tb.deleted]

\* Only loaded segments have a deleted bitmap to mark.
Marked(tb, segs) == [tb EXCEPT !.deleted = {l \in @ : l[1] \in segs \cup {tb.active}}]

\* Mutated form of Activate: a fresh segment shadows the directory.
ActivateFresh(tb, d) ==
    [tb EXCEPT !.active = d.active, !.count = 0, !.flushed = 0]

\* ensure_active_segment for the id the manifest names: the directory is loaded
\* if it exists, leftovers of an interrupted compaction included.
Activate(tb, d) ==
    [tb EXCEPT !.active = d.active, !.count = CountIn(d.rows, d.active),
               !.flushed = CountIn(d.rows, d.active),
               !.rows = Over(@, Within(d.rows, {d.active})),
               !.deleted = @ \cup {l \in d.dead : l[1] = d.active}]

\* Manifest::add_segment and Manifest::remove_segment
Listing(m, tb, segs) == Over([s \in segs |-> CountIn(tb.rows, s)], m)
Unlisting(m, segs) == [s \in DOMAIN m \ segs |-> m[s]]

\* flush_active_segment of a segment that is not empty: the manifest is saved
\* with the segment in it and the next id, which memory then activates.
Sealed(d, tb, m) ==
    [Flushed(d, tb) EXCEPT !.segs = Listing(m, tb, {tb.active}), !.active = tb.active + 1,
                           !.dirs = @ \cup {tb.active, tb.active + 1}]
FlushActiveSegment(tb) ==
    IF tb.count = 0 THEN disk' = Flushed(disk, tb) /\ t' = tb /\ UNCHANGED <<sealed, listed>>
    ELSE /\ disk' = Sealed(disk, tb, listed) /\ listed' = disk'.segs
         /\ sealed' = sealed \cup {tb.active} /\ t' = Activate(tb, disk')

-----------------------------------------------------------------------------
(* Rows, and the flushes that follow them *)

\* A row event, applied and flushed.
Applied(tb) == Marked(Reconcile(tb), sealed)

WriteRow(pk, v) ==
    /\ pc = "up" /\ ops < MaxOps
    /\ t' = Applied(Insert(t, pk, v))
    /\ disk' = Flushed(disk, t')
    /\ ops' = ops + 1 /\ content' = [content EXCEPT ![pk] = v]
    /\ UNCHANGED <<pc, sealed, listed, idxFile, work, copying, compacts, crashes, exposure>>

DeleteRow(pk) ==
    /\ pc = "up" /\ ops < MaxOps /\ ~copying
    /\ t' = Marked(Delete(t, pk), sealed)
    /\ disk' = Flushed(disk, t')
    /\ ops' = ops + 1 /\ content' = [content EXCEPT ![pk] = NoVal]
    /\ UNCHANGED <<pc, sealed, listed, idxFile, work, copying, compacts, crashes, exposure>>

\* The flush that saves the index and truncates the log.
SaveIndex ==
    /\ pc = "up" /\ t.wal # <<>>
    /\ idxFile' = t.index /\ t' = [t EXCEPT !.wal = <<>>]
    /\ UNCHANGED <<pc, sealed, listed, disk, work, copying, bounds, history>>

\* flush_active_segment by the row handlers and the copy, when enough rows are in.
Rotate ==
    /\ pc = "up" /\ t.count >= SegMaxRows
    /\ FlushActiveSegment(t)
    /\ UNCHANGED <<pc, idxFile, work, copying, bounds, history>>

\* The copy is complete: the last rows are flushed and the table is recorded as
\* bootstrapped.  After a copy without rows nothing has saved the manifest.
EndCopy ==
    /\ pc = "up" /\ copying
    /\ FlushActiveSegment(t)
    /\ copying' = FALSE
    /\ UNCHANGED <<pc, idxFile, work, bounds, history>>

-----------------------------------------------------------------------------
(* Table::compact *)

IndexedLocs(tb) == {tb.index[p] : p \in PK} \ {NoLoc}
HasFiles(d, segs) == \E l \in DOMAIN d.rows : l[1] \in segs

\* What compact() copies: the rows of immutable segments that are not deleted
\* and that the primary index names.
Survivors(tb, segs) == {l \in Live(tb) : l[1] \in segs /\ l \in IndexedLocs(tb)}

\* Loops over segments and their rows meet locations in order: l is the Rank-th.
Rank(l, locs) == Cardinality({m \in locs : ~Newer(m, l)})

\* Mutated form of Placed: local ids from 0.
PlacedOffByOne(l, locs, first) ==
    LET k == Rank(l, locs) - 1 IN <<first + (k \div TargetRows), k % TargetRows>>

\* Where compact() writes the row of l: TargetRows of them to a segment, whose final
\* ids follow the active segment's.
Placed(l, locs, first) ==
    LET k == Rank(l, locs) - 1 IN <<first + (k \div TargetRows), 1 + (k % TargetRows)>>

\* The index has a key's last copy.
Packed(tb, segs) ==
    LET live == Survivors(tb, segs)
        place(l) == Placed(l, live, tb.active + 1)
        locs == {place(l) : l \in live}
        rows == [x \in locs |-> tb.rows[CHOOSE l \in live : place(l) = x]]
        of(p) == {x \in locs : rows[x].pk = p}
    IN [rows |-> rows,
        index |-> [p \in PK |-> IF of(p) = {} THEN NoLoc
                                ELSE CHOOSE x \in of(p) : \A y \in of(p) \ {x} : Newer(x, y)]]

Ideal(n) == IF n = 0 THEN 1 ELSE (n + TargetRows - 1) \div TargetRows
WorthIt(tb, segs) ==
    /\ Cardinality(segs) >= MinSegments
    /\ Cardinality(segs) > 2 * Ideal(Cardinality({l \in Live(tb) : l[1] \in segs}))

\* compact() up to the temporary directory.  A non-empty active segment is
\* flushed first, whether or not compaction then goes on.
CompactBegin ==
    /\ pc = "up" /\ ~copying /\ compacts < MaxCompacts
    /\ FlushActiveSegment(t)
    /\ LET ghosts == sealed' # {} /\ IndexedLocs(t') = {} /\ ~HasFiles(disk', sealed')
           go == WorthIt(t', sealed') /\ HasFiles(disk', sealed')
       IN /\ pc' = IF ghosts THEN "ghosts" ELSE IF go THEN "renaming" ELSE "up"
          /\ out' = IF go /\ ~ghosts THEN Packed(t', sealed') ELSE NoOutput
          /\ todo' = {l[1] : l \in DOMAIN out'.rows}
    /\ compacts' = compacts + 1
    /\ UNCHANGED <<idxFile, copying, ops, crashes, history>>

\* Step 6: one temporary directory is renamed to its final name, after whatever
\* was there has been removed.
CompactRename ==
    /\ pc = "renaming"
    /\ IF todo # {}
       THEN \E s \in todo :
                /\ \A u \in todo : s <= u
                /\ disk' = [WithoutDirs(disk, {s}) EXCEPT
                               !.dirs = @ \cup {s}, !.rows = Over(Within(out.rows, {s}), @)]
                /\ todo' = todo \ {s} /\ pc' = pc
       ELSE todo' = sealed /\ pc' = "deleting" /\ disk' = disk
    /\ UNCHANGED <<t, sealed, listed, idxFile, out, copying, bounds, history>>

\* Mutated form of CompactDelete: the loop ends after the first directory.
CompactDeleteStopsEarly ==
    /\ pc = "deleting" /\ todo # {}
    /\ \E s \in todo :
        /\ \A u \in todo : s <= u
        /\ disk' = WithoutDirs(disk, {s})
    /\ todo' = {}
    /\ UNCHANGED <<pc, t, sealed, listed, idxFile, out, copying, bounds, history>>

\* Step 10: one old directory is removed.
CompactDelete ==
    /\ pc = "deleting" /\ todo # {}
    /\ \E s \in todo :
        /\ \A u \in todo : s <= u
        /\ disk' = WithoutDirs(disk, {s})
        /\ todo' = todo \ {s}
    /\ UNCHANGED <<pc, t, sealed, listed, idxFile, out, copying, bounds, history>>

\* Steps 11 to 14, up to save_manifest: the new segments and the new index
\* replace the old ones in memory, and the manifest names them.
CompactInstall ==
    /\ pc = "deleting" /\ todo = {}
    /\ LET new == {l[1] : l \in DOMAIN out.rows}
           next == 1 + t.active + Cardinality(new) IN
       /\ sealed' = new
       /\ listed' = Listing(Unlisting(listed, sealed), out, new)
       /\ disk' = [disk EXCEPT !.segs = listed', !.active = next]
       /\ t' = [t EXCEPT !.rows = Over(out.rows, Within(@, {t.active})), !.index = out.index,
                         !.deleted = {l \in @ : l[1] = t.active}]
    /\ pc' = "installed"
    /\ UNCHANGED <<idxFile, work, copying, bounds, history>>

\* Step 14, save_primary_index.
CompactSaveIndex ==
    /\ pc = "installed"
    /\ idxFile' = t.index /\ pc' = "saved"
    /\ UNCHANGED <<t, sealed, listed, disk, work, copying, bounds, history>>

\* Steps 14 and 15: the log is truncated and a new active segment begun.
CompactEnd ==
    /\ pc = "saved"
    /\ disk' = [disk EXCEPT !.dirs = @ \cup {disk.active}]
    /\ t' = Activate([t EXCEPT !.wal = <<>>, !.rows = Within(@, sealed),
                               !.deleted = {l \in @ : l[1] \in sealed}], disk')
    /\ out' = NoOutput /\ pc' = "up"
    /\ UNCHANGED <<sealed, listed, idxFile, todo, copying, bounds, history>>

\* compact_purge_ghost_segments: segments without files and without live rows
\* are forgotten.
EmptyDisk == [dirs |-> {0}, rows |-> NoRows, dead |-> {}, segs |-> <<>>, active |-> 0]
PurgeGhosts ==
    /\ pc = "ghosts"
    /\ listed' = Unlisting(listed, sealed)
    /\ disk' = LET d == WithoutDirs(disk, sealed \cup {t.active})
               IN [d EXCEPT !.dirs = @ \cup {0}, !.segs = listed', !.active = 0]
    /\ t' = Activate(EmptyTable, disk')
    /\ sealed' = {} /\ idxFile' = NoIndex /\ pc' = "up"
    /\ UNCHANGED <<work, copying, bounds, history>>

-----------------------------------------------------------------------------
(* Wiping a table *)

\* prepare_for_full_snapshot, first half: the directories go, memory starts over
\* at segment 0 ...
WipeDirs ==
    /\ pc = "up" /\ compacts < MaxCompacts
    /\ disk' = [EmptyDisk EXCEPT !.segs = disk.segs, !.active = disk.active]
    /\ t' = [EmptyTable EXCEPT !.wal = t.wal] /\ sealed' = {} /\ listed' = <<>>
    /\ pc' = "wiping" /\ copying' = TRUE /\ compacts' = compacts + 1
    /\ content' = [p \in PK |-> NoVal]
    /\ UNCHANGED <<idxFile, work, ops, crashes, exposure>>

\* ... and the empty index is saved and the log truncated.  The manifest is not
\* saved: the one on disk still names the old segments.
WipeLog ==
    /\ pc = "wiping"
    /\ idxFile' = NoIndex /\ t' = [t EXCEPT !.wal = <<>>]
    /\ pc' = "up"
    /\ UNCHANGED <<sealed, listed, disk, work, copying, bounds, history>>

\* The loop of delete_all_rows over the keys of the live rows, in their order.
KeyAt(tb, n) == tb.rows[CHOOSE l \in Live(tb) : Rank(l, Live(tb)) = n].pk
DeleteLive(tb) ==
    LET after[n \in 0 .. Cardinality(Live(tb))] ==
            IF n = 0 THEN tb ELSE Delete(after[n - 1], KeyAt(tb, n))
    IN  after[Cardinality(Live(tb))]

\* delete_all_rows: every live row's key is deleted, then flush_active_segment.
DeleteAllRows ==
    /\ pc = "up" /\ ~copying /\ compacts < MaxCompacts
    /\ FlushActiveSegment(Marked(DeleteLive(t), sealed))
    /\ content' = [p \in PK |-> NoVal] /\ compacts' = compacts + 1
    /\ UNCHANGED <<pc, idxFile, work, copying, ops, crashes, exposure>>

-----------------------------------------------------------------------------
(* Death and recovery *)

\* The windows of compact() in which what is left on disk is not the table:
\*   leftover - a compacted segment has its final name, the manifest does not
\*              name it: it waits for the id to come up as active segment
\*   dropped  - directories that the manifest names are gone
\*   unlisted - a wiped table went into use before a rotation saved its manifest
Windows ==
    {w \in {"leftover", "dropped", "unlisted"} :
        \/ w = "leftover" /\ \/ pc = "renaming" /\ \E l \in DOMAIN out.rows : l[1] \notin todo
                             \/ pc = "deleting" /\ DOMAIN out.rows # {}
        \/ w = "dropped" /\ pc = "deleting" /\ todo # sealed
        \/ w = "unlisted" /\ ~copying /\ pc = "up" /\ <<disk.segs, disk.active>> # <<listed, t.active>>}

Crash ==
    /\ pc # "down" /\ crashes < MaxCrashes
    /\ pc' = "down" /\ crashes' = crashes + 1
    /\ exposure' = exposure \cup Windows
    /\ t' = [EmptyTable EXCEPT !.wal = t.wal] /\ sealed' = {} /\ listed' = <<>>
    /\ out' = NoOutput /\ todo' = {}
    /\ UNCHANGED <<disk, idxFile, copying, ops, compacts, content>>

\* Table::open: load_segments skips directories that do not exist, the active
\* segment and the index are loaded, the log is replayed, the index saved and
\* the log truncated, the rows reconciled and a non-empty active segment sealed.
\* (MirrorTable takes these one by one.)
LoadSegments == (DOMAIN disk.segs \ {disk.active}) \cap disk.dirs

\* A segment has as many rows as the manifest says.
LoadedRows == [l \in {k \in DOMAIN disk.rows : k[1] \in LoadSegments /\ k[2] <= disk.segs[k[1]]}
                  |-> disk.rows[l]]
Loaded ==
    Activate([EmptyTable EXCEPT !.rows = LoadedRows, !.index = idxFile,
                                !.deleted = {l \in disk.dead : l[1] \in LoadSegments}], disk)
Replayed == ReplayWal(SyncIndex(Loaded), t.wal)

Open ==
    /\ pc = "down"
    /\ LET tb == [Marked(Reconcile(Replayed), LoadSegments) EXCEPT !.wal = <<>>] IN
       IF tb.count = 0
       THEN /\ t' = tb /\ sealed' = LoadSegments /\ listed' = disk.segs
            /\ disk' = [Flushed(disk, tb) EXCEPT !.dirs = @ \cup {tb.active}]
       ELSE /\ disk' = Sealed(disk, tb, disk.segs) /\ listed' = disk'.segs
            /\ sealed' = LoadSegments \cup {tb.active} /\ t' = Activate(tb, disk')
    /\ idxFile' = IF t.wal = <<>> THEN idxFile ELSE Replayed.index
    \* A copy that was interrupted is not recorded as done and starts over.
    /\ pc' = IF copying THEN "recopy" ELSE "up"
    /\ UNCHANGED <<work, copying, bounds, history>>

\* The interrupted copy wipes the table again.
Recopy ==
    /\ pc = "recopy"
    /\ disk' = [EmptyDisk EXCEPT !.segs = disk.segs, !.active = disk.active]
    /\ t' = [EmptyTable EXCEPT !.wal = t.wal] /\ sealed' = {} /\ listed' = <<>>
    /\ pc' = "wiping"
    /\ content' = [p \in PK |-> NoVal]
    /\ UNCHANGED <<idxFile, work, copying, bounds, exposure>>

\* Table::reload_if_needed, run by queries: when memory holds no immutable segment
\* and the manifest on disk, of the same sequence number, names some, segments
\* and index are read again and the active segment is replaced.
ReloadIfNeeded ==
    /\ pc = "up" /\ sealed = {} /\ DOMAIN disk.segs # {}
    /\ <<disk.segs, disk.active>> = <<listed, t.active>>
    /\ sealed' = LoadSegments
    /\ t' = [Loaded EXCEPT !.wal = t.wal]
    /\ UNCHANGED <<pc, listed, disk, idxFile, work, copying, bounds, history>>

-----------------------------------------------------------------------------

Init ==
    /\ pc = "up" /\ t = EmptyTable /\ sealed = {} /\ listed = <<>>
    /\ disk = EmptyDisk /\ idxFile = NoIndex
    /\ out = NoOutput /\ todo = {} /\ copying = FALSE
    /\ ops = 0 /\ compacts = 0 /\ crashes = 0
    /\ content = [p \in PK |-> NoVal] /\ exposure = {}

Compact ==
    \/ CompactBegin \/ CompactRename \/ CompactDelete \/ CompactInstall
    \/ CompactSaveIndex \/ CompactEnd \/ PurgeGhosts

Next ==
    \/ \E p \in PK : DeleteRow(p) \/ \E v \in Val : WriteRow(p, v)
    \/ SaveIndex \/ Rotate \/ EndCopy \/ Compact
    \/ WipeDirs \/ WipeLog \/ DeleteAllRows
    \/ Crash \/ Open \/ Recopy \/ ReloadIfNeeded

Spec == Init /\ [][Next]_vars

-----------------------------------------------------------------------------
(* Properties *)

\* The table in memory, the directories, the manifest and the compaction's
\* progress are of the declared kinds.
TypeOK ==
    /\ pc \in {"up", "renaming", "deleting", "installed", "saved", "ghosts", "wiping", "down", "recopy"}
    /\ IsTable(t) /\ sealed \subseteq Nat
    /\ disk.dirs \subseteq Nat /\ DOMAIN disk.segs \subseteq Nat /\ disk.active \in Nat
    /\ DOMAIN disk.rows \subseteq Loc /\ disk.dead \subseteq Loc
    /\ \A l \in DOMAIN disk.rows : disk.rows[l] \in Row
    /\ idxFile \in Index /\ out.index \in Index /\ todo \subseteq Nat
    /\ ops \in 0 .. MaxOps /\ compacts \in 0 .. MaxCompacts /\ crashes \in 0 .. MaxCrashes
    /\ content \in [PK -> Val \cup {NoVal}] /\ copying \in BOOLEAN

Reads(p, v) ==
    /\ {t.rows[l].val : l \in LiveOf(t, p)} = (IF v = NoVal THEN {} ELSE {v})
    /\ Cardinality(LiveOf(t, p)) <= 1
    /\ Lookup(t, p) = v

\* Compaction, wipes and recovery never change what a key reads as, by scan or
\* by lookup: no row is lost, resurrected or doubled, whatever step of compact()
\* a process died in, unless the death fell into one of the windows above.
ContentIsKept ==
    pc \in {"up", "installed", "saved"} /\ exposure = {} => \A p \in PK : Reads(p, content[p])

\* What is on disk is what is loaded: compaction, ghost purge and wipes leave no
\* directory behind that the manifest does not name, so that no later segment
\* takes its id and finds rows in it, and remove none that holds a loaded row.
NoStrayRows ==
    pc = "up" /\ exposure = {} =>
        DOMAIN disk.rows = DOMAIN t.rows /\ \A l \in DOMAIN t.rows : l[1] \in disk.dirs
=============================================================================
