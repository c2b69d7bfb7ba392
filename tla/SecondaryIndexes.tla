------------------------- MODULE SecondaryIndexes -------------------------
(***************************************************************************)
(* What a query uses to find rows without reading them, and when it is     *)
(* written:                                                                *)
(*   - the column bitmaps of a segment (value -> rows), in SegmentWriter   *)
(*     while the segment is active, in bitmaps_<column>.dat afterwards;    *)
(*   - its zone map (min_max), in memory while it is active, then in the   *)
(*     manifest; metadata.json holds it when the table is closed;          *)
(*   - the merged exact index of a column over the immutable segments,     *)
(*     cached per column (exact_index_cache), built, patched, merged into  *)
(*     at rotation, evicted, and saved only now and then.                  *)
(* Every row has every column and a location never changes its row, so a   *)
(* bitmap, a zone map or an exact index is given by the set of locations   *)
(* that went into it.                                                      *)
(*                                                                         *)
(* TableSearch assumes of these sets exactly what is shown of them here.   *)
(***************************************************************************)
EXTENDS TableOps

CONSTANTS
    Field,       \* indexed columns
    None,        \* "no such file", "not cached"
    CacheFields, \* BITTICE_EXACT_INDEX_CACHE_FIELDS
    SegMaxRows,  \* rows after which the CDC rotates the active segment
    MaxOps,      \* bound: rows applied
    MaxCrashes   \* bound: process deaths

ASSUME ValuesDistinct == NoVal \notin Val
ASSUME TuningIsPositive == {CacheFields, SegMaxRows} \subseteq Nat \ {0}
ASSUME BoundsAreNat == {MaxOps, MaxCrashes} \subseteq Nat

VARIABLES
    up,        \* the table is open
    t,         \* struct Table; segments below t.active are immutable_segments
    idxFile,   \* primary.idx
    bm,        \* rows in the column bitmaps
    bmFile,    \* the active segment's bitmaps_<column>.dat
    mm,        \* rows in the zone maps
    mmFile,    \* the active segment's metadata.json, no row if there is none
    xc,        \* exact_index_cache
    xf,        \* secondary_exact/exact_<field>.idx
    ops, crashes,
    exposure   \* history: the windows that have been hit

segFiles == <<bmFile, mmFile>>
exact == <<xc, xf>>
bounds == <<ops, crashes>>
vars == <<up, t, idxFile, bm, mm, segFiles, exact, bounds, exposure>>

Immutable(l) == l[1] < t.active
ActiveLocs(tb) == {l \in DOMAIN tb.rows : l[1] = tb.active}
SegmentIds(index) == {l[1] : l \in index}

-----------------------------------------------------------------------------
(* Rows *)

\* SegmentWriter::append_record puts the row into the writer's bitmaps and zone
\* map with the row itself.
Appended(old, new) == DOMAIN new.rows \ DOMAIN old.rows

\* Mutated form of WithRows: a zone map that exists is not widened.
WithRowsZoneOfFirst(new) ==
    /\ bm' = bm \cup Appended(t, new)
    /\ mm' = IF \E z \in mm : z[1] = t.active THEN mm ELSE mm \cup Appended(t, new)

WithRows(new) == bm' = bm \cup Appended(t, new) /\ mm' = mm \cup Appended(t, new)

\* A row event.  Table::insert reads the old row through get_row_as_map, which
\* flushes the column files and nothing else, as does reconcile_orphan_rows.
WriteRow(pk, v) ==
    /\ up /\ ops < MaxOps
    /\ \E new \in {Insert(t, pk, v), Reconcile(Insert(t, pk, v))} : t' = new /\ WithRows(new)
    /\ ops' = ops + 1
    /\ UNCHANGED <<up, idxFile, segFiles, exact, crashes, exposure>>

DeleteRow(pk) ==
    /\ up /\ ops < MaxOps
    /\ t' = Delete(t, pk)
    /\ ops' = ops + 1
    /\ UNCHANGED <<up, idxFile, bm, mm, segFiles, exact, crashes, exposure>>

\* Mutated form of FlushActiveSegmentBuffers: the bitmaps are saved before the rows.
FlushBitmapsOnly ==
    /\ up
    /\ bmFile' = IF t.count = 0 THEN bmFile ELSE {l \in bm : l[1] = t.active}
    /\ UNCHANGED <<up, t, idxFile, bm, mm, mmFile, exact, bounds, exposure>>

\* Table::flush_active_segment_buffers: column files and bitmaps.
FlushActiveSegmentBuffers ==
    /\ up /\ t' = FlushBuffers(t)
    /\ bmFile' = IF t.count = 0 THEN bmFile ELSE {l \in bm : l[1] = t.active}
    /\ UNCHANGED <<up, idxFile, bm, mm, mmFile, exact, bounds, exposure>>

\* ... and the index save and log truncation some of the flushes end with.
SaveIndex ==
    /\ up /\ t.wal # <<>> /\ t.flushed = t.count
    /\ idxFile' = t.index /\ t' = [t EXCEPT !.wal = <<>>]
    /\ UNCHANGED <<up, bm, mm, segFiles, exact, bounds, exposure>>

-----------------------------------------------------------------------------
(* The exact indexes *)

\* Mutated form of Patched: the index is taken as it was saved.
PatchedNever(index) == index

\* patch_exact_index_missing_segments: immutable segments the index does not
\* name at all are read from their bitmap files.
Patched(index) == index \cup {l \in bm : Immutable(l) /\ l[1] \notin SegmentIds(index)}

\* build_exact_index: the bitmaps of the immutable segments and the live part
\* of the active segment's.
Built == {l \in bm : Immutable(l) \/ l \notin t.deleted}

\* load_exact_index: the cached index, the file's or a new one, patched.
LoadedExact(f) ==
    Patched(IF xc[f] # None THEN xc[f] ELSE IF xf[f] # None THEN xf[f] ELSE Built)

\* build_exact_index is given the active segment too.  Saved before that segment is
\* sealed, such an index names it without having all of its rows, and is never
\* patched again.
Early(files) ==
    IF \E f \in Field : files[f] # None /\ t.active \in SegmentIds(files[f]) THEN {"exact"} ELSE {}

\* A query on f.  A patched index is saved; an index that was not cached is, and
\* an arbitrary other one leaves a full cache.
LoadExactIndex(f) ==
    LET old == IF xc[f] # None THEN xc[f] ELSE IF xf[f] # None THEN xf[f] ELSE Built
        new == LoadedExact(f)
        cached == {g \in Field : xc[g] # None}
        full == xc[f] = None /\ Cardinality(cached) >= CacheFields
    IN
    /\ up
    /\ xf' = [xf EXCEPT ![f] = IF new # old THEN new ELSE @]
    /\ \E evicted \in IF full THEN {{g} : g \in cached} ELSE {{}} :
         xc' = [g \in Field |-> IF g = f THEN new ELSE IF g \in evicted THEN None ELSE xc[g]]
    /\ exposure' = exposure \cup Early(xf')
    /\ UNCHANGED <<up, t, idxFile, bm, mm, segFiles, bounds>>

\* merge_exact_indexes_for_segment, for one column of the segment being sealed.
\* The cache is not bounded here.
Merged(f, rows) ==
    (IF xc[f] # None THEN xc[f] ELSE Patched(IF xf[f] # None THEN xf[f] ELSE {})) \cup rows

\* Table::flush_active_segment: bitmaps and zone map are saved with the rows,
\* the exact indexes get the segment, the manifest names it.
FlushActiveSegment ==
    /\ up /\ t.count >= SegMaxRows
    /\ LET rows == {l \in bm : l[1] = t.active} IN
       xc' = IF rows = {} THEN xc ELSE [f \in Field |-> Merged(f, rows)]
    /\ t' = [t EXCEPT !.active = @ + 1, !.count = 0, !.flushed = 0]
    /\ bmFile' = None /\ mmFile' = {}
    /\ UNCHANGED <<up, idxFile, bm, mm, xf, bounds, exposure>>

-----------------------------------------------------------------------------
(* Closing, dying and opening *)

\* Table::close: the active segment is not sealed; its bitmaps and, if rows came
\* in, its zone map are saved, and so is every cached exact index unless there is
\* nothing to record.
Close ==
    /\ up /\ up' = FALSE
    /\ bmFile' = IF t.count = 0 THEN bmFile ELSE {l \in bm : l[1] = t.active}
    /\ mmFile' = IF t.count = 0 THEN mmFile ELSE {l \in mm : l[1] = t.active}
    /\ bm' = {l \in bm : Immutable(l)} /\ mm' = {l \in mm : Immutable(l)}
    /\ xc' = [f \in Field |-> None]
    /\ IF t.index # NoIndex \/ t.active > 0
       THEN /\ t' = [FlushBuffers(t) EXCEPT !.wal = <<>>, !.index = NoIndex]
            /\ idxFile' = t.index
            /\ xf' = [f \in Field |-> IF xc[f] # None THEN xc[f] ELSE xf[f]]
       ELSE t' = FlushBuffers(t) /\ UNCHANGED <<idxFile, xf>>
    /\ exposure' = exposure \cup Early(xf')
    /\ UNCHANGED bounds

\* What n rows of the active segment and w log entries leave behind.
Surviving(n, w) ==
    LET left == {l \in DOMAIN t.rows : Immutable(l) \/ l[2] <= n} IN
    [t EXCEPT !.count = n, !.flushed = n, !.index = NoIndex,
              !.rows = [l \in left |-> @[l]], !.wal = SubSeq(@, 1, w)]

\* The crash windows after which recovery works from files that lag the rows:
\*   bitmaps - rows were flushed after the bitmaps were last saved
\*   zones   - rows of the active segment are on disk, their zone map is not: the
\*             next row appended begins one without them
Windows(left) ==
    LET onDisk == ActiveLocs(left) IN
    {w \in {"bitmaps", "zones"} :
        \/ w = "bitmaps" /\ bmFile # None /\ ~(onDisk \subseteq bmFile)
        \/ w = "zones" /\ ~(onDisk \subseteq mmFile)}

Crash ==
    /\ up /\ crashes < MaxCrashes
    /\ \E n \in t.flushed .. t.count, w \in 0 .. Len(t.wal) :
         /\ t' = Surviving(n, w)
         /\ exposure' = exposure \cup Windows(t')
    /\ up' = FALSE /\ crashes' = crashes + 1
    /\ bm' = {l \in bm : Immutable(l)} /\ mm' = {l \in mm : Immutable(l)}
    /\ xc' = [f \in Field |-> None]
    /\ UNCHANGED <<idxFile, segFiles, xf, ops>>

\* Mutated form of Rehydrated: rows without saved bitmaps are not scanned.
RehydratedFromFilesOnly == IF bmFile # None THEN bmFile ELSE {}

\* rehydrate_bitmaps_from_disk: the saved bitmaps, or the live rows if there are none.
Rehydrated == IF bmFile # None THEN bmFile ELSE ActiveLocs(t) \ t.deleted

\* Table::open (one step; MirrorTable takes it apart): the active segment is
\* loaded, the log replayed, the rows reconciled and the segment sealed.
Open ==
    /\ ~up
    /\ LET loaded == SyncIndex([t EXCEPT !.index = idxFile])
           replayed == ReplayWal(loaded, t.wal)
           new == [Reconcile(replayed) EXCEPT !.wal = <<>>]
           added == Appended(t, new)
           rows == Rehydrated \cup added
       IN
       /\ idxFile' = IF t.wal # <<>> THEN replayed.index ELSE idxFile
       /\ bm' = bm \cup rows /\ mm' = mm \cup mmFile \cup added
       /\ IF new.count = 0
          THEN t' = new /\ UNCHANGED <<segFiles, xc>>
          ELSE /\ t' = [new EXCEPT !.active = @ + 1, !.count = 0, !.flushed = 0]
               /\ xc' = IF rows = {} THEN xc ELSE [f \in Field |-> Merged(f, rows)]
               /\ bmFile' = None /\ mmFile' = {}
    /\ up' = TRUE
    /\ UNCHANGED <<xf, bounds, exposure>>

\* Table::open_for_query with an empty log: the active segment stays active.
OpenForQuery ==
    /\ ~up /\ t.wal = <<>>
    /\ t' = SyncIndex([t EXCEPT !.index = idxFile])
    /\ bm' = bm \cup (IF t.count = 0 THEN {} ELSE Rehydrated)
    /\ mm' = mm \cup mmFile
    /\ up' = TRUE
    /\ UNCHANGED <<idxFile, segFiles, exact, bounds, exposure>>

-----------------------------------------------------------------------------

Init ==
    /\ up = TRUE /\ t = EmptyTable /\ idxFile = NoIndex
    /\ bm = {} /\ bmFile = None /\ mm = {} /\ mmFile = {}
    /\ xc = [f \in Field |-> None] /\ xf = [f \in Field |-> None]
    /\ ops = 0 /\ crashes = 0 /\ exposure = {}

Next ==
    \/ \E p \in PK : DeleteRow(p) \/ \E v \in Val : WriteRow(p, v)
    \/ FlushActiveSegmentBuffers \/ SaveIndex \/ FlushActiveSegment
    \/ \E f \in Field : LoadExactIndex(f)
    \/ Close \/ Crash \/ Open \/ OpenForQuery

Spec == Init /\ [][Next]_vars

-----------------------------------------------------------------------------
(* Properties *)

\* The table, the bitmaps, zone maps and exact indexes are of the declared kinds;
\* bitmaps and zone maps of immutable segments never name a row that is not there.
TypeOK ==
    /\ up \in BOOLEAN /\ IsTable(t) /\ idxFile \in Index
    /\ bm \subseteq DOMAIN t.rows /\ mm \subseteq DOMAIN t.rows
    /\ bmFile # None => \A l \in bmFile : l[1] = t.active
    /\ \A l \in mmFile : l[1] = t.active
    /\ DOMAIN xc = Field /\ DOMAIN xf = Field
    /\ \A f \in Field : \A s \in {xc[f], xf[f]} : s = None \/ s \subseteq DOMAIN t.rows
    /\ ops \in 0 .. MaxOps /\ crashes \in 0 .. MaxCrashes

\* Every live row of an open table is in its segment's column bitmaps: what was
\* appended, rehydrated or rebuilt after a restart can be found by a filter,
\* unless a process died between a flush of the rows and one of the bitmaps.
BitmapsCover ==
    up /\ "bitmaps" \notin exposure => Live(t) \subseteq bm

\* A segment that has a zone map has one that covers all its live rows: no
\* filter skips a segment that holds a match.
ZonesCover ==
    up /\ "zones" \notin exposure
        => \A l \in Live(t) : (\E z \in mm : z[1] = l[1]) => l \in mm

\* Whatever rotations, saves, evictions, closes and deaths came before, the exact
\* index the next query on a column gets holds every live row of every immutable
\* segment, so that its answer, together with the active segment's bitmaps, is
\* complete.
ExactCovers ==
    up /\ exposure \cap {"bitmaps", "exact"} = {}
        => \A f \in Field : {l \in Live(t) : Immutable(l)} \subseteq LoadedExact(f)
=============================================================================
