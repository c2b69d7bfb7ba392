---------------------------- MODULE ExactIndex ----------------------------
(***************************************************************************)
(* The exact index of one field: struct ExactIndex of                      *)
(* core/storage/exact_index.rs with its snapshot file                      *)
(* (exact_index_v3/), the older file formats it still opens, and the       *)
(* migrations of core/migrate_exact_index.rs and exact_index_v3/migrate.rs.*)
(*                                                                         *)
(* A handle answers from three layers: pending changes (delta), an LRU     *)
(* cache of decoded entries, and the memory-mapped snapshot.  The methods  *)
(* that change it take &mut self, behind the RwLock of the table's         *)
(* exact_index_cache, so each is one step.  A save writes <file>.tmp,      *)
(* fsyncs and renames; the rename is the only step another process, or     *)
(* the next one, can see.                                                  *)
(*                                                                         *)
(* A posting list Vec<(seg_id, bitmap)> is the set of its (seg_id, row)    *)
(* pairs.  Callers drop empty bitmaps before they merge, so a list without *)
(* pairs is a list without entries, which the delta calls Removed.         *)
(***************************************************************************)
EXTENDS Naturals, FiniteSets

CONSTANTS
    Value,          \* field values, as strings
    HashOf,         \* ExactIndex::hash: canonical form, then xxh3_128
    Hash, Seg, RowId,
    None,           \* "no entry"
    CacheCapacity,  \* BITTICE_EXACT_INDEX_CACHE_PER_FIELD
    MaxSteps        \* bound: changes made to the index

Posting == Seg \X RowId
Map == [Hash -> SUBSET Posting]
Empty == [h \in Hash |-> {}]
NoEntries == [h \in Hash |-> None]

ASSUME HashIsTotal == HashOf \in [Value -> Hash]
ASSUME NoneIsNoList == None \notin SUBSET Posting
ASSUME CapacityIsPositive == CacheCapacity \in Nat \ {0} /\ MaxSteps \in Nat

VARIABLES
    file,     \* exact_<field>.idx
    backup,   \* exact_<field>.idx.pre_v3.bak
    open,     \* a handle exists
    mapped,   \* it has a snapshot
    snap,     \* the snapshot's entries
    delta,    \* pending changes: None, or the list that replaces the entry
    cache,    \* decoded entries: None, or the entry
    mig,      \* where migrate_file is
    got,      \* the answer of the last get
    steps     \* changes so far (bounded by MaxSteps)

handle == <<open, mapped, snap, delta, cache>>
vars == <<file, backup, handle, mig, got, steps>>

-----------------------------------------------------------------------------
(* Files *)

\* Formats: none, v1 (String keys, with or without header), v2, v3 (hash keys).
NoFile == [fmt |-> "none", strings |-> [v \in Value |-> {}], hashes |-> Empty]
FileOf(fmt, strings, hashes) == [fmt |-> fmt, strings |-> strings, hashes |-> hashes]
V3File(m) == FileOf("v3", NoFile.strings, m)
File == [fmt : {"none", "v1", "v2", "v3"}, strings : [Value -> SUBSET Posting], hashes : Map]

\* load_v1_into_delta: the strings that share a canonical form are merged.
Collapsed(strings) == [h \in Hash |-> UNION {strings[v] : v \in {u \in Value : HashOf[u] = h}}]

Contents(f) == IF f.fmt = "v1" THEN Collapsed(f.strings) ELSE f.hashes

\* What ExactIndex::open keeps of a file it loads into the delta.
AsDelta(m) == [h \in Hash |-> IF m[h] = {} THEN None ELSE m[h]]

-----------------------------------------------------------------------------
(* A handle *)

\* The list a hash has, delta before snapshot; what save writes and what the
\* index is for its callers.
Merged == [h \in Hash |-> IF delta[h] # None THEN delta[h] ELSE snap[h]]

\* ExactIndex::open.  The cache starts empty.
Open ==
    /\ ~open /\ mig = "none"
    /\ open' = TRUE /\ mapped' = (file.fmt = "v3")
    /\ snap' = IF file.fmt = "v3" THEN file.hashes ELSE Empty
    /\ delta' = IF file.fmt \in {"v1", "v2"} THEN AsDelta(Contents(file)) ELSE NoEntries
    /\ cache' = NoEntries
    /\ UNCHANGED <<file, backup, mig, got, steps>>

\* ExactIndex::get: the delta, then the cache, then the snapshot, whose entry is
\* cached; at capacity one entry makes room for it.
Answer(h) ==
    IF delta[h] # None THEN delta[h]
    ELSE IF cache[h] # None THEN cache[h]
    ELSE snap[h]

Caches(h) ==
    IF delta[h] # None \/ cache[h] # None \/ snap[h] = {} THEN cache' = cache
    ELSE LET held == {k \in Hash : cache[k] # None} IN
         IF Cardinality(held) < CacheCapacity THEN cache' = [cache EXCEPT ![h] = snap[h]]
         ELSE \E k \in held : cache' = [cache EXCEPT ![k] = None, ![h] = snap[h]]

Get(v) ==
    /\ open
    /\ got' = Answer(HashOf[v])
    /\ Caches(HashOf[v])
    /\ UNCHANGED <<file, backup, open, mapped, snap, delta, mig, steps>>

\* Mutated form of MergeSegment: a hash without pending change starts empty.
MergeSegmentForgetsSnapshot(s, rows) ==
    LET touched == {HashOf[v] : v \in {u \in Value : rows[u] # {}}}
        added(h) == {s} \X UNION {rows[v] : v \in {u \in Value : HashOf[u] = h}}
        pending(h) == IF delta[h] = None THEN {} ELSE delta[h]
    IN
    /\ open /\ steps < MaxSteps
    /\ delta' = [h \in Hash |-> IF h \in touched THEN pending(h) \cup added(h) ELSE delta[h]]
    /\ cache' = [h \in Hash |-> IF h \in touched THEN None ELSE cache[h]]
    /\ steps' = steps + 1
    /\ UNCHANGED <<file, backup, open, mapped, snap, mig, got>>

\* ExactIndex::merge_segment: the bitmaps of one segment are or-ed in.
MergeSegment(s, rows) ==
    LET touched == {HashOf[v] : v \in {u \in Value : rows[u] # {}}}
        added(h) == {s} \X UNION {rows[v] : v \in {u \in Value : HashOf[u] = h}}
    IN
    /\ open /\ steps < MaxSteps
    /\ delta' = [h \in Hash |-> IF h \in touched THEN Merged[h] \cup added(h) ELSE delta[h]]
    /\ cache' = [h \in Hash |-> IF h \in touched THEN None ELSE cache[h]]
    /\ steps' = steps + 1
    /\ UNCHANGED <<file, backup, open, mapped, snap, mig, got>>

\* ExactIndex::purge_segments: the entries of the snapshot that name a removed
\* segment, and those of the delta, are rewritten; the cache is cleared if any
\* was.
PurgeSegments(gone) ==
    LET kept(h) == {p \in Merged[h] : p[1] \notin gone}
        hit == {h \in Hash : kept(h) # Merged[h]}
    IN
    /\ open /\ steps < MaxSteps
    /\ delta' = [h \in Hash |-> IF h \in hit THEN kept(h) ELSE delta[h]]
    /\ cache' = IF hit = {} THEN cache ELSE NoEntries
    /\ steps' = steps + 1
    /\ UNCHANGED <<file, backup, open, mapped, snap, mig, got>>

\* ExactIndex::segment_ids
SegmentIds == {p[1] : p \in UNION {Merged[h] : h \in Hash}}

\* ExactIndex::save: nothing to do for a snapshot without changes; otherwise
\* snapshot and delta are written as one v3 file, which becomes the snapshot.
Save ==
    /\ open /\ mig = "none" /\ steps < MaxSteps
    /\ ~(mapped /\ delta = NoEntries)
    /\ file' = V3File(Merged)
    /\ mapped' = TRUE /\ snap' = Merged /\ delta' = NoEntries /\ cache' = NoEntries
    /\ steps' = steps + 1
    /\ UNCHANGED <<backup, open, mig, got>>

\* ExactIndex::save fails to write the file: with a snapshot the delta was only
\* read; without one it was drained into the map that did not get written.
SaveFails ==
    /\ open /\ mig = "none" /\ steps < MaxSteps
    /\ ~(mapped /\ delta = NoEntries)
    /\ delta' = IF mapped THEN delta ELSE NoEntries
    /\ steps' = steps + 1
    /\ UNCHANGED <<file, backup, open, mapped, snap, cache, mig, got>>

\* Mutated form of Drop: the pending changes stay behind.
DropKeepsChanges ==
    /\ open
    /\ open' = FALSE /\ mapped' = FALSE /\ snap' = Empty /\ cache' = NoEntries
    /\ UNCHANGED <<file, backup, delta, mig, got, steps>>

\* The handle is dropped: eviction from exact_index_cache, close, or the death
\* of the process.
Drop ==
    /\ open
    /\ open' = FALSE /\ mapped' = FALSE /\ snap' = Empty
    /\ delta' = NoEntries /\ cache' = NoEntries
    /\ UNCHANGED <<file, backup, mig, got, steps>>

-----------------------------------------------------------------------------
(* Migration, by the command line while the engine is stopped *)

\* migrate_file up to the rename: missing files, v3 files without --force and
\* dry runs return before it.
MigrateMovesAway(force) ==
    /\ ~open /\ mig = "none" /\ steps < MaxSteps
    /\ file.fmt # "none" /\ (file.fmt = "v3" => force)
    /\ backup' = file /\ file' = NoFile
    /\ mig' = "moved" /\ steps' = steps + 1
    /\ UNCHANGED <<handle, got>>

\* The backup is opened and saved under the old name.  For a backup that is v3
\* already, save has nothing to do and writes no file.
MigrateWrites ==
    /\ mig = "moved" /\ backup.fmt # "v3"
    /\ file' = V3File(Contents(backup))
    /\ mig' = "written"
    /\ UNCHANGED <<backup, handle, got, steps>>

\* Opening, writing or validating failed (always, for a forced v3 file): the
\* backup is renamed back.
MigrateFails ==
    /\ mig \in {"moved", "written"}
    /\ file' = backup /\ backup' = NoFile
    /\ mig' = "none"
    /\ UNCHANGED <<handle, got, steps>>

\* The new file validates; the backup is kept or removed.
MigrateEnds(keep) ==
    /\ mig = "written"
    /\ backup' = IF keep THEN backup ELSE NoFile
    /\ mig' = "none"
    /\ UNCHANGED <<file, handle, got, steps>>

\* The command dies half way.
MigrateDies ==
    /\ mig # "none"
    /\ mig' = "none"
    /\ UNCHANGED <<file, backup, handle, got, steps>>

\* migrate_exact_index_to_v3: opened and saved in place, a v3 file left alone.
MigrateInPlace ==
    /\ ~open /\ mig = "none" /\ steps < MaxSteps
    /\ file.fmt \in {"v1", "v2"}
    /\ file' = V3File(Contents(file))
    /\ steps' = steps + 1
    /\ UNCHANGED <<backup, handle, mig, got>>

-----------------------------------------------------------------------------

\* Mirrors written by any earlier version of the engine.
Init ==
    /\ \/ file = NoFile
       \/ \E s \in [Value -> SUBSET Posting] : file = FileOf("v1", s, Empty)
       \/ \E f \in {"v2", "v3"}, m \in Map : file = FileOf(f, NoFile.strings, m)
    /\ backup = NoFile
    /\ open = FALSE /\ mapped = FALSE /\ snap = Empty
    /\ delta = NoEntries /\ cache = NoEntries
    /\ mig = "none" /\ got = {} /\ steps = 0

Migrate ==
    \/ \E force \in BOOLEAN : MigrateMovesAway(force)
    \/ MigrateWrites \/ MigrateFails \/ MigrateDies \/ MigrateInPlace
    \/ \E keep \in BOOLEAN : MigrateEnds(keep)

Next ==
    \/ Open \/ Save \/ SaveFails \/ Drop \/ Migrate
    \/ \E v \in Value : Get(v)
    \/ \E s \in Seg, rows \in [Value -> SUBSET RowId] : MergeSegment(s, rows)
    \/ \E gone \in SUBSET Seg : PurgeSegments(gone)

Spec == Init /\ [][Next]_vars

-----------------------------------------------------------------------------
(* Properties *)

\* The files, the layers of the handle and the progress of a migration are of
\* the declared kinds, and a closed handle holds nothing.
TypeOK ==
    /\ file \in File /\ backup \in File
    /\ open \in BOOLEAN /\ mapped \in BOOLEAN /\ snap \in Map
    /\ delta \in [Hash -> (SUBSET Posting) \cup {None}]
    /\ cache \in [Hash -> (SUBSET Posting) \cup {None}]
    /\ mig \in {"none", "moved", "written"}
    /\ got \subseteq Posting /\ steps \in 0 .. MaxSteps
    /\ ~mapped => snap = Empty
    /\ ~open => ~mapped /\ delta = NoEntries /\ cache = NoEntries

\* What a file records: a row under the hash of every value it is listed for.
Records(f) ==
    [h \in Hash |-> {p \in Posting :
        IF f.fmt = "v1" THEN \E v \in Value : HashOf[v] = h /\ p \in f.strings[v]
                        ELSE p \in f.hashes[h]}]

\* What is on disk under the index's name, or was until a migration moved it.
OnDisk == Records(IF file.fmt = "none" THEN backup ELSE file)

Index == INSTANCE ValueIndex WITH
    idx <- Merged, saved <- OnDisk, present <- (file.fmt # "none")

\* The layered index implements the plain one: every get answers with the rows
\* merged and not purged, whatever the delta, the cache and the snapshot hold;
\* a file, in any format, opens as the map saved last, also after a migration
\* that failed or died half way; and a migration never changes that map.
ImplementsValueIndex == Index!Spec

\* The parts of the inductive argument: a cached entry is the snapshot's ...
CacheMatchesSnapshot == \A h \in Hash : cache[h] # None => cache[h] = snap[h]
\* ... the migrated file holds what the backup holds, and no handle is open.
MigrationIsFaithful ==
    /\ mig # "none" => ~open
    /\ mig = "moved" => file = NoFile /\ backup.fmt # "none"
    /\ mig = "written" => file = V3File(Contents(backup)) /\ backup.fmt # "none"
=============================================================================
