---------------------------- MODULE SearchProof ----------------------------
(***************************************************************************)
(* Proofs about what a query asks.                                         *)
(*                                                                         *)
(* First the exact index of one field: the layered index implements the    *)
(* plain map of ValueIndex, for any values, hash function, segments, rows  *)
(* and cache capacity.  The inductive invariant adds two facts to the      *)
(* type: a cached entry is the snapshot's (so an answer from the cache is  *)
(* an answer from the map), and a migration that has written its file      *)
(* wrote what its backup holds (so giving either of the two back changes   *)
(* nothing).                                                               *)
(*                                                                         *)
(* Then the search that asks such indexes, for any tables with complete    *)
(* indexes, any filters, page sizes, chunks and buffers.  A table and a    *)
(* query do not change while rows are fetched, so what search returns is   *)
(* proved of every pair of them; the fetch adds an invariant of its own.   *)
(***************************************************************************)
EXTENDS ExactIndex, TableSearch, FiniteSetTheorems, TLAPS

IInv == TypeOK /\ CacheMatchesSnapshot /\ MigrationIsFaithful

-----------------------------------------------------------------------------
(* Files *)

\* load_v1_into_delta and the other loaders read what the file records.
LEMMA ContentsAreRecords ==
    ASSUME NEW f \in File
    PROVE  Contents(f) = Records(f) /\ Contents(f) \in Map
<1>1. CASE f.fmt = "v1"
  <2>1. \A h \in Hash : Collapsed(f.strings)[h] = Records(f)[h]
    BY <1>1 DEF Collapsed, Records, File
  <2>2. Collapsed(f.strings) \in Map
    BY DEF Collapsed, File, Map
  <2>. QED BY <1>1, <2>1, <2>2 DEF Contents, Collapsed, Records
<1>2. CASE f.fmt # "v1"
  <2>1. \A h \in Hash : f.hashes[h] = Records(f)[h]
    BY <1>2 DEF Records, File, Map
  <2>2. f.hashes \in Map
    BY DEF File
  <2>. QED BY <1>2, <2>1, <2>2 DEF Contents, Records, Map
<1>. QED BY <1>1, <1>2

\* A v3 file records the map it was written from.
LEMMA V3FileRecords ==
    ASSUME NEW m \in Map
    PROVE  V3File(m) \in File /\ V3File(m).fmt = "v3" /\ V3File(m).hashes = m
           /\ Records(V3File(m)) = m
<1>1. V3File(m) \in File /\ V3File(m).fmt = "v3" /\ V3File(m).hashes = m
  BY DEF V3File, FileOf, File, NoFile
<1>2. Records(V3File(m)) \in Map
  BY DEF Records, Map
<1>3. \A h \in Hash : Records(V3File(m))[h] = m[h]
  BY <1>1 DEF Records, Map
<1>. QED BY <1>1, <1>2, <1>3 DEF Map

\* The absent file is a file, of no format.
LEMMA NoFileIsAFile == NoFile \in File /\ NoFile.fmt = "none"
BY DEF NoFile, File, Map, Empty

\* The empty map is a map; a delta without entries has the type of one.
LEMMA EmptyMaps ==
    Empty \in Map /\ NoEntries \in [Hash -> (SUBSET Posting) \cup {None}]
BY DEF Empty, NoEntries, Map

\* What a file records is a map.
LEMMA RecordsAreMaps ==
    ASSUME NEW f
    PROVE  Records(f) \in Map
BY DEF Records, Map

-----------------------------------------------------------------------------
(* The handle *)

\* Snapshot and delta together are a map.
LEMMA MergedIsAMap == TypeOK => Merged \in Map
BY NoneIsNoList DEF TypeOK, Merged, Map

\* Loading a map into the delta, with no snapshot below it, shows that map.
LEMMA AsDeltaShows ==
    ASSUME NEW m \in Map
    PROVE  /\ AsDelta(m) \in [Hash -> (SUBSET Posting) \cup {None}]
           /\ \A h \in Hash : (IF AsDelta(m)[h] # None THEN AsDelta(m)[h] ELSE {}) = m[h]
BY NoneIsNoList DEF AsDelta, Map

\* ExactIndex::get answers from the right layer.
LEMMA AnswerIsMerged ==
    ASSUME IInv, NEW h \in Hash
    PROVE  Answer(h) = Merged[h]
BY DEF IInv, TypeOK, CacheMatchesSnapshot, Answer, Merged

-----------------------------------------------------------------------------
(* The invariant *)

\* The inductive invariant holds at first,
LEMMA InitIInv == Init => IInv
<1>. SUFFICES ASSUME Init PROVE IInv
  OBVIOUS
<1>1. file \in File
  <2>1. \A sg \in [Value -> SUBSET Posting] : FileOf("v1", sg, Empty) \in File
    BY EmptyMaps DEF FileOf, File
  <2>2. NoFile.strings \in [Value -> SUBSET Posting]
    BY DEF NoFile
  <2>3. \A m \in Map, f \in {"v2", "v3"} : FileOf(f, NoFile.strings, m) \in File
    BY <2>2 DEF FileOf, File
  <2>4. CASE file = NoFile
    BY <2>4, NoFileIsAFile
  <2>5. ASSUME NEW sg \in [Value -> SUBSET Posting], file = FileOf("v1", sg, Empty)
        PROVE  file \in File
    BY <2>1, <2>5
  <2>6. ASSUME NEW f \in {"v2", "v3"}, NEW m \in Map, file = FileOf(f, NoFile.strings, m)
        PROVE  file \in File
    BY <2>3, <2>6
  <2>. QED BY <2>4, <2>5, <2>6 DEF Init
<1>0. steps \in 0 .. MaxSteps
  <2>1. steps = 0
    BY DEF Init
  <2>. QED BY <2>1, CapacityIsPositive
<1>2. TypeOK
  BY <1>0, <1>1, NoFileIsAFile, EmptyMaps, Zenon DEF Init, TypeOK
<1>3. CacheMatchesSnapshot /\ MigrationIsFaithful
  BY DEF Init, CacheMatchesSnapshot, MigrationIsFaithful, NoEntries
<1>. QED BY <1>2, <1>3 DEF IInv

\* and every step keeps it.
LEMMA NextIInv == IInv /\ [Next]_vars => IInv'
<1>. SUFFICES ASSUME IInv, [Next]_vars PROVE IInv'
  OBVIOUS
<1>. USE DEF IInv
<1>1. CASE Open
  <2>1. file.hashes \in Map /\ Contents(file) \in Map
    BY ContentsAreRecords DEF TypeOK, File
  <2>2. TypeOK'
    BY <1>1, <2>1, AsDeltaShows, EmptyMaps DEF Open, TypeOK
  <2>. QED BY <1>1, <2>2, EmptyMaps DEF Open, CacheMatchesSnapshot, MigrationIsFaithful, NoEntries
<1>2. ASSUME NEW v \in Value, Get(v) PROVE IInv'
  <2>. DEFINE h == HashOf[v]
  <2>1. h \in Hash
    BY HashIsTotal
  <2>2. Answer(h) \in SUBSET Posting
    BY <2>1, AnswerIsMerged, MergedIsAMap DEF Map
  <2>3. cache' \in [Hash -> (SUBSET Posting) \cup {None}] /\ CacheMatchesSnapshot'
    <3>1. snap[h] \in SUBSET Posting
      BY <2>1 DEF TypeOK, Map
    <3>2. CASE cache' = cache
      BY <1>2, <3>2 DEF Get, TypeOK, CacheMatchesSnapshot
    <3>3. CASE cache' = [cache EXCEPT ![h] = snap[h]]
      BY <1>2, <2>1, <3>1, <3>3 DEF Get, TypeOK, CacheMatchesSnapshot
    <3>4. ASSUME NEW k \in Hash, cache' = [cache EXCEPT ![k] = None, ![h] = snap[h]]
          PROVE  cache' \in [Hash -> (SUBSET Posting) \cup {None}] /\ CacheMatchesSnapshot'
      BY <1>2, <2>1, <3>1, <3>4 DEF Get, TypeOK, CacheMatchesSnapshot
    <3>. QED BY <1>2, <3>2, <3>3, <3>4 DEF Get, Caches
  <2>. QED BY <1>2, <2>2, <2>3 DEF Get, TypeOK, MigrationIsFaithful
<1>3. ASSUME NEW sg \in Seg, NEW rows \in [Value -> SUBSET RowId], MergeSegment(sg, rows) PROVE IInv'
  <2>1. delta' \in [Hash -> (SUBSET Posting) \cup {None}]
    BY <1>3, MergedIsAMap DEF MergeSegment, TypeOK, Map, Posting
  <2>2. cache' \in [Hash -> (SUBSET Posting) \cup {None}] /\ CacheMatchesSnapshot'
    BY <1>3 DEF MergeSegment, TypeOK, CacheMatchesSnapshot
  <2>. QED BY <1>3, <2>1, <2>2, CapacityIsPositive DEF MergeSegment, TypeOK, MigrationIsFaithful
<1>4. ASSUME NEW gone \in SUBSET Seg, PurgeSegments(gone) PROVE IInv'
  <2>1. delta' \in [Hash -> (SUBSET Posting) \cup {None}]
    BY <1>4, MergedIsAMap DEF PurgeSegments, TypeOK, Map
  <2>2. cache' \in [Hash -> (SUBSET Posting) \cup {None}] /\ CacheMatchesSnapshot'
    BY <1>4, EmptyMaps DEF PurgeSegments, TypeOK, CacheMatchesSnapshot, NoEntries
  <2>. QED BY <1>4, <2>1, <2>2, CapacityIsPositive DEF PurgeSegments, TypeOK, MigrationIsFaithful
<1>5. CASE Save
  <2>1. Merged \in Map
    BY MergedIsAMap
  <2>2. V3File(Merged) \in File
    BY <2>1, V3FileRecords
  <2>3. CacheMatchesSnapshot' /\ MigrationIsFaithful'
    BY <1>5 DEF Save, CacheMatchesSnapshot, MigrationIsFaithful, NoEntries
  <2>. QED BY <1>5, <2>1, <2>2, <2>3, EmptyMaps, CapacityIsPositive DEF Save, TypeOK
<1>6. CASE SaveFails
  BY <1>6, EmptyMaps, CapacityIsPositive DEF SaveFails, TypeOK, CacheMatchesSnapshot, MigrationIsFaithful
<1>7. CASE Drop
  BY <1>7, EmptyMaps DEF Drop, TypeOK, CacheMatchesSnapshot, MigrationIsFaithful, NoEntries
<1>8. ASSUME NEW force \in BOOLEAN, MigrateMovesAway(force) PROVE IInv'
  BY <1>8, NoFileIsAFile, CapacityIsPositive
     DEF MigrateMovesAway, handle, TypeOK, CacheMatchesSnapshot, MigrationIsFaithful
<1>9. CASE MigrateWrites
  <2>1. V3File(Contents(backup)) \in File
    BY ContentsAreRecords, V3FileRecords DEF TypeOK
  <2>. QED BY <1>9, <2>1 DEF MigrateWrites, handle, TypeOK, CacheMatchesSnapshot, MigrationIsFaithful
<1>10. CASE MigrateFails
  BY <1>10, NoFileIsAFile DEF MigrateFails, handle, TypeOK, CacheMatchesSnapshot, MigrationIsFaithful
<1>11. ASSUME NEW keep \in BOOLEAN, MigrateEnds(keep) PROVE IInv'
  BY <1>11, NoFileIsAFile DEF MigrateEnds, handle, TypeOK, CacheMatchesSnapshot, MigrationIsFaithful
<1>12. CASE MigrateDies
  BY <1>12 DEF MigrateDies, handle, TypeOK, CacheMatchesSnapshot, MigrationIsFaithful
<1>13. CASE MigrateInPlace
  <2>1. V3File(Contents(file)) \in File
    BY ContentsAreRecords, V3FileRecords DEF TypeOK
  <2>. QED BY <1>13, <2>1, CapacityIsPositive
           DEF MigrateInPlace, handle, TypeOK, CacheMatchesSnapshot, MigrationIsFaithful
<1>14. CASE UNCHANGED vars
  BY <1>14 DEF vars, handle, TypeOK, CacheMatchesSnapshot, MigrationIsFaithful
<1>. QED BY <1>1, <1>2, <1>3, <1>4, <1>5, <1>6, <1>7, <1>8, <1>9, <1>10, <1>11, <1>12,
            <1>13, <1>14 DEF Next, Migrate

\* Every step of the index's methods and of the migrations keeps the files and
\* the layers well formed.
THEOREM ExactTypeCorrect == Spec => []TypeOK
<1>1. Spec => []IInv
  BY InitIInv, NextIInv, PTL DEF Spec
<1>2. IInv => TypeOK
  BY DEF IInv
<1>. QED BY <1>1, <1>2, PTL

-----------------------------------------------------------------------------
(* The refinement *)

\* The state of the abstract index that a state of the detailed one stands for.
LEMMA AbsMap == Index!Map = Map /\ Index!Empty = Empty /\ Index!Posting = Posting
BY DEF Index!Map, Index!Empty, Index!Posting, Map, Empty, Posting

\* The initial state is an initial state of the abstract index,
LEMMA InitRefines == Init => Index!Init
<1>. SUFFICES ASSUME Init PROVE Index!Init
  OBVIOUS
<1>1. Merged = Empty
  BY DEF Init, Merged, NoEntries, Empty
<1>2. OnDisk \in Map
  BY RecordsAreMaps DEF OnDisk
<1>. QED BY <1>1, <1>2, AbsMap DEF Init, Index!Init

\* and every step is a step of it or leaves it alone.
LEMMA NextRefines == IInv /\ IInv' /\ [Next]_vars => [Index!Next]_(Index!vars)
<1>. SUFFICES ASSUME IInv, IInv', [Next]_vars PROVE [Index!Next]_(Index!vars)
  OBVIOUS
<1>. USE AbsMap
<1>0. Merged \in Map /\ Merged' \in Map /\ file \in File /\ backup \in File
  BY MergedIsAMap DEF IInv, TypeOK, Merged, Map
<1>1. CASE Open
  <2>1. Merged' = IF file.fmt # "none" THEN OnDisk ELSE Empty
    <3>1. Contents(file) = Records(file) /\ Contents(file) \in Map
      BY <1>0, ContentsAreRecords
    <3>2. CASE file.fmt = "v3"
      <4>1. Contents(file) = file.hashes
        BY <3>2 DEF Contents
      <4>2. \A h \in Hash : Merged'[h] = file.hashes[h]
        BY <1>1, <3>2 DEF Open, Merged, NoEntries
      <4>3. Merged' = Contents(file)
        BY <1>0, <3>1, <4>1, <4>2 DEF Map
      <4>. QED BY <3>1, <3>2, <4>3 DEF OnDisk
    <3>3. CASE file.fmt \in {"v1", "v2"}
      <4>1. \A h \in Hash : Merged'[h] = Contents(file)[h]
        BY <1>1, <3>1, <3>3, AsDeltaShows DEF Open, Merged, Empty
      <4>. QED BY <1>0, <3>1, <3>3, <4>1 DEF OnDisk, Map
    <3>4. CASE file.fmt = "none"
      <4>1. \A h \in Hash : Merged'[h] = {}
        BY <1>1, <3>4 DEF Open, Merged, NoEntries, Empty
      <4>. QED BY <1>0, <3>4, <4>1 DEF Map, Empty
    <3>. QED BY <1>0, <3>2, <3>3, <3>4 DEF File
  <2>2. UNCHANGED <<OnDisk, file>> 
    BY <1>1 DEF Open, OnDisk
  <2>. QED BY <1>1, <2>1, <2>2 DEF Open, Index!Open, Index!Next
<1>2. ASSUME NEW v \in Value, Get(v) PROVE Index!Next
  <2>1. HashOf[v] \in Hash
    BY HashIsTotal
  <2>2. got' = Merged[HashOf[v]]
    BY <1>2, <2>1, AnswerIsMerged DEF Get
  <2>3. UNCHANGED <<Merged, OnDisk, file, open>>
    BY <1>2 DEF Get, Merged, OnDisk
  <2>4. Index!Get(HashOf[v])
    BY <1>2, <2>2, <2>3 DEF Get, Index!Get
  <2>. QED BY <2>1, <2>4 DEF Index!Next
<1>3. ASSUME NEW sg \in Seg, NEW rows \in [Value -> SUBSET RowId], MergeSegment(sg, rows)
      PROVE  Index!Next
  <2>. DEFINE byHash == [h \in Hash |-> UNION {rows[v] : v \in {u \in Value : HashOf[u] = h}}]
  <2>1. byHash \in [Hash -> SUBSET RowId]
    OBVIOUS
  <2>2. \A h \in Hash : Merged'[h] = Merged[h] \cup ({sg} \X byHash[h])
    <3>. SUFFICES ASSUME NEW h \in Hash PROVE Merged'[h] = Merged[h] \cup ({sg} \X byHash[h])
      OBVIOUS
    <3>. DEFINE touched == {HashOf[v] : v \in {u \in Value : rows[u] # {}}}
    <3>1. CASE h \in touched
      <4>1. delta'[h] = Merged[h] \cup ({sg} \X byHash[h])
        BY <1>3, <3>1 DEF MergeSegment
      <4>2. delta'[h] \in SUBSET Posting
        BY <1>0, <2>1, <4>1 DEF Map, Posting
      <4>. QED BY <4>1, <4>2, NoneIsNoList DEF Merged
    <3>2. CASE h \notin touched
      <4>1. byHash[h] = {}
        BY <3>2
      <4>2. Merged'[h] = Merged[h]
        BY <1>3, <3>2 DEF MergeSegment, Merged
      <4>. QED BY <4>1, <4>2
    <3>. QED BY <3>1, <3>2
  <2>3. Merged' = [h \in Hash |-> Merged[h] \cup ({sg} \X byHash[h])]
    BY <1>0, <2>2 DEF Map
  <2>4. UNCHANGED <<OnDisk, file, open, got>>
    BY <1>3 DEF MergeSegment, OnDisk
  <2>5. Index!Merge(sg, byHash)
    BY <1>3, <2>3, <2>4 DEF MergeSegment, Index!Merge
  <2>. QED BY <2>1, <2>5 DEF Index!Next
<1>4. ASSUME NEW gone \in SUBSET Seg, PurgeSegments(gone) PROVE Index!Next
  <2>1. \A h \in Hash : Merged'[h] = {p \in Merged[h] : p[1] \notin gone}
    <3>. SUFFICES ASSUME NEW h \in Hash PROVE Merged'[h] = {p \in Merged[h] : p[1] \notin gone}
      OBVIOUS
    <3>. DEFINE kept == {p \in Merged[h] : p[1] \notin gone}
    <3>1. CASE kept # Merged[h]
      <4>1. delta'[h] = kept
        BY <1>4, <3>1 DEF PurgeSegments
      <4>2. kept \in SUBSET Posting
        BY <1>0 DEF Map
      <4>. QED BY <4>1, <4>2, NoneIsNoList DEF Merged
    <3>2. CASE kept = Merged[h]
      <4>1. delta'[h] = delta[h] /\ snap' = snap
        BY <1>4, <3>2 DEF PurgeSegments
      <4>. QED BY <3>2, <4>1 DEF Merged
    <3>. QED BY <3>1, <3>2
  <2>2. Merged' = [h \in Hash |-> {p \in Merged[h] : p[1] \notin gone}]
    BY <1>0, <2>1 DEF Map
  <2>3. UNCHANGED <<OnDisk, file, open, got>>
    BY <1>4 DEF PurgeSegments, OnDisk
  <2>4. Index!Purge(gone)
    BY <1>4, <2>2, <2>3 DEF PurgeSegments, Index!Purge
  <2>. QED BY <2>4 DEF Index!Next
<1>5. CASE Save
  <2>1. Merged' = Merged
    BY <1>0, <1>5 DEF Save, Merged, NoEntries, Map
  <2>2. OnDisk' = Merged /\ file'.fmt = "v3"
    BY <1>0, <1>5, V3FileRecords DEF Save, OnDisk
  <2>. QED BY <1>5, <2>1, <2>2 DEF Save, Index!Save, Index!Next
<1>6. CASE SaveFails
  <2>1. Merged' \in {Merged, Empty}
    <3>1. CASE mapped
      BY <1>6, <3>1 DEF SaveFails, Merged
    <3>2. CASE ~mapped
      <4>1. delta' = NoEntries /\ snap' = Empty
        BY <1>6, <3>2 DEF SaveFails, IInv, TypeOK
      <4>. QED BY <4>1 DEF Merged, NoEntries, Empty
    <3>. QED BY <3>1, <3>2
  <2>2. UNCHANGED <<OnDisk, file, open, got>>
    BY <1>6 DEF SaveFails, OnDisk
  <2>. QED BY <1>6, <2>1, <2>2 DEF SaveFails, Index!FailedSave, Index!Next
<1>7. CASE Drop
  <2>1. Merged' = Empty
    BY <1>7 DEF Drop, Merged, NoEntries, Empty
  <2>2. UNCHANGED <<OnDisk, file, got>>
    BY <1>7 DEF Drop, OnDisk
  <2>. QED BY <1>7, <2>1, <2>2 DEF Drop, Index!Leave, Index!Next
<1>8. ASSUME NEW force \in BOOLEAN, MigrateMovesAway(force) PROVE Index!Next
  <2>1. OnDisk' = OnDisk /\ file.fmt # "none" /\ file'.fmt = "none"
    BY <1>8, NoFileIsAFile DEF MigrateMovesAway, OnDisk
  <2>2. UNCHANGED <<Merged, open, got>> /\ ~open
    BY <1>8 DEF MigrateMovesAway, handle, Merged
  <2>. QED BY <2>1, <2>2 DEF Index!Hide, Index!Next
<1>9. CASE MigrateWrites
  <2>1. file = NoFile /\ ~open
    BY <1>9 DEF MigrateWrites, IInv, MigrationIsFaithful
  <2>2. OnDisk = Records(backup)
    BY <2>1, NoFileIsAFile DEF OnDisk
  <2>3. OnDisk' = Contents(backup) /\ file'.fmt = "v3"
    BY <1>0, <1>9, ContentsAreRecords, V3FileRecords DEF MigrateWrites, OnDisk
  <2>4. UNCHANGED <<Merged, open, got>>
    BY <1>9 DEF MigrateWrites, handle, Merged
  <2>. QED BY <1>0, <2>1, <2>2, <2>3, <2>4, ContentsAreRecords, NoFileIsAFile
           DEF Index!Restore, Index!Next
<1>10. CASE MigrateFails
  <2>1. UNCHANGED <<Merged, open, got>> /\ ~open
    BY <1>10 DEF MigrateFails, handle, Merged, IInv, MigrationIsFaithful
  <2>2. CASE mig = "moved"
    <3>1. file = NoFile /\ file' = backup /\ backup.fmt # "none"
      BY <1>10, <2>2 DEF MigrateFails, IInv, MigrationIsFaithful
    <3>2. OnDisk' = OnDisk
      BY <3>1, NoFileIsAFile DEF OnDisk
    <3>. QED BY <2>1, <3>1, <3>2, NoFileIsAFile DEF Index!Restore, Index!Next
  <2>3. CASE mig = "written"
    <3>1. file = V3File(Contents(backup)) /\ file' = backup /\ backup' = NoFile
      BY <1>10, <2>3 DEF MigrateFails, IInv, MigrationIsFaithful
    <3>2. OnDisk = Records(backup) /\ file.fmt = "v3"
      BY <1>0, <3>1, ContentsAreRecords, V3FileRecords DEF OnDisk
    <3>3. backup.fmt # "none"
      BY <2>3 DEF IInv, MigrationIsFaithful
    <3>. QED BY <2>1, <3>1, <3>2, <3>3 DEF OnDisk, Index!vars
  <2>. QED BY <1>10, <2>2, <2>3 DEF MigrateFails
<1>11. ASSUME NEW keep \in BOOLEAN, MigrateEnds(keep) PROVE UNCHANGED Index!vars
  <2>1. file.fmt = "v3" /\ file' = file
    BY <1>0, <1>11, ContentsAreRecords, V3FileRecords DEF MigrateEnds, IInv, MigrationIsFaithful
  <2>. QED BY <1>11, <2>1 DEF MigrateEnds, handle, Merged, OnDisk, Index!vars
<1>12. CASE MigrateDies
  BY <1>12 DEF MigrateDies, handle, Merged, OnDisk, Index!vars
<1>13. CASE MigrateInPlace
  <2>1. OnDisk = Records(file) /\ file.fmt # "none"
    BY <1>13 DEF MigrateInPlace, OnDisk
  <2>2. OnDisk' = Contents(file) /\ file'.fmt = "v3"
    BY <1>0, <1>13, ContentsAreRecords, V3FileRecords DEF MigrateInPlace, OnDisk
  <2>. QED BY <1>0, <1>13, <2>1, <2>2, ContentsAreRecords
           DEF MigrateInPlace, handle, Merged, Index!vars
<1>14. CASE UNCHANGED vars
  BY <1>14 DEF vars, handle, Merged, OnDisk, Index!vars
<1>. QED BY <1>1, <1>2, <1>3, <1>4, <1>5, <1>6, <1>7, <1>8, <1>9, <1>10, <1>11, <1>12,
            <1>13, <1>14 DEF Next, Migrate

\* The layered exact index implements the plain map, whatever the values, the
\* hash function, the segments, the rows and the cache's capacity.
THEOREM ExactIndexRefines == Spec => ImplementsValueIndex
<1>1. Spec => []IInv
  BY InitIInv, NextIInv, PTL DEF Spec
<1>2. QED
  BY <1>1, InitRefines, NextRefines, PTL DEF Spec, ImplementsValueIndex, Index!Spec

-----------------------------------------------------------------------------
(* Numbers, sets and loops *)

\* A non-empty set of naturals has a least element.
LEMMA LeastNat ==
    ASSUME NEW T \in SUBSET Nat, T # {}
    PROVE  \E x \in T : \A y \in T : x <= y
<1>1. \E x \in T : \A y \in T : ~ (<<y, x>> \in OpToRel(<, Nat))
  BY NatLessThanWellFounded, WFMin
<1>2. PICK x \in T : \A y \in T : ~ (<<y, x>> \in OpToRel(<, Nat))
  BY <1>1
<1>3. \A y \in T : ~ (y < x)
  BY <1>2 DEF OpToRel
<1> QED
  BY <1>3

\* A non-empty bounded set of naturals has a greatest element.
LEMMA GreatestNat ==
    ASSUME NEW T \in SUBSET Nat, T # {}, NEW B \in Nat, \A x \in T : x <= B
    PROVE  \E x \in T : \A y \in T : y <= x
<1> DEFINE U == {b \in Nat : \A x \in T : x <= b}
<1>1. U \in SUBSET Nat /\ U # {}
  OBVIOUS
<1>2. PICK u \in U : \A y \in U : u <= y
  BY <1>1, LeastNat
<1>3. ASSUME u \notin T PROVE FALSE
  <2>1. PICK z \in T : TRUE
    OBVIOUS
  <2>2. u \in Nat /\ u > 0 /\ \A x \in T : x < u
    BY <1>3, <2>1
  <2>3. u - 1 \in U
    BY <2>2
  <2> QED
    BY <1>2, <2>2, <2>3
<1> QED
  BY <1>2, <1>3

\* Induction up to a bound, for a set.
LEMMA UpTo ==
    ASSUME NEW N \in Nat, NEW Good, 0 \in Good,
           \A k \in 1 .. N : k - 1 \in Good => k \in Good
    PROVE  \A k \in 0 .. N : k \in Good
<1> DEFINE Bad == {k \in 0 .. N : k \notin Good}
<1>1. SUFFICES ASSUME Bad # {} PROVE FALSE
  OBVIOUS
<1>2. PICK k \in Bad : \A m \in Bad : k <= m
  <2>1. Bad \in SUBSET Nat
    OBVIOUS
  <2> HIDE DEF Bad
  <2> QED
    BY <1>1, <2>1, LeastNat
<1>3. k \in 1 .. N /\ k - 1 \in 0 .. N /\ k \notin Good
  OBVIOUS
<1>4. k - 1 \in Good
  BY <1>2, <1>3
<1> QED
  BY <1>3, <1>4

\* Min of two numbers.
LEMMA MinOfTwo ==
    ASSUME NEW a \in Nat, NEW b \in Nat
    PROVE  Min({a, b}) = IF a <= b THEN a ELSE b
<1> DEFINE m == IF a <= b THEN a ELSE b
<1>1. m \in {a, b} /\ \A y \in {a, b} : m =< y
  OBVIOUS
<1>2. \A x \in {a, b} : (\A y \in {a, b} : x =< y) => x = m
  OBVIOUS
<1> HIDE DEF m
<1>3. Min({a, b}) = m
  BY <1>1, <1>2 DEF Min
<1> QED
  BY <1>3 DEF m

\* A list without repetitions has as many members as places.
LEMMA ListCount ==
    ASSUME NEW n \in Nat, NEW S, NEW f \in [1 .. n -> S], IsInjective(f)
    PROVE  IsFiniteSet(Range(f)) /\ Cardinality(Range(f)) = n
<1>1. IsFiniteSet(1 .. n) /\ Cardinality(1 .. n) = n
  BY FS_Interval
<1>2. f \in Surjection(1 .. n, Range(f)) /\ f \in Injection(1 .. n, Range(f))
  BY DEF Range, Surjection, Injection, IsInjective
<1> QED
  BY <1>1, <1>2, FS_Surjection

\* A list of members of S, as long as S has members and without repetitions, has
\* them all.
LEMMA ListIsOnto ==
    ASSUME NEW S, IsFiniteSet(S), NEW f \in [1 .. Cardinality(S) -> S], IsInjective(f)
    PROVE  Range(f) = S
<1>1. Cardinality(S) \in Nat
  BY FS_CardinalityType
<1>2. Cardinality(Range(f)) = Cardinality(S)
  BY <1>1, ListCount
<1>3. Range(f) \in SUBSET S
  BY DEF Range
<1> QED
  BY <1>2, <1>3, FS_Subset

\* The order of decimal strings is a strict total order.
LEMMA StrOrder ==
    ASSUME NEW a \in Number, NEW b \in Number, NEW c \in Number
    PROVE  /\ ~ StrLess(a, a)
           /\ a = b \/ StrLess(a, b) \/ StrLess(b, a)
           /\ StrLess(a, b) => ~ StrLess(b, a)
           /\ StrLess(a, b) /\ StrLess(b, c) => StrLess(a, c)
           /\ ~ StrLess(a, b) /\ ~ StrLess(b, c) => ~ StrLess(a, c)
<1>1. First(a) \in Nat /\ First(b) \in Nat /\ First(c) \in Nat
  BY DEF First, Number
<1> QED
  BY <1>1 DEF StrLess, Number

\* The ends of a zone: least and greatest value in the order of strings.
LEMMA ZoneEnds ==
    ASSUME NEW zone \in SUBSET Number, zone # {}
    PROVE  /\ \E v \in zone : \A u \in zone : ~StrLess(u, v)
           /\ \E v \in zone : \A u \in zone : ~StrLess(v, u)
<1> DEFINE T == {First(v) : v \in zone}
<1>1. \A v \in zone : First(v) \in Nat /\ First(v) <= 99 /\ v \in Nat /\ v <= 99
  BY DEF First, Number
<1>2. T \in SUBSET Nat /\ T # {} /\ (\A x \in T : x <= 99) /\ 99 \in Nat
  BY <1>1
<1>3. \E v \in zone : \A u \in zone : ~StrLess(u, v)
  <2>1. PICK x \in T : \A y \in T : x <= y
    <3> HIDE DEF T
    <3> QED BY <1>2, LeastNat
  <2> DEFINE W == {v \in zone : First(v) = x}
  <2>2. W \in SUBSET Nat /\ W # {}
    BY <1>1, <2>1
  <2>3. PICK v \in W : \A w \in W : v <= w
    <3> HIDE DEF W
    <3> QED BY <2>2, LeastNat
  <2>4. ASSUME NEW u \in zone PROVE ~StrLess(u, v)
    <3>1. x <= First(u) /\ First(v) = x /\ (First(u) = x => v <= u)
      BY <2>1, <2>3
    <3> QED
      BY <1>1, <3>1 DEF StrLess
  <2> QED
    BY <2>3, <2>4
<1>4. \E v \in zone : \A u \in zone : ~StrLess(v, u)
  <2>1. PICK x \in T : \A y \in T : y <= x
    <3> HIDE DEF T
    <3> QED BY <1>2, GreatestNat
  <2> DEFINE W == {v \in zone : First(v) = x}
  <2>2. W \in SUBSET Nat /\ W # {} /\ (\A w \in W : w <= 99) /\ 99 \in Nat
    BY <1>1, <2>1
  <2>3. PICK v \in W : \A w \in W : w <= v
    <3> HIDE DEF W
    <3> QED BY <2>2, GreatestNat
  <2>4. ASSUME NEW u \in zone PROVE ~StrLess(v, u)
    <3>1. First(u) <= x /\ First(v) = x /\ (First(u) = x => u <= v)
      BY <2>1, <2>3
    <3> QED
      BY <1>1, <3>1 DEF StrLess
  <2> QED
    BY <2>3, <2>4
<1> QED
  BY <1>3, <1>4

-----------------------------------------------------------------------------
(* The table and the query, which do not change *)

Fixed ==
    /\ s \in Views
    /\ q \in [filters : FilterLists, op : {"And", "Or"}, order : {NoOrder} \cup s.sort, offset : 0 .. MaxOffset]

\* The key of a row, as the primary index has it.
KeyOf(l) == [i \in DOMAIN s.pk |-> s.rows[l][s.pk[i]]]

\* What IsView says of the table in use.
LEMMA TableFacts ==
    ASSUME Fixed
    PROVE  /\ Live \subseteq DOMAIN s.rows /\ Live \subseteq s.bm /\ s.bm \subseteq DOMAIN s.rows
           /\ \A l \in DOMAIN s.rows : /\ l[1] \in Nat /\ l[2] \in Nat /\ l = <<l[1], l[2]>>
                                       /\ l[1] <= s.active
                                       /\ \A c \in Field : s.rows[l][c] \in Number
           /\ s.mm \subseteq DOMAIN s.rows /\ \A k \in s.mm, l \in Live : k[1] = l[1] => l \in s.mm
           /\ \A c \in Field : ~IsPk(c) /\ c \notin s.skip =>
                /\ \A l \in Live : l[1] # s.active => <<s.rows[l][c], l>> \in s.exact[c]
                /\ \A p \in s.exact[c] : p[2] \in Live => p[1] = s.rows[p[2]][c]
           /\ \A l \in Live : KeyOf(l) \in DOMAIN s.index /\ s.index[KeyOf(l)] = l
           /\ \A k \in DOMAIN s.index : s.index[k] \in Live /\ KeyOf(s.index[k]) = k
           /\ s.pk \in Seq(Field) /\ s.pk # <<>> /\ s.active \in Nat /\ s.sort \subseteq Field
           /\ IsFiniteSet(DOMAIN s.rows)
<1>1. IsView(s)
  BY ViewsAreTables DEF Fixed
<1>2. /\ DOMAIN s.rows \subseteq Nat \X Nat /\ IsFiniteSet(DOMAIN s.rows)
      /\ \A l \in DOMAIN s.rows : s.rows[l] \in [Field -> Number] /\ l[1] <= s.active
      /\ s.active \in Nat /\ s.sort \subseteq Field
      /\ Live \subseteq s.bm /\ s.bm \subseteq DOMAIN s.rows
      /\ s.mm \subseteq DOMAIN s.rows /\ \A k \in s.mm, l \in Live : k[1] = l[1] => l \in s.mm
      /\ s.pk \in Seq(Field) /\ s.pk # <<>>
  BY <1>1 DEF IsView, Live
<1>3. \A c \in Field \ (Range(s.pk) \cup s.skip) :
         /\ \A l \in Live : l[1] # s.active => <<s.rows[l][c], l>> \in s.exact[c]
         /\ \A p \in s.exact[c] : p[2] \in Live => p[1] = s.rows[p[2]][c]
  BY <1>1 DEF IsView, Live
<1>4. /\ \A l \in Live : KeyOf(l) \in DOMAIN s.index /\ s.index[KeyOf(l)] = l
      /\ \A k \in DOMAIN s.index : s.index[k] \in Live /\ KeyOf(s.index[k]) = k
  BY <1>1 DEF IsView, Live, KeyOf
<1>5. \A l \in DOMAIN s.rows : /\ l[1] \in Nat /\ l[2] \in Nat /\ l = <<l[1], l[2]>>
                               /\ l[1] <= s.active
                               /\ \A c \in Field : s.rows[l][c] \in Number
  BY <1>2
<1>6. Live \subseteq DOMAIN s.rows
  BY DEF Live
<1>7. \A c \in Field : ~IsPk(c) /\ c \notin s.skip =>
         /\ \A l \in Live : l[1] # s.active => <<s.rows[l][c], l>> \in s.exact[c]
         /\ \A p \in s.exact[c] : p[2] \in Live => p[1] = s.rows[p[2]][c]
  BY <1>3 DEF IsPk
<1> QED
  BY <1>2, <1>4, <1>5, <1>6, <1>7

\* What the query is.
LEMMA QueryFacts ==
    ASSUME Fixed
    PROVE  /\ q.filters \in Seq(Filters) /\ Len(q.filters) \in Nat
           /\ DOMAIN q.filters = 1 .. Len(q.filters)
           /\ \A i \in DOMAIN q.filters : q.filters[i] \in Given
           /\ \A f \in Given : f \in Filters /\ \E i \in DOMAIN q.filters : q.filters[i] = f
           /\ q.filters = <<>> <=> Given = {}
           /\ q.op \in {"And", "Or"} /\ q.order \in {NoOrder} \cup s.sort
           /\ q.offset \in Nat
<1>1. q.filters \in FilterLists /\ q.op \in {"And", "Or"} /\ q.order \in {NoOrder} \cup s.sort
      /\ q.offset \in 0 .. MaxOffset
  BY DEF Fixed
<1>2. PICK n \in 0 .. MaxFilters : q.filters \in [1 .. n -> Filters]
  BY <1>1 DEF FilterLists
<1>3. n \in Nat
  BY <1>2, BoundsAreNumbers
<1>4. q.filters \in Seq(Filters) /\ Len(q.filters) = n /\ DOMAIN q.filters = 1 .. n
  BY <1>2, <1>3
<1>5. q.filters = <<>> <=> Given = {}
  <2>1. CASE n = 0
    BY <1>4, <2>1 DEF Given, Range
  <2>2. CASE n # 0
    <3>1. 1 \in DOMAIN q.filters
      BY <1>3, <1>4, <2>2
    <3>2. Given # {}
      BY <3>1 DEF Given, Range
    <3>3. q.filters # <<>>
      BY <1>4, <2>2
    <3> QED
      BY <3>2, <3>3
  <2> QED
    BY <2>1, <2>2
<1>6. /\ \A i \in DOMAIN q.filters : q.filters[i] \in Given
      /\ \A f \in Given : f \in Filters /\ \E i \in DOMAIN q.filters : q.filters[i] = f
  BY <1>2 DEF Given, Range
<1>7. q.offset \in Nat
  BY <1>1, BoundsAreNumbers
<1> QED
  BY <1>1, <1>3, <1>4, <1>5, <1>6, <1>7

\* What a filter is.
LEMMA FilterFacts ==
    ASSUME NEW f \in Filters
    PROVE  f.field \in Field /\ f.op \in Ops /\ f.value \in Number /\ f.to \in Number
           /\ f.options \subseteq Number
BY FiltersAreFilters

-----------------------------------------------------------------------------
(* Scans *)

\* The numbers of the order filter compare like their strings.
InOrder(f) ==
    \A l \in DOMAIN s.rows :
        f.op \in {"Gt", "Gte", "Lt", "Lte", "Between"} =>
            \A w \in {f.value, f.to} \ {s.rows[l][f.field]} :
                StrLess(s.rows[l][f.field], w) <=> s.rows[l][f.field] < w

\* A zone map does not rule out the segment of a live row that the filter holds for.
LEMMA ZoneKeepsMatches ==
    ASSUME Fixed, NEW f \in Filters, InOrder(f), NEW l \in Live, Holds(s.rows[l][f.field], f)
    PROVE  ~Skips(l[1], f)
<1> DEFINE zone == {s.rows[m][f.field] : m \in {k \in s.mm : k[1] = l[1]}}
           min == CHOOSE v \in zone : \A u \in zone : ~StrLess(u, v)
           max == CHOOSE v \in zone : \A u \in zone : ~StrLess(v, u)
           v == s.rows[l][f.field]
<1>1. SUFFICES ASSUME zone # {}
               PROVE  ~(CASE f.op = "Eq" -> StrLess(f.value, min) \/ StrLess(max, f.value)
                          [] f.op = "Gt" -> ~StrLess(f.value, max)
                          [] f.op = "Gte" -> StrLess(max, f.value)
                          [] f.op = "Lt" -> ~StrLess(min, f.value)
                          [] f.op = "Lte" -> StrLess(f.value, min)
                          [] f.op = "Between" -> max < f.value \/ min > f.to
                          [] OTHER -> FALSE)
  BY DEF Skips
<1>2. f.field \in Field /\ f.op \in Ops /\ f.value \in Number /\ f.to \in Number
  BY FilterFacts
<1>3. /\ s.mm \subseteq DOMAIN s.rows /\ l \in DOMAIN s.rows
      /\ \A k \in s.mm : k[1] = l[1] => l \in s.mm
      /\ \A m \in DOMAIN s.rows : s.rows[m][f.field] \in Number
  BY <1>2, TableFacts
<1>4. zone \in SUBSET Number /\ v \in zone
  BY <1>1, <1>3
<1>5. \A u \in zone : \E m \in DOMAIN s.rows : u = s.rows[m][f.field]
  BY <1>3
<1> HIDE DEF zone
<1>6. ASSUME NEW u \in zone, f.op \in {"Gt", "Gte", "Lt", "Lte", "Between"}, NEW w \in {f.value, f.to}
      PROVE  (StrLess(u, w) <=> u < w) /\ (StrLess(w, u) <=> w < u)
  <2>1. u # w => (StrLess(u, w) <=> u < w)
    BY <1>5, <1>6 DEF InOrder
  <2>2. u \in Number /\ w \in Number /\ u \in Nat /\ w \in Nat
    BY <1>2, <1>4, <1>6 DEF Number
  <2>3. ~StrLess(u, u) /\ (u = w \/ StrLess(u, w) \/ StrLess(w, u))
        /\ (StrLess(u, w) => ~StrLess(w, u))
    BY <2>2, StrOrder
  <2> QED
    BY <2>1, <2>2, <2>3
<1>7. /\ min \in zone /\ \A u \in zone : ~StrLess(u, min)
      /\ max \in zone /\ \A u \in zone : ~StrLess(max, u)
  BY <1>1, <1>4, ZoneEnds
<1> HIDE DEF min, max, v
<1>8. min \in Number /\ max \in Number /\ v \in Number /\ ~StrLess(v, min) /\ ~StrLess(max, v)
  BY <1>4, <1>7
<1>9. Holds(v, f)
  BY DEF v
<1>10. v \in Nat /\ f.value \in Nat /\ f.to \in Nat /\ min \in Nat /\ max \in Nat
  BY <1>2, <1>8 DEF Number
<1>11. CASE f.op = "Eq"
  BY <1>8, <1>9, <1>11 DEF Holds
<1>12. CASE f.op = "Gt"
  <2>1. v > f.value
    BY <1>9, <1>12 DEF Holds
  <2>2. StrLess(f.value, v)
    BY <1>4, <1>6, <1>10, <1>12, <2>1
  <2> QED
    BY <1>2, <1>8, <1>12, <2>2, StrOrder
<1>13. CASE f.op = "Gte"
  <2>1. v >= f.value
    BY <1>9, <1>13 DEF Holds
  <2>2. ~StrLess(v, f.value)
    BY <1>4, <1>6, <1>10, <1>13, <2>1
  <2> QED
    BY <1>2, <1>8, <1>13, <2>2, StrOrder
<1>14. CASE f.op = "Lt"
  <2>1. v < f.value
    BY <1>9, <1>14 DEF Holds
  <2>2. StrLess(v, f.value)
    BY <1>4, <1>6, <1>10, <1>14, <2>1
  <2> QED
    BY <1>2, <1>8, <1>14, <2>2, StrOrder
<1>15. CASE f.op = "Lte"
  <2>1. v <= f.value
    BY <1>9, <1>15 DEF Holds
  <2>2. ~StrLess(f.value, v)
    BY <1>4, <1>6, <1>10, <1>15, <2>1
  <2> QED
    BY <1>2, <1>8, <1>15, <2>2, StrOrder
<1>16. CASE f.op = "Between"
  <2>1. f.value <= v /\ v <= f.to
    BY <1>9, <1>16 DEF Holds
  <2>2. ~StrLess(v, f.value) /\ ~StrLess(f.to, v)
    BY <1>4, <1>6, <1>10, <1>16, <2>1
  <2>3. ~StrLess(max, f.value) /\ ~StrLess(f.to, min)
    BY <1>2, <1>8, <2>2, StrOrder
  <2>4. ~(max < f.value)
    BY <1>6, <1>7, <1>10, <1>16, <2>3
  <2>5. ~(min > f.to)
    BY <1>6, <1>7, <1>10, <1>16, <2>3
  <2> QED
    BY <1>16, <2>4, <2>5
<1>17. CASE f.op \in {"Ne", "In", "NotIn"}
  BY <1>17
<1> QED
  BY <1>2, <1>11, <1>12, <1>13, <1>14, <1>15, <1>16, <1>17 DEF Ops

\* A scan returns live rows, each of which satisfies the filters.
LEMMA ScanIsSound ==
    ASSUME Fixed, NEW filters, NEW op, NEW l \in Scan(filters, op)
    PROVE  l \in Live /\ (filters = {} \/ Satisfies(s.rows[l], filters, op))
<1>1. PICK seg \in Segments : l \in ScanSegment(seg, filters, op)
  BY DEF Scan
<1>2. l \in s.bm \cup DOMAIN s.rows /\ l \notin s.dead
      /\ (filters = {} \/ Satisfies(s.rows[l], filters, op))
  BY <1>1 DEF ScanSegment
<1>3. l \in DOMAIN s.rows
  BY <1>2, TableFacts
<1> QED
  BY <1>2, <1>3 DEF Live

\* A scan meets every live row that satisfies the filters, if no zone map rules its
\* segment out.
LEMMA ScanMeets ==
    ASSUME Fixed, NEW filters, NEW op, NEW l \in Live,
           filters = {} \/ Satisfies(s.rows[l], filters, op), \A f \in filters : ~Skips(l[1], f)
    PROVE  l \in Scan(filters, op)
<1>1. l \in s.bm /\ l \in DOMAIN s.rows /\ l \notin s.dead
  BY TableFacts DEF Live
<1>2. l \in ScanSegment(l[1], filters, op)
  BY <1>1 DEF ScanSegment
<1>3. l[1] \in Segments
  BY <1>1 DEF Segments
<1> QED
  BY <1>2, <1>3 DEF Scan

\* A scan for filters that all hold for a live row returns it.
LEMMA ScanFindsAll ==
    ASSUME Fixed, NEW filters \in SUBSET Filters, NEW op, NEW l \in Live,
           \A f \in filters : InOrder(f) /\ Holds(s.rows[l][f.field], f)
    PROVE  l \in Scan(filters, op)
<1>1. \A f \in filters : ~Skips(l[1], f)
  BY ZoneKeepsMatches
<1>2. filters = {} \/ Satisfies(s.rows[l], filters, op)
  BY DEF Satisfies
<1> QED
  BY <1>1, <1>2, ScanMeets

\* Without zone maps, a scan returns every live row that satisfies the filters.
LEMMA ScanFindsAny ==
    ASSUME Fixed, s.mm = {}, NEW filters, NEW op, NEW l \in Live,
           filters = {} \/ Satisfies(s.rows[l], filters, op)
    PROVE  l \in Scan(filters, op)
<1>1. \A f \in filters : ~Skips(l[1], f)
  BY DEF Skips
<1> QED
  BY <1>1, ScanMeets

-----------------------------------------------------------------------------
(* Exact indexes *)

\* What an index lists under a value and is alive has that value; and it lists
\* every live row that has it, unless the column is skipped.
LEMMA HitsAreMatches ==
    ASSUME Fixed, NEW c \in Field, ~IsPk(c), NEW v
    PROVE  /\ \A l \in Hits(c, v) \cap Live : s.rows[l][c] = v
           /\ c \notin s.skip => \A l \in Live : s.rows[l][c] = v => l \in Hits(c, v)
<1>1. ASSUME NEW l \in Hits(c, v) \cap Live PROVE s.rows[l][c] = v
  <2>1. CASE l \in {p[2] : p \in {e \in LoadExactIndex(c) : e[1] = v}}
    <3>1. PICK p \in LoadExactIndex(c) : p[1] = v /\ p[2] = l
      BY <2>1
    <3>2. c \notin s.skip /\ p \in s.exact[c]
      BY <3>1 DEF LoadExactIndex
    <3> QED
      BY <1>1, <3>1, <3>2, TableFacts
  <2>2. CASE l \in {k \in s.bm : k[1] = s.active /\ s.rows[k][c] = v}
    BY <2>2
  <2> QED
    BY <1>1, <2>1, <2>2 DEF Hits
<1>2. ASSUME c \notin s.skip, NEW l \in Live, s.rows[l][c] = v PROVE l \in Hits(c, v)
  <2>1. CASE l[1] = s.active
    <3>1. l \in s.bm
      BY TableFacts
    <3> QED
      BY <1>2, <2>1, <3>1 DEF Hits
  <2>2. CASE l[1] # s.active
    <3>1. <<v, l>> \in s.exact[c]
      BY <1>2, <2>2, TableFacts
    <3>2. <<v, l>> \in {e \in LoadExactIndex(c) : e[1] = v}
      BY <1>2, <3>1 DEF LoadExactIndex
    <3>3. l \in {p[2] : p \in {e \in LoadExactIndex(c) : e[1] = v}}
      BY <3>2
    <3> QED
      BY <3>3 DEF Hits
  <2> QED
    BY <2>1, <2>2
<1> QED
  BY <1>1, <1>2

\* One lookup: at most one answer, of live rows for which the filter holds, and of
\* all of them unless the column is skipped.
LEMMA LookupIsRight ==
    ASSUME Fixed, NEW f \in Filters, IsLookup(f), ~IsPk(f.field)
    PROVE  /\ \A A \in Lookup(f) : Lookup(f) = {A}
           /\ \A A \in Lookup(f) : A \subseteq Live /\ \A l \in A : Holds(s.rows[l][f.field], f)
           /\ f.field \notin s.skip => \A l \in Live : Holds(s.rows[l][f.field], f)
                  => Lookup(f) # {} /\ \A A \in Lookup(f) : l \in A
<1>1. f.field \in Field
  BY FilterFacts
<1>2. \A v : /\ \A l \in Hits(f.field, v) \cap Live : s.rows[l][f.field] = v
             /\ f.field \notin s.skip => \A l \in Live : s.rows[l][f.field] = v => l \in Hits(f.field, v)
  BY <1>1, HitsAreMatches
<1>3. CASE f.op = "Eq"
  <2>1. Lookup(f) = OneValue(f.field, f.value)
    BY <1>3 DEF Lookup
  <2>2. \A v : Holds(v, f) <=> v = f.value
    BY <1>3 DEF Holds
  <2> DEFINE H == Hits(f.field, f.value)
  <2>3. Lookup(f) = IF H = {} THEN {} ELSE {H \cap Live}
    BY <2>1 DEF OneValue
  <2>4. /\ \A l \in H \cap Live : Holds(s.rows[l][f.field], f)
        /\ f.field \notin s.skip => \A l \in Live : Holds(s.rows[l][f.field], f) => l \in H
    BY <1>2, <2>2
  <2> HIDE DEF H
  <2> QED
    BY <2>3, <2>4
<1>4. CASE f.op = "In"
  <2> DEFINE found == UNION {OneValue(f.field, v) : v \in f.options}
  <2>1. Lookup(f) = IF f.options = {} THEN {{}} ELSE IF found = {} THEN {} ELSE {UNION found}
    BY <1>4 DEF Lookup, AnyValue
  <2>2. \A v : Holds(v, f) <=> v \in f.options
    BY <1>4 DEF Holds
  <2>3. \A A \in found : A \subseteq Live /\ \A l \in A : Holds(s.rows[l][f.field], f)
    BY <1>2, <2>2 DEF OneValue
  <2>4. ASSUME f.field \notin s.skip, NEW l \in Live, Holds(s.rows[l][f.field], f)
        PROVE  f.options # {} /\ \E A \in found : l \in A
    <3> DEFINE v == s.rows[l][f.field]
    <3>1. v \in f.options
      BY <2>2, <2>4
    <3>2. l \in Hits(f.field, v)
      BY <1>2, <2>4
    <3>3. Hits(f.field, v) \cap Live \in OneValue(f.field, v)
      BY <3>2 DEF OneValue
    <3> HIDE DEF v
    <3>4. Hits(f.field, v) \cap Live \in found
      BY <3>1, <3>3
    <3> HIDE DEF found
    <3> QED
      BY <2>4, <3>1, <3>2, <3>4
  <2> HIDE DEF found
  <2> QED
    BY <2>1, <2>3, <2>4
<1> QED
  BY <1>3, <1>4 DEF IsLookup

\* The loop of exact_matches_for_eq_filters: g gives what is known after each of
\* the first k filters.
ExactLoop(g, k, filters) ==
    g = [n \in 0 .. k |-> IF n = 0 THEN [found |-> {}, stop |-> FALSE] ELSE ExactStep(g[n - 1], filters[n])]

\* It has a result, ...
LEMMA ExactLoopRuns ==
    ASSUME NEW filters, NEW N \in Nat
    PROVE  \E g : ExactLoop(g, N, filters)
<1> DEFINE none == [found |-> {}, stop |-> FALSE]
           Good == {k \in Nat : \E g : ExactLoop(g, k, filters)}
<1>1. 0 \in Good
  <2> DEFINE g == [n \in 0 .. 0 |-> none]
  <2>1. g = [n \in 0 .. 0 |-> IF n = 0 THEN none ELSE ExactStep(g[n - 1], filters[n])]
    OBVIOUS
  <2> QED
    BY <2>1 DEF ExactLoop
<1>2. ASSUME NEW k \in 1 .. N, k - 1 \in Good PROVE k \in Good
  <2>1. PICK f : ExactLoop(f, k - 1, filters)
    BY <1>2
  <2> DEFINE g == [n \in 0 .. k |-> IF n = k THEN ExactStep(f[k - 1], filters[k]) ELSE f[n]]
  <2>2. ASSUME NEW n \in 0 .. k
        PROVE  g[n] = IF n = 0 THEN none ELSE ExactStep(g[n - 1], filters[n])
    <3>1. CASE n = k
      BY <3>1
    <3>2. CASE n # k
      <4>1. n \in 0 .. k - 1 /\ (n # 0 => n - 1 \in 0 .. k - 1 /\ n - 1 # k)
        BY <3>2
      <4>2. g[n] = f[n] /\ (n # 0 => g[n - 1] = f[n - 1])
        BY <3>2, <4>1
      <4>3. f[n] = IF n = 0 THEN none ELSE ExactStep(f[n - 1], filters[n])
        BY <2>1, <4>1 DEF ExactLoop
      <4> HIDE DEF g
      <4> QED
        BY <4>2, <4>3
    <3> QED
      BY <3>1, <3>2
  <2>3. g = [n \in 0 .. k |-> g[n]]
    OBVIOUS
  <2> HIDE DEF g
  <2>4. ExactLoop(g, k, filters)
    BY <2>2, <2>3 DEF ExactLoop
  <2> QED
    BY <2>4
<1>3. N \in Good
  <2> HIDE DEF Good
  <2>1. \A k \in 0 .. N : k \in Good
    BY <1>1, <1>2, UpTo
  <2> QED
    BY <2>1
<1> QED
  BY <1>3

\* ... reached filter by filter.
LEMMA ExactSteps ==
    ASSUME NEW filters, Len(filters) \in Nat
    PROVE  \E g : /\ g[0] = [found |-> {}, stop |-> FALSE] /\ ExactMatches(filters) = g[Len(filters)].found
                  /\ \A k \in 1 .. Len(filters) : g[k] = ExactStep(g[k - 1], filters[k])
<1> DEFINE none == [found |-> {}, stop |-> FALSE]
           g == CHOOSE g : g = [n \in 0 .. Len(filters) |-> IF n = 0 THEN none ELSE ExactStep(g[n - 1], filters[n])]
<1>1. ExactMatches(filters) = g[Len(filters)].found
  BY DEF ExactMatches
<1>2. \E h : h = [n \in 0 .. Len(filters) |-> IF n = 0 THEN none ELSE ExactStep(h[n - 1], filters[n])]
  <2>1. \E h : ExactLoop(h, Len(filters), filters)
    BY ExactLoopRuns
  <2> QED
    BY <2>1 DEF ExactLoop
<1>3. g = [n \in 0 .. Len(filters) |-> IF n = 0 THEN none ELSE ExactStep(g[n - 1], filters[n])]
  BY <1>2, Zenon
<1> HIDE DEF g
<1>4. g[0] = none
  BY <1>3
<1>5. ASSUME NEW k \in 1 .. Len(filters) PROVE g[k] = ExactStep(g[k - 1], filters[k])
  <2>1. k \in 0 .. Len(filters) /\ k # 0
    OBVIOUS
  <2> QED
    BY <1>3, <2>1
<1> QED
  BY <1>1, <1>4, <1>5

\* What the loop knows after some filters: at most one answer, of live rows; a row
\* for which every filter holds is in it.
Known(a) ==
    /\ \A A \in a.found : a.found = {A} /\ A \subseteq Live
    /\ NoSkippedLookup =>
         \A l \in Live : (\A f \in Given : Holds(s.rows[l][f.field], f)) => \A A \in a.found : l \in A

\* It has an answer only after a lookup, and then, unless an In that found nothing
\* comes late, the lookups so far hold for the rows of the answer.
Narrow(a, k) ==
    /\ a.found # {} => \E i \in 1 .. k : IsLookup(q.filters[i])
    /\ a.stop => a.found = {} \/ a.found = {{}}
    /\ ~a.stop /\ a.found = {} => \A i \in 1 .. k : IsLookup(q.filters[i]) => IsPk(q.filters[i].field)
    /\ \A A \in a.found : \A l \in A : \A i \in 1 .. k :
         IsLookup(q.filters[i]) /\ ~IsPk(q.filters[i].field)
             => Holds(s.rows[l][q.filters[i].field], q.filters[i])

\* One turn of the loop.
LEMMA ExactStepKnows ==
    ASSUME Fixed, NEW a, Known(a), NEW f \in Given
    PROVE  Known(ExactStep(a, f))
<1> DEFINE both == {IF a.found = {} THEN now ELSE now \cap UNION a.found : now \in Lookup(f)}
           b == ExactStep(a, f)
<1>1. CASE a.stop \/ ~IsLookup(f) \/ IsPk(f.field)
  BY <1>1 DEF ExactStep
<1>2. CASE ~(a.stop \/ ~IsLookup(f) \/ IsPk(f.field))
  <2>1. f \in Filters
    BY QueryFacts
  <2>2. /\ \A A \in Lookup(f) : Lookup(f) = {A}
        /\ \A A \in Lookup(f) : A \subseteq Live /\ \A l \in A : Holds(s.rows[l][f.field], f)
        /\ f.field \notin s.skip => \A l \in Live : Holds(s.rows[l][f.field], f)
                  => Lookup(f) # {} /\ \A A \in Lookup(f) : l \in A
    BY <1>2, <2>1, LookupIsRight
  <2>3. CASE Lookup(f) = {}
    <3>1. b.found = a.found \/ b.found = {}
      BY <1>2, <2>3 DEF ExactStep
    <3> QED
      BY <3>1 DEF Known
  <2>4. CASE Lookup(f) # {}
    <3>1. PICK A \in Lookup(f) : TRUE
      BY <2>4
    <3>2. b.found = both
      BY <1>2, <2>4 DEF ExactStep
    <3>3. b.found = {IF a.found = {} THEN A ELSE A \cap UNION a.found}
      BY <2>2, <3>1, <3>2
    <3>4. NoSkippedLookup => f.field \notin s.skip
      BY <1>2 DEF NoSkippedLookup
    <3>5. ASSUME NEW B \in b.found PROVE b.found = {B} /\ B \subseteq Live
      BY <2>2, <3>1, <3>3
    <3>6. ASSUME NoSkippedLookup, NEW l \in Live, \A h \in Given : Holds(s.rows[l][h.field], h), NEW B \in b.found
          PROVE  l \in B
      <4>1. l \in A
        BY <2>2, <3>1, <3>4, <3>6
      <4>2. CASE a.found = {}
        BY <3>3, <3>6, <4>1, <4>2
      <4>3. CASE a.found # {}
        <5>1. PICK C \in a.found : l \in C
          BY <3>6, <4>3 DEF Known
        <5>2. l \in UNION a.found
          BY <5>1
        <5> QED
          BY <3>3, <3>6, <4>1, <4>3, <5>2
      <4> QED
        BY <4>2, <4>3
    <3> QED
      BY <3>5, <3>6 DEF Known
  <2> QED
    BY <2>3, <2>4
<1> QED
  BY <1>1, <1>2

\* ... and what it has narrowed the rows to.
LEMMA ExactStepNarrows ==
    ASSUME Fixed, HitsBeforeIn, NEW k \in 1 .. Len(q.filters), NEW a, Known(a), Narrow(a, k - 1)
    PROVE  Narrow(ExactStep(a, q.filters[k]), k)
<1> DEFINE f == q.filters[k]
           both == {IF a.found = {} THEN now ELSE now \cap UNION a.found : now \in Lookup(f)}
           b == ExactStep(a, f)
<1>1. k \in DOMAIN q.filters /\ f \in Given /\ f \in Filters /\ k \in 1 .. k /\ k \in Nat
      /\ (\A i \in 1 .. k : i = k \/ i \in 1 .. (k - 1))
      /\ \A i \in 1 .. (k - 1) : i \in 1 .. k /\ i \in DOMAIN q.filters /\ i < k
  BY QueryFacts
<1> HIDE DEF f
<1>2. CASE a.stop \/ ~IsLookup(f) \/ IsPk(f.field)
  <2>1. b = a
    BY <1>2 DEF ExactStep
  <2>2. ASSUME NEW A \in a.found, NEW l \in A, NEW i \in 1 .. k,
               IsLookup(q.filters[i]), ~IsPk(q.filters[i].field)
        PROVE  Holds(s.rows[l][q.filters[i].field], q.filters[i])
    <3>1. CASE a.stop
      BY <2>2, <3>1 DEF Narrow
    <3>2. CASE ~a.stop
      BY <1>1, <1>2, <2>2, <3>2 DEF Narrow, f
    <3> QED
      BY <3>1, <3>2
  <2>3. ~a.stop /\ a.found = {} => \A i \in 1 .. k : IsLookup(q.filters[i]) => IsPk(q.filters[i].field)
    BY <1>1, <1>2 DEF Narrow, f
  <2>4. a.found # {} => \E i \in 1 .. k : IsLookup(q.filters[i])
    BY <1>1 DEF Narrow
  <2>5. a.stop => a.found = {} \/ a.found = {{}}
    BY DEF Narrow
  <2>6. Narrow(a, k)
    BY <2>2, <2>3, <2>4, <2>5 DEF Narrow
  <2> QED
    BY <2>1, <2>6 DEF f
<1>3. CASE ~(a.stop \/ ~IsLookup(f) \/ IsPk(f.field))
  <2>1. /\ \A A \in Lookup(f) : Lookup(f) = {A}
        /\ \A A \in Lookup(f) : A \subseteq Live /\ \A l \in A : Holds(s.rows[l][f.field], f)
    BY <1>1, <1>3, LookupIsRight
  <2>2. CASE Lookup(f) = {}
    <3>1. b = [found |-> IF f.op = "In" THEN a.found ELSE {}, stop |-> TRUE]
      BY <1>3, <2>2 DEF ExactStep
    <3>2. f.op = "In" => a.found = {}
      <4>1. SUFFICES ASSUME f.op = "In", a.found # {} PROVE FALSE
        OBVIOUS
      <4>2. PICK i \in 1 .. (k - 1) : IsLookup(q.filters[i])
        BY <4>1 DEF Narrow
      <4>3. AnyValue(f.field, f.options) = {}
        BY <2>2, <4>1 DEF Lookup
      <4> QED
        BY <1>1, <1>3, <4>1, <4>2, <4>3 DEF HitsBeforeIn, f
    <3>3. b.found = {} /\ b.stop
      BY <3>1, <3>2
    <3>4. Narrow(b, k)
      BY <3>3 DEF Narrow
    <3> QED
      BY <3>4 DEF f
  <2>3. CASE Lookup(f) # {}
    <3>1. PICK A \in Lookup(f) : TRUE
      BY <2>3
    <3>2. b = [found |-> both, stop |-> both = {{}}]
      BY <1>3, <2>3 DEF ExactStep
    <3>3. b.found = {IF a.found = {} THEN A ELSE A \cap UNION a.found}
      BY <2>1, <3>1, <3>2
    <3>4. b.stop => b.found = {{}}
      <4> HIDE DEF both, b
      <4>1. b.stop = (both = {{}}) /\ b.found = both
        BY <3>2, Zenon
      <4> QED
        BY <4>1, Zenon
    <3>5. ASSUME NEW B \in b.found, NEW l \in B, NEW i \in 1 .. k,
                 IsLookup(q.filters[i]), ~IsPk(q.filters[i].field)
          PROVE  Holds(s.rows[l][q.filters[i].field], q.filters[i])
      <4>1. l \in A /\ (a.found # {} => l \in UNION a.found)
        BY <3>3, <3>5
      <4>2. CASE i = k
        BY <2>1, <3>1, <4>1, <4>2 DEF f
      <4>3. CASE i # k
        <5>1. i \in 1 .. (k - 1)
          BY <1>1, <4>3
        <5>2. CASE a.found # {}
          BY <3>5, <4>1, <5>1, <5>2 DEF Narrow
        <5>3. CASE a.found = {}
          BY <1>3, <3>5, <5>1, <5>3 DEF Narrow
        <5> QED
          BY <5>2, <5>3
      <4> QED
        BY <4>2, <4>3
    <3>6. IsLookup(q.filters[k])
      BY <1>3 DEF f
    <3>7. b.found # {}
      BY <3>3
    <3>8. Narrow(b, k)
      <4> HIDE DEF b
      <4> QED
        BY <1>1, <3>4, <3>5, <3>6, <3>7 DEF Narrow
    <3> QED
      BY <3>8 DEF f
  <2> QED
    BY <2>2, <2>3
<1> QED
  BY <1>2, <1>3

\* The exact matches: at most one answer, of live rows, with every row for which
\* all filters hold.
LEMMA ExactIsKnown ==
    ASSUME Fixed
    PROVE  Known([found |-> ExactMatches(q.filters)])
<1> DEFINE N == Len(q.filters)
<1>1. N \in Nat /\ \A k \in 1 .. N : q.filters[k] \in Given
  BY QueryFacts
<1>2. PICK g : /\ g[0] = [found |-> {}, stop |-> FALSE] /\ ExactMatches(q.filters) = g[N].found
               /\ \A k \in 1 .. N : g[k] = ExactStep(g[k - 1], q.filters[k])
  BY <1>1, ExactSteps
<1> HIDE DEF N
<1> DEFINE Good == {k \in Nat : Known(g[k])}
<1>3. 0 \in Good
  BY <1>2 DEF Known
<1>4. ASSUME NEW k \in 1 .. N, k - 1 \in Good PROVE k \in Good
  BY <1>1, <1>2, <1>4, ExactStepKnows
<1>5. N \in Good
  <2> HIDE DEF Good
  <2>1. \A k \in 0 .. N : k \in Good
    BY <1>1, <1>3, <1>4, UpTo
  <2> QED
    BY <1>1, <2>1
<1> QED
  BY <1>2, <1>5 DEF Known

\* If no In that finds nothing comes late, the lookups hold for the exact matches.
LEMMA ExactIsNarrow ==
    ASSUME Fixed, HitsBeforeIn, NEW A \in ExactMatches(q.filters), NEW l \in A,
           NEW f \in Given, IsLookup(f), ~IsPk(f.field)
    PROVE  Holds(s.rows[l][f.field], f)
<1> DEFINE N == Len(q.filters)
<1>1. N \in Nat /\ \A k \in 1 .. N : q.filters[k] \in Given
  BY QueryFacts
<1>2. PICK g : /\ g[0] = [found |-> {}, stop |-> FALSE] /\ ExactMatches(q.filters) = g[N].found
               /\ \A k \in 1 .. N : g[k] = ExactStep(g[k - 1], q.filters[k])
  BY <1>1, ExactSteps
<1>3. PICK i \in 1 .. N : q.filters[i] = f
  BY QueryFacts
<1> DEFINE Good == {k \in Nat : Known(g[k]) /\ Narrow(g[k], k)}
<1>4. 0 \in Good
  BY <1>2 DEF Known, Narrow
<1>5. ASSUME NEW k \in 1 .. N, k - 1 \in Good PROVE k \in Good
  <2>1. k - 1 \in Nat /\ Known(g[k - 1]) /\ Narrow(g[k - 1], k - 1) /\ q.filters[k] \in Given
    BY <1>1, <1>5
  <2>2. Known(ExactStep(g[k - 1], q.filters[k])) /\ Narrow(ExactStep(g[k - 1], q.filters[k]), k)
    BY <2>1, ExactStepKnows, ExactStepNarrows
  <2> QED
    BY <1>2, <2>2
<1> HIDE DEF N
<1>6. N \in Good
  <2> HIDE DEF Good
  <2>1. \A k \in 0 .. N : k \in Good
    BY <1>1, <1>4, <1>5, UpTo
  <2> QED
    BY <1>1, <2>1
<1> QED
  BY <1>2, <1>3, <1>6 DEF Narrow

\* Exact matches, narrowed by a scan for the rest, are alive; rows for which all
\* filters hold are among them.
LEMMA NarrowedIsRight ==
    ASSUME Fixed, Applies, NEW rest \in SUBSET Given
    PROVE  LET found == Narrowed(ExactMatches(q.filters), rest) IN
           /\ found \subseteq Live
           /\ \A l \in found : /\ \E A \in ExactMatches(q.filters) : l \in A
                               /\ \A f \in rest : Holds(s.rows[l][f.field], f)
           /\ NoSkippedLookup /\ NumbersInOrder =>
                \A l \in Live : (\A f \in Given : Holds(s.rows[l][f.field], f)) => l \in found
<1> DEFINE E == ExactMatches(q.filters)
           found == Narrowed(E, rest)
<1>1. /\ \A A \in E : E = {A} /\ A \subseteq Live
      /\ NoSkippedLookup => \A l \in Live : (\A f \in Given : Holds(s.rows[l][f.field], f)) => \A A \in E : l \in A
  BY ExactIsKnown DEF Known
<1>2. E # {}
  BY DEF Applies
<1> HIDE DEF E
<1>3. PICK A \in E : E = {A}
  BY <1>1, <1>2
<1>4. UNION E = A /\ A \subseteq Live
  BY <1>1, <1>3
<1>5. found = IF rest = {} THEN A ELSE A \cap Scan(rest, "And")
  BY <1>4 DEF Narrowed
<1>6. found \subseteq Live
  BY <1>4, <1>5
<1>7. ASSUME NEW l \in found
      PROVE  (\E B \in E : l \in B) /\ \A f \in rest : Holds(s.rows[l][f.field], f)
  <2>1. l \in A
    BY <1>5
  <2>2. CASE rest # {}
    <3>1. l \in Scan(rest, "And")
      BY <1>5, <2>2
    <3>2. Satisfies(s.rows[l], rest, "And")
      BY <2>2, <3>1, ScanIsSound
    <3> QED
      BY <1>3, <2>1, <3>2 DEF Satisfies
  <2> QED
    BY <1>3, <2>1, <2>2
<1>8. ASSUME NoSkippedLookup, NumbersInOrder, NEW l \in Live, \A f \in Given : Holds(s.rows[l][f.field], f)
      PROVE  l \in found
  <2>1. l \in A
    BY <1>1, <1>3, <1>8
  <2>2. \A f \in rest : InOrder(f) /\ Holds(s.rows[l][f.field], f)
    BY <1>8 DEF NumbersInOrder, InOrder
  <2>3. rest \in SUBSET Filters
    BY QueryFacts
  <2>4. l \in Scan(rest, "And")
    BY <2>2, <2>3, ScanFindsAll
  <2> QED
    BY <1>5, <2>1, <2>4
<1> HIDE DEF found
<1>9. /\ found \subseteq Live
      /\ \A l \in found : (\E B \in E : l \in B) /\ \A f \in rest : Holds(s.rows[l][f.field], f)
      /\ NoSkippedLookup /\ NumbersInOrder =>
           \A l \in Live : (\A f \in Given : Holds(s.rows[l][f.field], f)) => l \in found
  BY <1>6, <1>7, <1>8
<1> QED
  BY <1>9 DEF found, E

\* The exact indexes have nothing to say of a query whose only filter is on the key.
LEMMA NothingForTheKey ==
    ASSUME Fixed, \A f \in Given : IsPk(f.field)
    PROVE  ExactMatches(q.filters) = {}
<1> DEFINE N == Len(q.filters)
<1>1. N \in Nat /\ \A k \in 1 .. N : q.filters[k] \in Given
  BY QueryFacts
<1>2. PICK g : /\ g[0] = [found |-> {}, stop |-> FALSE] /\ ExactMatches(q.filters) = g[N].found
               /\ \A k \in 1 .. N : g[k] = ExactStep(g[k - 1], q.filters[k])
  BY <1>1, ExactSteps
<1> HIDE DEF N
<1> DEFINE Good == {k \in Nat : g[k].found = {}}
<1>3. 0 \in Good
  BY <1>2
<1>4. ASSUME NEW k \in 1 .. N, k - 1 \in Good PROVE k \in Good
  <2>1. IsPk(q.filters[k].field) /\ g[k] = ExactStep(g[k - 1], q.filters[k]) /\ g[k - 1].found = {}
    BY <1>1, <1>2, <1>4
  <2>2. ExactStep(g[k - 1], q.filters[k]) = g[k - 1]
    BY <2>1 DEF ExactStep
  <2> QED
    BY <2>1, <2>2
<1>5. N \in Good
  <2> HIDE DEF Good
  <2>1. \A k \in 0 .. N : k \in Good
    BY <1>1, <1>3, <1>4, UpTo
  <2> QED
    BY <1>1, <2>1
<1> QED
  BY <1>2, <1>5

-----------------------------------------------------------------------------
(* Search *)

\* The first of some positions is one of them.
LEMMA FirstOfIs ==
    ASSUME Fixed, NEW at \in SUBSET DOMAIN q.filters, at # {}
    PROVE  \E i \in at : FirstOf(at) = q.filters[i]
<1>1. at \in SUBSET Nat
  BY QueryFacts
<1>2. \E i \in at : \A j \in at : i <= j
  BY <1>1, LeastNat
<1> QED
  BY <1>2 DEF FirstOf

\* A lookup by key returns the live row of the key, if it satisfies the query.
LEMMA ByKeyIs ==
    ASSUME Fixed, NEW key
    PROVE  /\ \A l \in ByKey(key) : l \in Live /\ Satisfies(s.rows[l], Given, q.op)
           /\ \A l \in Live : KeyOf(l) = key /\ Satisfies(s.rows[l], Given, q.op) => l \in ByKey(key)
<1>1. /\ \A l \in Live : KeyOf(l) \in DOMAIN s.index /\ s.index[KeyOf(l)] = l
      /\ \A k \in DOMAIN s.index : s.index[k] \in Live
  BY TableFacts
<1> QED
  BY <1>1 DEF ByKey

\* The row wanted has the key that the filters give.
LEMMA GivenPkIs ==
    ASSUME Fixed, \A i \in DOMAIN s.pk : EqOn(s.pk[i]) # {},
           NEW l \in Live, \A f \in Given : Holds(s.rows[l][f.field], f)
    PROVE  KeyOf(l) = GivenPk
<1>1. ASSUME NEW i \in DOMAIN s.pk PROVE s.rows[l][s.pk[i]] = FirstOf(EqOn(s.pk[i])).value
  <2>1. EqOn(s.pk[i]) \in SUBSET DOMAIN q.filters
    BY DEF EqOn
  <2>2. PICK j \in EqOn(s.pk[i]) : FirstOf(EqOn(s.pk[i])) = q.filters[j]
    BY <2>1, FirstOfIs
  <2>3. q.filters[j].field = s.pk[i] /\ q.filters[j].op = "Eq" /\ q.filters[j] \in Given
    BY <2>2, QueryFacts DEF EqOn
  <2>4. Holds(s.rows[l][q.filters[j].field], q.filters[j])
    BY <2>3
  <2> QED
    BY <2>2, <2>3, <2>4 DEF Holds
<1> QED
  BY <1>1 DEF KeyOf, GivenPk

\* A key of one column.
LEMMA SingleKey ==
    ASSUME Fixed, Len(s.pk) = 1, NEW l \in Live
    PROVE  KeyOf(l) = <<s.rows[l][s.pk[1]]>> /\ DOMAIN s.pk = {1} /\ s.pk[1] \in Field
           /\ \A c : IsPk(c) <=> c = s.pk[1]
<1>1. s.pk \in Seq(Field)
  BY TableFacts
<1>2. DOMAIN s.pk = {1} /\ s.pk[1] \in Field
  BY <1>1
<1>3. KeyOf(l) = [i \in {1} |-> s.rows[l][s.pk[i]]]
  BY <1>2 DEF KeyOf
<1>4. KeyOf(l) = <<s.rows[l][s.pk[1]]>>
  BY <1>3
<1>5. \A c : IsPk(c) <=> c = s.pk[1]
  BY <1>2 DEF IsPk, Range
<1> QED
  BY <1>2, <1>4, <1>5

\* Under And, and with one filter or none, a row is wanted if all filters hold.
LEMMA WantedByAll ==
    ASSUME Fixed, q.op = "And" \/ Len(q.filters) <= 1
    PROVE  /\ \A l \in Wanted : l \in Live /\ \A f \in Given : Holds(s.rows[l][f.field], f)
           /\ \A l \in Live : (\A f \in Given : Holds(s.rows[l][f.field], f)) => l \in Wanted
           /\ \A l \in Live : Given # {} /\ (\A f \in Given : Holds(s.rows[l][f.field], f))
                                  <=> Given # {} /\ Satisfies(s.rows[l], Given, q.op)
<1>1. q.filters = <<>> <=> Given = {}
  BY QueryFacts
<1>2. ASSUME q.op # "And" PROVE \A f, g \in Given : f = g
  <2>1. Len(q.filters) \in Nat /\ Len(q.filters) <= 1
        /\ \A f \in Given : \E i \in 1 .. Len(q.filters) : f = q.filters[i]
    BY <1>2, QueryFacts
  <2>2. \A i \in 1 .. Len(q.filters) : i = 1
    BY <2>1
  <2> QED
    BY <2>1, <2>2
<1>3. ASSUME NEW l \in Live
      PROVE  Given # {} /\ (\A f \in Given : Holds(s.rows[l][f.field], f))
                <=> Given # {} /\ Satisfies(s.rows[l], Given, q.op)
  BY <1>2 DEF Satisfies
<1> QED
  BY <1>1, <1>3 DEF Wanted

\* The branches of search.
LEMMA Branches ==
    ASSUME Fixed
    PROVE  \/ /\ \A i \in DOMAIN s.pk : EqOn(s.pk[i]) # {}
              /\ HasCompositePk \/ (Len(q.filters) = 1 /\ HasPkFilter)
              /\ Search = ByKey(GivenPk)
           \/ ~HasCompositePk /\ HasPkFilter /\ Len(q.filters) # 1 /\ Search = ByPkAndOthers
           \/ ~HasCompositePk /\ ~HasPkFilter /\ InOnPk # {} /\ Search = ByPkIn
           \/ ~HasCompositePk /\ ~HasPkFilter /\ InOnPk = {} /\ Search = ByExact
<1>1. HasCompositePk => \A i \in DOMAIN s.pk : EqOn(s.pk[i]) # {}
  BY DEF HasCompositePk
<1>2. HasPkFilter => \A i \in DOMAIN s.pk : EqOn(s.pk[i]) # {}
  <2>1. s.pk \in Seq(Field)
    BY TableFacts
  <2> QED
    BY <2>1 DEF HasPkFilter
<1> QED
  BY <1>1, <1>2 DEF Search

\* The rows of PK IN: those of its values' keys.
InRows == {s.index[k] : k \in {<<v>> : v \in FirstOf(InOnPk).options} \cap DOMAIN s.index}

\* They are alive, the filter holds for them, and they are all for which it does.
LEMMA InRowsAre ==
    ASSUME Fixed, InOnPk # {}
    PROVE  \E f \in Given :
             /\ f.op = "In" /\ IsPk(f.field)
             /\ \A l \in InRows : l \in Live /\ Holds(s.rows[l][f.field], f)
             /\ \A l \in Live : Holds(s.rows[l][f.field], f) => l \in InRows
<1>1. InOnPk \in SUBSET DOMAIN q.filters
  BY DEF InOnPk
<1>2. PICK i \in InOnPk : FirstOf(InOnPk) = q.filters[i]
  BY <1>1, FirstOfIs
<1> DEFINE f == q.filters[i]
<1>3. Len(s.pk) = 1 /\ f.field = s.pk[1] /\ f.op = "In" /\ f \in Given
  BY <1>1, <1>2, QueryFacts DEF InOnPk
<1>4. InRows = {s.index[k] : k \in {<<v>> : v \in f.options} \cap DOMAIN s.index}
  BY <1>2 DEF InRows
<1>5. /\ \A l \in Live : KeyOf(l) \in DOMAIN s.index /\ s.index[KeyOf(l)] = l
      /\ \A k \in DOMAIN s.index : s.index[k] \in Live /\ KeyOf(s.index[k]) = k
  BY TableFacts
<1>6. \A l \in Live : KeyOf(l) = <<s.rows[l][f.field]>>
  BY <1>3, SingleKey
<1>7. \A v : Holds(v, f) <=> v \in f.options
  BY <1>3 DEF Holds
<1>8. IsPk(f.field)
  <2>1. s.pk \in Seq(Field)
    BY TableFacts
  <2>2. 1 \in DOMAIN s.pk
    BY <1>3, <2>1
  <2> QED
    BY <1>3, <2>2 DEF IsPk, Range
<1> HIDE DEF f
<1>9. ASSUME NEW l \in InRows PROVE l \in Live /\ Holds(s.rows[l][f.field], f)
  <2>1. PICK v \in f.options : <<v>> \in DOMAIN s.index /\ l = s.index[<<v>>]
    BY <1>4, <1>9
  <2>2. l \in Live /\ KeyOf(l) = <<v>>
    BY <1>5, <2>1
  <2>3. <<s.rows[l][f.field]>> = <<v>>
    BY <1>6, <2>2
  <2>4. s.rows[l][f.field] = v
    BY <2>3
  <2> QED
    BY <1>7, <2>1, <2>2, <2>4
<1>10. ASSUME NEW l \in Live, Holds(s.rows[l][f.field], f) PROVE l \in InRows
  <2>1. s.rows[l][f.field] \in f.options
    BY <1>7, <1>10
  <2>2. KeyOf(l) \in {<<v>> : v \in f.options} \cap DOMAIN s.index /\ s.index[KeyOf(l)] = l
    BY <1>5, <1>6, <2>1
  <2> QED
    BY <1>4, <2>2
<1> QED
  BY <1>3, <1>8, <1>9, <1>10

\* What PK IN returns.
LEMMA ByPkInIs ==
    ByPkIn = IF Len(q.filters) = 1 THEN InRows
             ELSE IF q.op = "And"
                  THEN {l \in InRows : \E m \in InRows : m[1] = l[1] /\ Satisfies(s.rows[m], Given, q.op)}
             ELSE Scan(Given, q.op)
BY DEF ByPkIn, InRows

\* Search returns live rows only.
LEMMA SearchIsLive ==
    ASSUME Fixed
    PROVE  Search \subseteq Live
<1>1. ASSUME NEW l \in Scan(Given, q.op) PROVE l \in Live
  BY <1>1, ScanIsSound
<1>2. ASSUME Applies, NEW rest \in SUBSET Given PROVE Narrowed(ExactMatches(q.filters), rest) \subseteq Live
  BY <1>2, NarrowedIsRight
<1>3. ByKey(GivenPk) \subseteq Live
  BY ByKeyIs
<1>4. ByPkAndOthers \subseteq Live
  BY <1>1, <1>2 DEF ByPkAndOthers
<1>5. InOnPk # {} => ByPkIn \subseteq Live
  BY <1>1, InRowsAre, ByPkInIs
<1>6. ByExact \subseteq Live
  BY <1>1, <1>2 DEF ByExact
<1> QED
  BY <1>3, <1>4, <1>5, <1>6, Branches

\* Search returns every row wanted.
LEMMA SearchFinds ==
    ASSUME Fixed, NumbersInOrder, NoSkippedLookup, OrIsScanned
    PROVE  Wanted \subseteq Search
<1> SUFFICES ASSUME NEW l \in Wanted PROVE l \in Search
  OBVIOUS
<1>1. l \in Live /\ (Given = {} \/ Satisfies(s.rows[l], Given, q.op))
  BY QueryFacts DEF Wanted
<1>2. Len(q.filters) \in Nat /\ q.op \in {"And", "Or"} /\ Given \in SUBSET Filters
  BY QueryFacts
<1>3. CASE ~(q.op = "And" \/ Len(q.filters) <= 1)
  <2>1. q.op = "Or" /\ Len(q.filters) > 1
    BY <1>2, <1>3
  <2>2. s.mm = {} /\ ~HasCompositePk
    BY <2>1 DEF OrIsScanned
  <2>3. l \in Scan(Given, q.op)
    BY <1>1, <2>2, ScanFindsAny
  <2>4. ByPkAndOthers = Scan(Given, q.op) /\ ByExact = Scan(Given, q.op)
    BY <2>1 DEF ByPkAndOthers, ByExact
  <2>5. Len(q.filters) # 1 /\ q.op # "And"
    <3>1. \A n \in Nat : n > 1 => n # 1
      OBVIOUS
    <3> QED
      BY <1>2, <2>1, <3>1
  <2>6. ByPkIn = Scan(Given, q.op)
    BY <2>5, ByPkInIs
  <2>7. Search = ByPkAndOthers \/ Search = ByPkIn \/ Search = ByExact
    BY <2>2, <2>5, Branches
  <2> QED
    BY <2>3, <2>4, <2>6, <2>7
<1>4. CASE q.op = "And" \/ Len(q.filters) <= 1
  <2>1. \A f \in Given : Holds(s.rows[l][f.field], f)
    BY <1>4, WantedByAll
  <2>2. \A f \in Given : InOrder(f)
    BY DEF NumbersInOrder, InOrder
  <2>3. l \in Scan(Given, q.op)
    BY <1>1, <1>2, <2>1, <2>2, ScanFindsAll
  <2>4. ASSUME Applies, NEW rest \in SUBSET Given PROVE l \in Narrowed(ExactMatches(q.filters), rest)
    BY <1>1, <2>1, <2>4, NarrowedIsRight
  <2>5. CASE /\ \A i \in DOMAIN s.pk : EqOn(s.pk[i]) # {}
             /\ Search = ByKey(GivenPk)
    <3>1. KeyOf(l) = GivenPk
      BY <1>1, <2>1, <2>5, GivenPkIs
    <3>2. Given # {}
      <4>1. s.pk \in Seq(Field) /\ s.pk # <<>>
        BY TableFacts
      <4>2. 1 \in DOMAIN s.pk
        BY <4>1
      <4>3. PICK i \in EqOn(s.pk[1]) : TRUE
        BY <2>5, <4>2
      <4> QED
        BY <4>3, QueryFacts DEF EqOn
    <3> QED
      BY <1>1, <2>5, <3>1, <3>2, ByKeyIs
  <2>6. CASE Search = ByPkAndOthers
    BY <2>3, <2>4, <2>6 DEF ByPkAndOthers
  <2>7. CASE InOnPk # {} /\ Search = ByPkIn
    <3>1. l \in InRows /\ Given # {}
      BY <1>1, <2>1, <2>7, InRowsAre
    <3>2. Satisfies(s.rows[l], Given, q.op)
      BY <1>1, <3>1
    <3> QED
      BY <2>3, <2>7, <3>1, <3>2, ByPkInIs
  <2>8. CASE Search = ByExact
    BY <2>3, <2>4, <2>8 DEF ByExact
  <2> QED
    BY <2>5, <2>6, <2>7, <2>8, Branches
<1> QED
  BY <1>3, <1>4

\* Where the key comes alone and no In that finds nothing comes late, search
\* returns rows wanted only.
LEMMA SearchReturnsWanted ==
    ASSUME Fixed, KeyAlone, HitsBeforeIn
    PROVE  Search \subseteq Wanted
<1>1. q.filters = <<>> <=> Given = {}
  BY QueryFacts
<1>2. ASSUME NEW l \in Scan(Given, q.op) PROVE l \in Wanted
  BY <1>1, <1>2, ScanIsSound DEF Wanted
<1>3. CASE Search = ByKey(GivenPk)
  BY <1>3, ByKeyIs DEF Wanted
<1>4. CASE ~HasCompositePk /\ HasPkFilter /\ Len(q.filters) # 1 /\ Search = ByPkAndOthers
  <2>1. PICK i \in EqOn(s.pk[1]) : TRUE
    BY <1>4 DEF HasPkFilter
  <2>2. i \in 1 .. Len(q.filters) /\ Len(q.filters) \in Nat /\ q.filters[i] \in Given
        /\ q.filters[i].field = s.pk[1] /\ q.filters[i].op = "Eq"
    BY <2>1, QueryFacts DEF EqOn
  <2>3. Len(q.filters) > 1
    <3>1. \A n \in Nat : \A k \in 1 .. n : n # 1 => n > 1
      OBVIOUS
    <3> QED
      BY <1>4, <2>2, <3>1
  <2>4. IsPk(q.filters[i].field) /\ IsLookup(q.filters[i])
    <3>1. s.pk \in Seq(Field) /\ Len(s.pk) = 1
      BY <1>4, TableFacts DEF HasPkFilter
    <3>2. 1 \in DOMAIN s.pk
      BY <3>1
    <3> QED
      BY <2>2, <3>2 DEF IsPk, Range, IsLookup
  <2>5. q.op # "And"
    BY <1>4, <2>2, <2>3, <2>4 DEF KeyAlone
  <2>6. q.op = "Or"
    BY <2>5, QueryFacts
  <2> QED
    BY <1>2, <1>4, <2>6 DEF ByPkAndOthers
<1>5. CASE ~HasCompositePk /\ InOnPk # {} /\ Search = ByPkIn
  <2>1. PICK f \in Given :
             /\ f.op = "In" /\ IsPk(f.field)
             /\ \A l \in InRows : l \in Live /\ Holds(s.rows[l][f.field], f)
    BY <1>5, InRowsAre
  <2>2. CASE Len(q.filters) = 1
    <3>1. \A h \in Given : h = f
      <4>1. \A h \in Given : \E i \in 1 .. Len(q.filters) : h = q.filters[i]
        BY QueryFacts
      <4>2. \A i \in 1 .. Len(q.filters) : i = 1
        BY <2>2
      <4> QED
        BY <4>1, <4>2
    <3>2. Search = InRows
      BY <1>5, <2>2, ByPkInIs
    <3> QED
      BY <2>1, <2>2, <3>1, <3>2, WantedByAll
  <2>3. CASE Len(q.filters) # 1
    <3>1. Len(q.filters) > 1
      <4>1. Len(q.filters) \in Nat /\ \E i \in 1 .. Len(q.filters) : q.filters[i] = f
        BY <2>1, QueryFacts
      <4>2. \A n \in Nat : \A k \in 1 .. n : n # 1 => n > 1
        OBVIOUS
      <4> QED
        BY <2>3, <4>1, <4>2
    <3>2. q.op # "And"
      BY <1>5, <2>1, <3>1 DEF KeyAlone, IsLookup
    <3> QED
      BY <1>2, <1>5, <2>3, <3>2, ByPkInIs
  <2> QED
    BY <2>2, <2>3
<1>6. CASE ~HasCompositePk /\ Search = ByExact
  <2>1. CASE q.op = "Or" \/ ~Applies
    BY <1>2, <1>6, <2>1 DEF ByExact
  <2>2. CASE ~(q.op = "Or" \/ ~Applies)
    <3> DEFINE rest == {f \in Given : NotLookup(f)}
    <3>1. q.op = "And" /\ Applies /\ Search = Narrowed(ExactMatches(q.filters), rest)
      BY <1>6, <2>2, QueryFacts DEF ByExact
    <3>2. ASSUME NEW l \in Search, NEW f \in Given PROVE l \in Live /\ Holds(s.rows[l][f.field], f)
      <4>1. /\ l \in Live /\ \E A \in ExactMatches(q.filters) : l \in A
            /\ \A h \in rest : Holds(s.rows[l][h.field], h)
        BY <3>1, <3>2, NarrowedIsRight
      <4>2. CASE IsLookup(f) /\ ~IsPk(f.field)
        BY <4>1, <4>2, ExactIsNarrow
      <4>3. CASE ~IsLookup(f)
        BY <4>1, <4>3 DEF NotLookup, IsLookup
      <4>4. CASE IsLookup(f) /\ IsPk(f.field)
        <5>1. PICK A \in ExactMatches(q.filters) : l \in A
          BY <4>1
        <5>2. Len(q.filters) <= 1
          BY <1>6, <3>1, <4>4, QueryFacts DEF KeyAlone
        <5>3. \A h \in Given : h = f
          <6>1. /\ Len(q.filters) \in Nat
                /\ \A h \in Given : \E i \in 1 .. Len(q.filters) : h = q.filters[i]
            BY QueryFacts
          <6>2. \A i \in 1 .. Len(q.filters) : i = 1
            BY <5>2, <6>1
          <6> QED
            BY <6>1, <6>2
        <5>4. ExactMatches(q.filters) = {}
          BY <4>4, <5>3, NothingForTheKey
        <5> QED
          BY <5>1, <5>4
      <4> QED
        BY <4>1, <4>2, <4>3, <4>4
    <3>3. \A l \in Search : l \in Live
      BY SearchIsLive
    <3> HIDE DEF rest
    <3>4. \A l \in Live : (\A f \in Given : Holds(s.rows[l][f.field], f)) => l \in Wanted
      BY <3>1, WantedByAll
    <3> QED
      BY <3>2, <3>3, <3>4
  <2> QED
    BY <2>1, <2>2
<1> QED
  BY <1>3, <1>4, <1>5, <1>6, Branches

-----------------------------------------------------------------------------
(* What search returns, as invariants *)

\* The table and the query stay.
LEMMA StaysFixed == SearchSpec => []Fixed
<1>1. SearchInit => Fixed
  BY DEF SearchInit, Fixed
<1>2. Fixed /\ [SearchNext]_searchVars => Fixed'
  BY DEF Fixed, SearchNext, FetchByProbe, FetchPage, FetchOrdered, searchVars
<1> QED
  BY <1>1, <1>2, PTL DEF SearchSpec

\* For every table with complete indexes and every query: no row that a search
\* returns is superseded or deleted, whichever of the indexes it came from.
THEOREM NoDeadRowHolds == SearchSpec => []NoDeadRow
<1>1. Fixed => NoDeadRow
  BY SearchIsLive DEF NoDeadRow
<1> QED
  BY <1>1, StaysFixed, PTL

\* For every table with complete indexes and every query: a search misses no live
\* row that satisfies it, whichever branch of Table::search it takes.
THEOREM NoMatchIsMissedHolds == SearchSpec => []NoMatchIsMissed
<1>1. Fixed => NoMatchIsMissed
  BY SearchFinds DEF NoMatchIsMissed
<1> QED
  BY <1>1, StaysFixed, PTL

\* For every table with complete indexes and every query that does not mix the key
\* with other filters: a search returns exactly the rows wanted.
THEOREM SearchIsExactHolds == SearchSpec => []SearchIsExact
<1>1. Fixed => SearchIsExact
  BY SearchFinds, SearchReturnsWanted DEF SearchIsExact
<1> QED
  BY <1>1, StaysFixed, PTL

-----------------------------------------------------------------------------
(* GROUP BY *)

ValuesOf(field, matches) == {s.rows[l][field] : l \in s.bm \cap matches}
InSegment(field, matches, seg, v) == {l \in s.bm \cap matches : l[1] = seg /\ s.rows[l][field] = v}
UpToSegment(field, matches, seg, v) == {l \in s.bm \cap matches : l[1] <= seg /\ s.rows[l][field] = v}

\* The sum over the segments: g gives the counts after each of the segments up to k.
CountLoop(g, k, field, matches) ==
    g = [seg \in 0 .. k |->
            [v \in ValuesOf(field, matches) |->
                Cardinality(InSegment(field, matches, seg, v)) + IF seg = 0 THEN 0 ELSE g[seg - 1][v]]]

\* It has a result, ...
LEMMA CountLoopRuns ==
    ASSUME NEW field, NEW matches, NEW N \in Nat
    PROVE  \E g : CountLoop(g, N, field, matches)
<1> DEFINE turn(f, n) == [v \in ValuesOf(field, matches) |->
                Cardinality(InSegment(field, matches, n, v)) + IF n = 0 THEN 0 ELSE f[n - 1][v]]
           Good == {k \in Nat : \E g : CountLoop(g, k, field, matches)}
<1>1. 0 \in Good
  <2> DEFINE g == [n \in 0 .. 0 |-> [v \in ValuesOf(field, matches) |-> Cardinality(InSegment(field, matches, 0, v)) + 0]]
  <2>1. \A n \in 0 .. 0 : g[n] = turn(g, n)
    OBVIOUS
  <2>2. g = [n \in 0 .. 0 |-> g[n]]
    OBVIOUS
  <2> HIDE DEF g
  <2> QED
    BY <2>1, <2>2 DEF CountLoop
<1>2. ASSUME NEW k \in 1 .. N, k - 1 \in Good PROVE k \in Good
  <2>1. PICK f : CountLoop(f, k - 1, field, matches)
    BY <1>2
  <2> DEFINE g == [n \in 0 .. k |-> IF n = k THEN turn(f, k) ELSE f[n]]
  <2>2. ASSUME NEW n \in 0 .. k
        PROVE  g[n] = turn(g, n)
    <3>1. CASE n = k
      <4>1. g[n] = turn(f, k) /\ k # 0 /\ g[k - 1] = f[k - 1]
        BY <3>1
      <4> HIDE DEF g
      <4> QED
        BY <3>1, <4>1
    <3>2. CASE n # k
      <4>1. n \in 0 .. k - 1 /\ (n # 0 => n - 1 \in 0 .. k - 1 /\ n - 1 # k)
        BY <3>2
      <4>2. g[n] = f[n] /\ (n # 0 => g[n - 1] = f[n - 1])
        BY <3>2, <4>1
      <4>3. f[n] = turn(f, n)
        BY <2>1, <4>1 DEF CountLoop
      <4> HIDE DEF g
      <4> QED
        BY <4>2, <4>3
    <3> QED
      BY <3>1, <3>2
  <2>3. g = [n \in 0 .. k |-> g[n]]
    OBVIOUS
  <2> HIDE DEF g
  <2>4. CountLoop(g, k, field, matches)
    BY <2>2, <2>3 DEF CountLoop
  <2> QED
    BY <2>4
<1>3. N \in Good
  <2> HIDE DEF Good
  <2>1. \A k \in 0 .. N : k \in Good
    BY <1>1, <1>2, UpTo
  <2> QED
    BY <2>1
<1> QED
  BY <1>3

\* ... reached segment by segment.
LEMMA CountSteps ==
    ASSUME Fixed, NEW field, NEW matches
    PROVE  \E g : GroupCounts(field, matches) = g[s.active] /\ CountLoop(g, s.active, field, matches)
<1>1. s.active \in Nat
  BY TableFacts
<1> DEFINE g == CHOOSE g : CountLoop(g, s.active, field, matches)
<1>2. GroupCounts(field, matches) = g[s.active]
  BY DEF GroupCounts, CountLoop, ValuesOf, InSegment
<1>3. CountLoop(g, s.active, field, matches)
  BY <1>1, CountLoopRuns
<1> HIDE DEF g
<1> QED
  BY <1>2, <1>3

\* A segment adds its rows to those of the segments before it.
LEMMA SegmentAdds ==
    ASSUME Fixed, NEW field, NEW matches, NEW k \in Nat, NEW v
    PROVE  /\ Cardinality(InSegment(field, matches, k, v)) \in Nat
           /\ Cardinality(UpToSegment(field, matches, k, v)) =
                Cardinality(InSegment(field, matches, k, v))
                + IF k = 0 THEN 0 ELSE Cardinality(UpToSegment(field, matches, k - 1, v))
<1> DEFINE A == InSegment(field, matches, k, v)
           B == IF k = 0 THEN {} ELSE UpToSegment(field, matches, k - 1, v)
           C == UpToSegment(field, matches, k, v)
<1>1. s.bm \subseteq DOMAIN s.rows /\ IsFiniteSet(DOMAIN s.rows) /\ \A l \in DOMAIN s.rows : l[1] \in Nat
  BY TableFacts
<1>2. A \in SUBSET DOMAIN s.rows /\ B \in SUBSET DOMAIN s.rows
  BY <1>1 DEF InSegment, UpToSegment
<1>3. IsFiniteSet(A) /\ IsFiniteSet(B)
  BY <1>1, <1>2, FS_Subset
<1>4. C = A \cup B
  BY <1>1 DEF InSegment, UpToSegment
<1>5. A \cap B = {}
  BY <1>1 DEF InSegment, UpToSegment
<1> HIDE DEF A, B, C
<1>6. Cardinality(C) = Cardinality(A) + Cardinality(B) - Cardinality(A \cap B)
  BY <1>3, <1>4, FS_Union
<1>7. Cardinality(A) \in Nat /\ Cardinality(B) \in Nat /\ Cardinality(A \cap B) = 0 /\ Cardinality({}) = 0
  BY <1>3, <1>5, FS_CardinalityType, FS_EmptySet
<1>8. Cardinality(C) = Cardinality(A) + Cardinality(B)
  BY <1>6, <1>7
<1>9. CASE k = 0
  BY <1>7, <1>8, <1>9 DEF A, B, C
<1>10. CASE k # 0
  BY <1>7, <1>8, <1>10 DEF A, B, C
<1> QED
  BY <1>9, <1>10

\* GROUP BY counts the rows of the bitmaps among the matches, value by value.
LEMMA GroupCountsAre ==
    ASSUME Fixed, NEW field, NEW matches
    PROVE  /\ DOMAIN GroupCounts(field, matches) = ValuesOf(field, matches)
           /\ \A v \in ValuesOf(field, matches) :
                GroupCounts(field, matches)[v] = Cardinality({l \in s.bm \cap matches : s.rows[l][field] = v})
<1>1. s.active \in Nat /\ s.bm \subseteq DOMAIN s.rows /\ \A l \in DOMAIN s.rows : l[1] <= s.active
  BY TableFacts
<1>2. PICK g : GroupCounts(field, matches) = g[s.active] /\ CountLoop(g, s.active, field, matches)
  BY CountSteps
<1> DEFINE N == s.active
           Values == ValuesOf(field, matches)
           Good == {k \in Nat : /\ DOMAIN g[k] = Values
                                /\ \A v \in Values : g[k][v] = Cardinality(UpToSegment(field, matches, k, v))}
<1>3. ASSUME NEW k \in 0 .. N
      PROVE  /\ DOMAIN g[k] = Values
             /\ \A v \in Values : g[k][v] = Cardinality(InSegment(field, matches, k, v)) + IF k = 0 THEN 0 ELSE g[k - 1][v]
  <2>1. g[k] = [v \in Values |-> Cardinality(InSegment(field, matches, k, v)) + IF k = 0 THEN 0 ELSE g[k - 1][v]]
    BY <1>2 DEF CountLoop
  <2> QED
    BY <2>1
<1> HIDE DEF Values
<1>4. 0 \in Good
  <2>1. 0 \in 0 .. N
    BY <1>1
  <2> QED
    BY <1>3, <2>1, SegmentAdds
<1>5. ASSUME NEW k \in 1 .. N, k - 1 \in Good PROVE k \in Good
  <2>1. k \in 0 .. N /\ k # 0 /\ k \in Nat
    OBVIOUS
  <2>2. ASSUME NEW v \in Values PROVE g[k][v] = Cardinality(UpToSegment(field, matches, k, v))
    <3>1. g[k][v] = Cardinality(InSegment(field, matches, k, v)) + g[k - 1][v]
      BY <1>3, <2>1
    <3>2. g[k - 1][v] = Cardinality(UpToSegment(field, matches, k - 1, v))
      BY <1>5
    <3> QED
      BY <2>1, <3>1, <3>2, SegmentAdds
  <2> QED
    BY <1>3, <2>1, <2>2
<1>6. N \in Good
  <2> HIDE DEF Good, N
  <2>1. \A k \in 0 .. N : k \in Good
    BY <1>1, <1>4, <1>5, UpTo DEF N
  <2> QED
    BY <1>1, <2>1 DEF N
<1>7. ASSUME NEW v \in Values
      PROVE  UpToSegment(field, matches, N, v) = {l \in s.bm \cap matches : s.rows[l][field] = v}
  BY <1>1 DEF UpToSegment
<1> QED
  BY <1>2, <1>6, <1>7 DEF Values

\* For every table with complete indexes, query and column: GROUP BY counts the
\* rows that the search returns, each in the group of its value.
THEOREM GroupsCountTheMatchesHolds == SearchSpec => []GroupsCountTheMatches
<1>1. ASSUME Fixed PROVE GroupsCountTheMatches
  <2> SUFFICES ASSUME NEW field \in Field
               PROVE  /\ DOMAIN GroupCounts(field, Search) = {s.rows[l][field] : l \in Search}
                      /\ \A v \in DOMAIN GroupCounts(field, Search) :
                            GroupCounts(field, Search)[v] = Cardinality({l \in Search : s.rows[l][field] = v})
    BY DEF GroupsCountTheMatches
  <2>1. s.bm \cap Search = Search
    BY <1>1, SearchIsLive, TableFacts
  <2>2. ValuesOf(field, Search) = {s.rows[l][field] : l \in Search}
    BY <2>1 DEF ValuesOf
  <2>3. /\ DOMAIN GroupCounts(field, Search) = ValuesOf(field, Search)
        /\ \A v \in ValuesOf(field, Search) :
              GroupCounts(field, Search)[v] = Cardinality({l \in s.bm \cap Search : s.rows[l][field] = v})
    BY <1>1, GroupCountsAre
  <2>4. \A v : {l \in s.bm \cap Search : s.rows[l][field] = v} = {l \in Search : s.rows[l][field] = v}
    BY <2>1
  <2> QED
    BY <2>2, <2>3, <2>4
<1> QED
  BY <1>1, StaysFixed, PTL

-----------------------------------------------------------------------------
(* Listings *)

Orderings == {ById} \cup Shuffled

\* Segments and their places in a listing are numbers.
LEMMA SegmentsAre ==
    ASSUME Fixed
    PROVE  /\ Segments \subseteq Nat /\ Cardinality(Segments) \in Nat
           /\ \A l \in DOMAIN s.rows : l[1] \in Segments
           /\ \A o \in Orderings : \A seg \in Segments : o[seg] \in Nat
<1>1. s.active \in Nat /\ \A l \in DOMAIN s.rows : l[1] \in Nat /\ l[1] <= s.active
  BY TableFacts
<1>2. Segments \in SUBSET (0 .. s.active)
  BY <1>1 DEF Segments
<1>3. IsFiniteSet(0 .. s.active)
  BY <1>1, FS_Interval
<1>4. Cardinality(Segments) \in Nat
  BY <1>2, <1>3, FS_Subset, FS_CardinalityType
<1>5. Segments \subseteq Nat
  BY <1>1, <1>2
<1>6. \A o \in Orderings : \A seg \in Segments : o[seg] \in Nat
  BY <1>4, <1>5 DEF Orderings, ById, Shuffled
<1> QED
  BY <1>4, <1>5, <1>6 DEF Segments

\* A set of rows is finite, and a listing of it has every row once.
LEMMA ListingIs ==
    ASSUME Fixed, NEW rows \in SUBSET DOMAIN s.rows, NEW orders \in SUBSET Orderings,
           NEW list \in Listings(rows, orders)
    PROVE  /\ IsFiniteSet(rows) /\ Cardinality(rows) \in Nat
           /\ list \in [1 .. Cardinality(rows) -> rows] /\ list \in Seq(rows) /\ Len(list) = Cardinality(rows)
           /\ IsInjective(list) /\ Range(list) = rows
<1>1. IsFiniteSet(rows) /\ Cardinality(rows) \in Nat
  BY TableFacts, FS_Subset, FS_CardinalityType
<1>2. list \in [1 .. Cardinality(rows) -> rows]
  BY DEF Listings
<1>3. PICK o \in Orderings : \A i, j \in DOMAIN list : i < j => Before(o, list[i], list[j])
  BY DEF Listings
<1>4. ASSUME NEW a \in rows PROVE ~Before(o, a, a)
  <2>1. a[1] \in Segments /\ a[2] \in Nat /\ o[a[1]] \in Nat
    BY <1>3, TableFacts, SegmentsAre
  <2> QED
    BY <2>1 DEF Before
<1>5. IsInjective(list)
  <2>1. ASSUME NEW i \in DOMAIN list, NEW j \in DOMAIN list, i < j PROVE list[i] # list[j]
    BY <1>2, <1>3, <1>4, <2>1
  <2>2. ASSUME NEW i \in DOMAIN list, NEW j \in DOMAIN list, i # j PROVE list[i] # list[j]
    <3>1. i < j \/ j < i
      BY <1>1, <1>2, <2>2
    <3> QED
      BY <2>1, <3>1
  <2> QED
    BY <2>2 DEF IsInjective
<1>6. Range(list) = rows
  BY <1>1, <1>2, <1>5, ListIsOnto
<1>7. list \in Seq(rows) /\ Len(list) = Cardinality(rows)
  BY <1>1, <1>2
<1> QED
  BY <1>1, <1>2, <1>5, <1>6, <1>7

\* There is one listing by segment id.
LEMMA OneListing ==
    ASSUME Fixed, NEW rows \in SUBSET DOMAIN s.rows,
           NEW a \in Listings(rows, {ById}), NEW b \in Listings(rows, {ById})
    PROVE  a = b
<1> DEFINE n == Cardinality(rows)
           Bad == {i \in 1 .. n : a[i] # b[i]}
           Less(x, y) == x[1] < y[1] \/ (x[1] = y[1] /\ x[2] < y[2])
<1>1. {ById} \in SUBSET Orderings
  BY DEF Orderings
<1>2. /\ n \in Nat /\ a \in [1 .. n -> rows] /\ b \in [1 .. n -> rows]
      /\ IsInjective(a) /\ IsInjective(b) /\ Range(a) = rows /\ Range(b) = rows
  BY <1>1, ListingIs
<1>3. \A x, y \in rows : Before(ById, x, y) <=> Less(x, y)
  BY SegmentsAre DEF Before, ById
<1>4. \A i, j \in 1 .. n : i < j => Less(a[i], a[j]) /\ Less(b[i], b[j])
  BY <1>2, <1>3 DEF Listings
<1>5. \A x, y \in rows : Less(x, y) => ~Less(y, x)
  <2>1. \A x \in rows : x[1] \in Nat /\ x[2] \in Nat
    BY TableFacts
  <2> QED
    BY <2>1
<1> HIDE DEF Less, n
<1>6. ASSUME Bad # {} PROVE FALSE
  <2>1. Bad \in SUBSET Nat
    BY <1>2
  <2>2. PICK i \in Bad : \A j \in Bad : i <= j
    <3> HIDE DEF Bad
    <3> QED
      BY <1>6, <2>1, LeastNat
  <2>3. i \in 1 .. n /\ a[i] # b[i] /\ \A j \in 1 .. n : j < i => a[j] = b[j]
    BY <1>2, <2>2
  <2>4. PICK j \in 1 .. n : b[j] = a[i]
    BY <1>2, <2>3 DEF Range
  <2>5. PICK k \in 1 .. n : a[k] = b[i]
    BY <1>2, <2>3 DEF Range
  <2>6. i < j
    <3>1. j # i
      BY <2>3, <2>4
    <3>2. ~(j < i)
      BY <1>2, <2>3, <2>4 DEF IsInjective
    <3> QED
      BY <1>2, <2>3, <2>4, <3>1, <3>2
  <2>7. i < k
    <3>1. k # i
      BY <2>3, <2>5
    <3>2. ~(k < i)
      BY <1>2, <2>3, <2>5 DEF IsInjective
    <3> QED
      BY <1>2, <2>3, <2>5, <3>1, <3>2
  <2>8. Less(b[i], a[i]) /\ Less(a[i], b[i])
    BY <1>4, <2>3, <2>4, <2>5, <2>6, <2>7
  <2>9. a[i] \in rows /\ b[i] \in rows
    BY <1>2, <2>3
  <2> QED
    BY <1>5, <2>8, <2>9
<1>7. \A i \in 1 .. n : a[i] = b[i]
  BY <1>6
<1> QED
  BY <1>2, <1>7

-----------------------------------------------------------------------------
(* The fetch of a join *)

\* A join's fetch has, at any time, the beginning of the one listing of the search,
\* all of it at the end; or, at the end, a listing of what the probe found.
Pages ==
    /\ done => q.op = "And"
    /\ ~Applies /\ ~LooksUpSeveral =>
         \/ fetched = <<>> /\ ~done
         \/ \E list \in Listings(Search, {ById}) : \E n \in 0 .. Len(list) :
                fetched = SubSeq(list, 1, n) /\ (done => n = Len(list))
    /\ Applies => (done => fetched \in Listings(Probe, Shuffled)) /\ (~done => fetched = <<>>)

FetchInv == Fixed /\ (q.order = NoOrder => Pages)

\* The next page of a listing, after the first n rows.
LEMMA NextPage ==
    ASSUME NEW S, NEW list \in Seq(S), NEW n \in 0 .. Len(list)
    PROVE  LET page == PageAt(list, n) IN
           \E m \in n .. Len(list) :
              /\ SubSeq(list, 1, n) \o page = SubSeq(list, 1, m)
              /\ (page = <<>> \/ Len(SubSeq(list, 1, n) \o page) >= Len(list)) => m = Len(list)
<1> DEFINE m == Min({n + PageSize, Len(list)})
           page == PageAt(list, n)
<1>1. n \in Nat /\ n <= Len(list) /\ Len(list) \in Nat /\ PageSize \in Nat /\ PageSize > 0
  BY SizesArePositive
<1>2. m = IF n + PageSize <= Len(list) THEN n + PageSize ELSE Len(list)
  BY <1>1, MinOfTwo
<1>3. page = SubSeq(list, n + 1, m)
  BY DEF PageAt
<1> HIDE DEF m, page
<1>4. m \in n .. Len(list) /\ m \in Nat /\ (m = n => m = Len(list))
  BY <1>1, <1>2
<1>5. page \in Seq(S) /\ Len(page) = m - n /\ \A i \in 1 .. (m - n) : page[i] = list[n + i]
  BY <1>1, <1>3, <1>4
<1> DEFINE x == SubSeq(list, 1, n)
           y == SubSeq(list, 1, m)
           z == x \o page
<1>6. x \in Seq(S) /\ Len(x) = n /\ \A i \in 1 .. n : x[i] = list[i]
  BY <1>1
<1>7. y \in Seq(S) /\ Len(y) = m /\ \A i \in 1 .. m : y[i] = list[i]
  BY <1>1, <1>4
<1> HIDE DEF x, y
<1>8. z \in Seq(S) /\ Len(z) = m
  <2>3. \A a, b \in Seq(S) : a \o b \in Seq(S) /\ Len(a \o b) = Len(a) + Len(b)
    OBVIOUS
  <2>1. z \in Seq(S) /\ Len(z) = Len(x) + Len(page)
    BY <1>5, <1>6, <2>3
  <2> HIDE DEF z
  <2>2. n + (m - n) = m
    BY <1>1, <1>4
  <2> QED
    BY <1>5, <1>6, <2>1, <2>2
<1>9. ASSUME NEW i \in 1 .. m PROVE z[i] = list[i]
  <2>1. CASE i <= n
    BY <1>1, <1>4, <1>5, <1>6, <2>1
  <2>2. CASE i > n
    <3>1. i - n \in 1 .. (m - n) /\ n + (i - n) = i
      BY <1>1, <1>4, <2>2
    <3>2. z[i] = page[i - n]
      BY <1>1, <1>4, <1>5, <1>6, <2>2
    <3> QED
      BY <1>5, <3>1, <3>2
  <2>3. i \in Nat /\ (i <= n \/ i > n)
    BY <1>1, <1>4
  <2> HIDE DEF z
  <2> QED
    BY <2>1, <2>2, <2>3
<1> HIDE DEF z
<1>10. z = y
  BY <1>4, <1>7, <1>8, <1>9
<1>11. page = <<>> => m = n
  BY <1>1, <1>4, <1>5
<1>12. (page = <<>> \/ Len(z) >= Len(list)) => m = Len(list)
  BY <1>1, <1>4, <1>8, <1>11
<1>13. \E k \in n .. Len(list) : z = SubSeq(list, 1, k) /\ ((page = <<>> \/ Len(z) >= Len(list)) => k = Len(list))
  BY <1>4, <1>10, <1>12 DEF y
<1> QED
  BY <1>13 DEF z, x, page

-----------------------------------------------------------------------------
(* Nothing that search computes changes while the table and the query stay *)

\* The loop over the filters runs as ExactSteps says, in this state and the next.
ExactRuns ==
    \A filters : Len(filters) \in Nat =>
        \E g : /\ g[0] = [found |-> {}, stop |-> FALSE] /\ ExactMatches(filters) = g[Len(filters)].found
               /\ \A k \in 1 .. Len(filters) : g[k] = ExactStep(g[k - 1], filters[k])

\* It does in any state,
LEMMA ExactRunsHere == ExactRuns
BY ExactSteps DEF ExactRuns

\* so also in the next one.
LEMMA ExactRunsNext == ExactRuns'
<1>1. ExactRuns
  BY ExactRunsHere
<1> QED
  BY <1>1, PTL

\* Scans find the same.
LEMMA SameScans ==
    ASSUME s' = s, q' = q, Fixed, NEW filters \in SUBSET Filters, NEW op
    PROVE  Live' = Live /\ Scan(filters, op)' = Scan(filters, op)
<1>1. Live' = Live /\ Segments' = Segments
  BY DEF Live, Segments
<1>2. ASSUME NEW seg, NEW f \in Filters PROVE Skips(seg, f)' <=> Skips(seg, f)
  <2> DEFINE zone == {s.rows[l][f.field] : l \in {k \in s.mm : k[1] = seg}}
             out(z) == LET min == CHOOSE v \in z : \A u \in z : ~StrLess(u, v)
                           max == CHOOSE v \in z : \A u \in z : ~StrLess(v, u)
                       IN CASE f.op = "Eq" -> StrLess(f.value, min) \/ StrLess(max, f.value)
                            [] f.op = "Gt" -> ~StrLess(f.value, max)
                            [] f.op = "Gte" -> StrLess(max, f.value)
                            [] f.op = "Lt" -> ~StrLess(min, f.value)
                            [] f.op = "Lte" -> StrLess(f.value, min)
                            [] f.op = "Between" -> max < f.value \/ min > f.to
                            [] OTHER -> FALSE
  <2>1. zone' = zone
    OBVIOUS
  <2>2. Skips(seg, f) <=> zone # {} /\ out(zone)
    BY Zenon DEF Skips
  <2>3. Skips(seg, f)' <=> zone' # {} /\ out(zone')
    BY Zenon DEF Skips
  <2> HIDE DEF zone, out
  <2> QED
    BY <2>1, <2>2, <2>3
<1>3. ASSUME NEW seg PROVE ScanSegment(seg, filters, op)' = ScanSegment(seg, filters, op)
  <2> DEFINE rows == {l \in (IF filters = {} THEN DOMAIN s.rows ELSE s.bm) : l[1] = seg}
             found == {l \in rows : filters = {} \/ Satisfies(s.rows[l], filters, op)} \ s.dead
             ruled == \E f \in filters : Skips(seg, f)
  <2>1. rows' = rows
    OBVIOUS
  <2>2. found' = found
    <3> HIDE DEF rows
    <3>1. \A l : Satisfies(s.rows[l], filters, op)' <=> Satisfies(s.rows[l], filters, op)
      BY DEF Satisfies, Holds
    <3> QED
      BY <2>1, <3>1
  <2>3. ruled' <=> ruled
    BY <1>2
  <2>4. ScanSegment(seg, filters, op) = IF ruled THEN {} ELSE found
    BY DEF ScanSegment
  <2>5. ScanSegment(seg, filters, op)' = IF ruled' THEN {} ELSE found'
    BY DEF ScanSegment
  <2> HIDE DEF ruled, found
  <2> QED
    BY <2>2, <2>3, <2>4, <2>5
<1> QED
  BY <1>1, <1>3 DEF Scan

\* The exact indexes answer alike.
LEMMA SameExact ==
    ASSUME s' = s, q' = q, Fixed, NEW filters, Len(filters) \in Nat
    PROVE  ExactMatches(filters)' = ExactMatches(filters)
<1>1. ASSUME NEW c PROVE (IsPk(c)' <=> IsPk(c)) /\ LoadExactIndex(c)' = LoadExactIndex(c)
  BY DEF IsPk, LoadExactIndex
<1>2. ASSUME NEW c, NEW v PROVE Hits(c, v)' = Hits(c, v)
  BY <1>1 DEF Hits
<1>3. ASSUME NEW c, NEW v PROVE OneValue(c, v)' = OneValue(c, v)
  BY <1>2 DEF OneValue, Live
<1>4. ASSUME NEW c, NEW vs PROVE AnyValue(c, vs)' = AnyValue(c, vs)
  BY <1>3 DEF AnyValue
<1>5. ASSUME NEW f PROVE Lookup(f)' = Lookup(f)
  BY <1>3, <1>4 DEF Lookup
<1>6. ASSUME NEW acc, NEW f PROVE ExactStep(acc, f)' = ExactStep(acc, f)
  BY <1>1, <1>5 DEF ExactStep
<1>7. PICK g : /\ g[0] = [found |-> {}, stop |-> FALSE] /\ ExactMatches(filters) = g[Len(filters)].found
               /\ \A k \in 1 .. Len(filters) : g[k] = ExactStep(g[k - 1], filters[k])
  BY ExactRunsHere DEF ExactRuns
<1>9. PICK h : /\ h[0] = [found |-> {}, stop |-> FALSE] /\ ExactMatches(filters)' = h[Len(filters)].found
               /\ \A k \in 1 .. Len(filters) : h[k] = ExactStep(h[k - 1], filters[k])'
  BY ExactRunsNext DEF ExactRuns
<1> DEFINE n == Len(filters)
           Good == {k \in 0 .. n : g[k] = h[k]}
<1>10. n \in Nat
  OBVIOUS
<1> HIDE DEF n
<1>11. 0 \in Good
  BY <1>7, <1>9, <1>10
<1>12. ASSUME NEW k \in 1 .. n, k - 1 \in Good PROVE k \in Good
  <2>1. g[k] = ExactStep(g[k - 1], filters[k])
    BY <1>7 DEF n
  <2>2. h[k] = ExactStep(h[k - 1], filters[k])'
    BY <1>9 DEF n
  <2>3. g[k - 1] = h[k - 1]
    BY <1>12
  <2>4. ExactStep(h[k - 1], filters[k])' = ExactStep(h[k - 1], filters[k])
    BY <1>6
  <2>5. g[k] = h[k]
    BY <2>1, <2>2, <2>3, <2>4
  <2> QED
    BY <1>10, <2>5
<1>13. n \in Good
  <2> HIDE DEF Good
  <2>1. \A k \in 0 .. n : k \in Good
    BY <1>10, <1>11, <1>12, UpTo
  <2> QED
    BY <1>10, <2>1
<1> QED
  BY <1>7, <1>9, <1>13 DEF n

\* And so a search finds the same, takes the same branch, and lists alike.
LEMMA SameSearch ==
    ASSUME s' = s, q' = q, Fixed
    PROVE  /\ Search' = Search /\ Probe' = Probe /\ (Applies' <=> Applies)
           /\ (LooksUpSeveral' <=> LooksUpSeveral)
<1>1. Given' = Given /\ Given \subseteq Filters /\ Len(q.filters) \in Nat
  BY QueryFacts DEF Given, Range
<1>2. ExactMatches(q.filters)' = ExactMatches(q.filters)
  <2> DEFINE fs == q.filters
  <2>1. fs' = fs /\ Len(fs) \in Nat
    BY <1>1
  <2> HIDE DEF fs
  <2>2. \A gs : Len(gs) \in Nat => ExactMatches(gs)' = ExactMatches(gs)
    BY SameExact
  <2>3. ExactMatches(fs)' = ExactMatches(fs)
    BY <2>1, <2>2
  <2> QED
    BY <2>3 DEF fs
<1>3. Applies' <=> Applies
  BY <1>2 DEF Applies
<1>4. ASSUME NEW fs \in SUBSET Filters, NEW op PROVE Scan(fs, op)' = Scan(fs, op)
  BY SameScans
<1>5. ASSUME NEW exact, NEW fs \in SUBSET Filters PROVE Narrowed(exact, fs)' = Narrowed(exact, fs)
  BY <1>4 DEF Narrowed
<1>6. \A f : (NotPkLookup(f)' <=> NotPkLookup(f)) /\ (NotLookup(f)' <=> NotLookup(f))
  BY DEF NotPkLookup, NotLookup, IsPk
<1>7. ByPkAndOthers' = ByPkAndOthers
  BY <1>1, <1>2, <1>3, <1>4, <1>5, <1>6 DEF ByPkAndOthers
<1>8. ByExact' = ByExact
  BY <1>1, <1>2, <1>3, <1>4, <1>5, <1>6 DEF ByExact
<1>9. Probe' = Probe
  BY <1>1, <1>2, <1>5 DEF Probe, IsLookup
<1>10. ASSUME NEW c PROVE EqOn(c)' = EqOn(c)
  BY DEF EqOn
<1>11. ASSUME NEW places PROVE FirstOf(places)' = FirstOf(places)
  BY DEF FirstOf
<1>12. InOnPk' = InOnPk
  BY DEF InOnPk
<1>13. (HasCompositePk' <=> HasCompositePk) /\ (HasPkFilter' <=> HasPkFilter)
  BY <1>10 DEF HasCompositePk, HasPkFilter
<1>14. GivenPk' = GivenPk
  BY <1>10, <1>11 DEF GivenPk
<1>15. ASSUME NEW key PROVE ByKey(key)' = ByKey(key)
  BY <1>1 DEF ByKey, Satisfies, Holds
<1>16. ByPkIn' = ByPkIn
  <2> DEFINE values == FirstOf(InOnPk).options
             rows == {s.index[k] : k \in {<<v>> : v \in values} \cap DOMAIN s.index}
             kept(l) == \E m \in rows : m[1] = l[1] /\ Satisfies(s.rows[m], Given, q.op)
             some == {l \in rows : kept(l)}
             all == Scan(Given, q.op)
  <2>1. values' = values
    BY <1>11, <1>12
  <2>2. rows' = rows
    <3> HIDE DEF values
    <3> QED
      BY <2>1
  <2>3. some' = some
    <3> HIDE DEF rows
    <3>1. \A m : Satisfies(s.rows[m], Given, q.op)' <=> Satisfies(s.rows[m], Given, q.op)
      BY <1>1 DEF Satisfies, Holds
    <3> QED
      BY <2>2, <3>1
  <2>4. all' = all
    BY <1>1, <1>4
  <2>5. ByPkIn = IF Len(q.filters) = 1 THEN rows ELSE IF q.op = "And" THEN some ELSE all
    BY DEF ByPkIn
  <2>6. ByPkIn' = IF Len(q'.filters) = 1 THEN rows' ELSE IF q'.op = "And" THEN some' ELSE all'
    BY DEF ByPkIn
  <2> HIDE DEF rows, some, all
  <2> QED
    BY <2>2, <2>3, <2>4, <2>5, <2>6
<1>17. Search' = Search
  BY <1>7, <1>8, <1>12, <1>13, <1>14, <1>15, <1>16 DEF Search
<1>18. LooksUpSeveral' <=> LooksUpSeveral
  BY <1>12, <1>13 DEF LooksUpSeveral
<1> QED
  BY <1>3, <1>9, <1>17, <1>18

\* A fetch, page by page or at once, keeps to the listing it began with.
LEMMA FetchKeepsListing ==
    ASSUME FetchInv, [SearchNext]_searchVars
    PROVE  FetchInv'
<1>1. s' = s /\ q' = q
  BY DEF SearchNext, searchVars, FetchByProbe, FetchPage, FetchOrdered
<1>2. Fixed /\ Fixed'
  BY <1>1 DEF Fixed, FetchInv
<1>3. /\ Search' = Search /\ Probe' = Probe /\ (Applies' <=> Applies)
      /\ (LooksUpSeveral' <=> LooksUpSeveral)
  BY <1>1, <1>2, SameSearch
<1>4. ById' = ById /\ Shuffled' = Shuffled
  <2>1. Segments' = Segments
    BY <1>1 DEF Segments
  <2> QED
    BY <2>1 DEF ById, Shuffled
<1> DEFINE L == Listings(Search, {ById})
           P == Listings(Probe, Shuffled)
<1>5. L' = L /\ P' = P
  BY <1>3, <1>4 DEF Listings
<1> HIDE DEF L, P
<1>6. Pages = (/\ done => q.op = "And"
               /\ ~Applies /\ ~LooksUpSeveral =>
                    \/ fetched = <<>> /\ ~done
                    \/ \E list \in L : \E n \in 0 .. Len(list) :
                           fetched = SubSeq(list, 1, n) /\ (done => n = Len(list))
               /\ Applies => (done => fetched \in P) /\ (~done => fetched = <<>>))
  BY DEF Pages, L, P
<1>7. Pages' = (/\ done' => q.op = "And"
                /\ ~Applies /\ ~LooksUpSeveral =>
                     \/ fetched' = <<>> /\ ~done'
                     \/ \E list \in L : \E n \in 0 .. Len(list) :
                            fetched' = SubSeq(list, 1, n) /\ (done' => n = Len(list))
                /\ Applies => (done' => fetched' \in P) /\ (~done' => fetched' = <<>>))
  BY <1>1, <1>3, <1>5 DEF Pages, L, P
<1>8. SUFFICES ASSUME q.order = NoOrder PROVE Pages'
  BY <1>1, <1>2 DEF FetchInv
<1>9. Pages
  BY <1>8 DEF FetchInv
<1>10. CASE FetchByProbe
  <2>1. Applies /\ q.op = "And" /\ fetched' \in P /\ done'
    BY <1>10 DEF FetchByProbe, P
  <2> QED
    BY <1>7, <2>1
<1>11. CASE FetchPage
  <2>1. PICK list \in SearchListings :
          LET page == PageAt(list, Len(fetched)) IN
          /\ fetched' = fetched \o page
          /\ done' = (page = <<>> \/ Len(fetched') >= Len(list))
    BY <1>11 DEF FetchPage
  <2>2. ~Applies /\ ~done /\ q.op = "And"
    BY <1>11 DEF FetchPage
  <2>3. ASSUME ~LooksUpSeveral
        PROVE  \E n \in 0 .. Len(list) : fetched' = SubSeq(list, 1, n) /\ (done' => n = Len(list))
    <3>1. list \in L
      BY <2>1, <2>2, <2>3 DEF SearchListings, AnyOrder, L
    <3>2. Search \in SUBSET DOMAIN s.rows
      BY <1>2, SearchIsLive, TableFacts
    <3>3. list \in Seq(Search) /\ Len(list) \in Nat
      BY <1>2, <3>1, <3>2, ListingIs DEF L, Orderings
    <3>4. PICK n \in 0 .. Len(list) : fetched = SubSeq(list, 1, n)
      <4>1. CASE fetched = <<>>
        <5>1. SubSeq(list, 1, 0) = <<>>
          BY <3>3
        <5> QED
          BY <3>3, <4>1, <5>1
      <4>2. CASE \E a \in L : \E n \in 0 .. Len(a) : fetched = SubSeq(a, 1, n)
        <5>1. \A a \in L : a = list
          BY <1>2, <3>1, <3>2, OneListing DEF L
        <5> QED
          BY <4>2, <5>1
      <4> QED
        BY <1>6, <1>9, <2>2, <2>3, <4>1, <4>2
    <3>5. Len(fetched) = n
      BY <3>3, <3>4
    <3>6. PICK m \in n .. Len(list) :
            /\ SubSeq(list, 1, n) \o PageAt(list, n) = SubSeq(list, 1, m)
            /\ (PageAt(list, n) = <<>> \/ Len(SubSeq(list, 1, n) \o PageAt(list, n)) >= Len(list)) => m = Len(list)
      BY <3>3, NextPage
    <3>7. fetched' = SubSeq(list, 1, m) /\ (done' => m = Len(list))
      BY <2>1, <3>4, <3>5, <3>6
    <3>8. m \in 0 .. Len(list)
      BY <3>3, <3>4, <3>6
    <3> QED
      BY <3>7, <3>8
  <2>4. ~LooksUpSeveral => list \in L
    BY <2>1, <2>2 DEF SearchListings, AnyOrder, L
  <2> QED
    BY <1>7, <2>2, <2>3, <2>4
<1>12. CASE FetchOrdered
  BY <1>8, <1>12 DEF FetchOrdered
<1>13. CASE UNCHANGED searchVars
  BY <1>6, <1>7, <1>9, <1>13 DEF searchVars
<1> QED
  BY <1>10, <1>11, <1>12, <1>13 DEF SearchNext

\* So it is at any time.
LEMMA FetchIsListing == SearchSpec => []FetchInv
<1>1. SearchInit => FetchInv
  <2> SUFFICES ASSUME SearchInit PROVE FetchInv
    OBVIOUS
  <2>1. fetched = <<>> /\ ~done /\ Fixed
    BY DEF SearchInit, Fixed
  <2> QED
    BY <2>1 DEF FetchInv, Pages
<1>2. FetchInv /\ [SearchNext]_searchVars => FetchInv'
  BY FetchKeepsListing
<1> QED
  BY <1>1, <1>2, PTL DEF SearchSpec

\* A fetch that has ended has every row wanted, once.
LEMMA FetchVisits ==
    ASSUME FetchInv
    PROVE  FetchVisitsEveryRowOnce
<1>1. SUFFICES ASSUME done, q.order = NoOrder, NumbersInOrder, NoSkippedLookup, ~LooksUpSeveral
               PROVE  Wanted \subseteq Range(fetched) /\ IsInjective(fetched)
  BY DEF FetchVisitsEveryRowOnce
<1>2. Fixed /\ Pages /\ q.op = "And"
  BY <1>1 DEF FetchInv, Pages
<1>3. CASE Applies
  <2> DEFINE rest == {f \in Given : ~IsLookup(f)}
  <2>1. rest \in SUBSET Given
    OBVIOUS
  <2>2. Probe = Narrowed(ExactMatches(q.filters), rest)
    BY DEF Probe
  <2> HIDE DEF rest
  <2>3. Probe \subseteq Live /\ \A l \in Live : (\A f \in Given : Holds(s.rows[l][f.field], f)) => l \in Probe
    BY <1>1, <1>2, <1>3, <2>1, <2>2, NarrowedIsRight
  <2>4. Wanted \subseteq Probe
    BY <1>2, <2>3, WantedByAll
  <2>5. Probe \in SUBSET DOMAIN s.rows /\ Shuffled \in SUBSET Orderings
    BY <1>2, <2>3, TableFacts DEF Orderings
  <2>6. fetched \in Listings(Probe, Shuffled)
    BY <1>1, <1>2, <1>3 DEF Pages
  <2>7. IsInjective(fetched) /\ Range(fetched) = Probe
    BY <1>2, <2>5, <2>6, ListingIs
  <2> QED
    BY <2>4, <2>7
<1>4. CASE ~Applies
  <2>1. PICK list \in Listings(Search, {ById}) : fetched = SubSeq(list, 1, Len(list))
    BY <1>1, <1>2, <1>4 DEF Pages
  <2>2. Search \in SUBSET DOMAIN s.rows /\ {ById} \in SUBSET Orderings
    BY <1>2, SearchIsLive, TableFacts DEF Orderings
  <2>3. list \in Seq(Search) /\ IsInjective(list) /\ Range(list) = Search
    BY <1>2, <2>1, <2>2, ListingIs
  <2>4. fetched = list
    BY <2>1, <2>3
  <2>5. OrIsScanned
    BY <1>2 DEF OrIsScanned
  <2>6. Wanted \subseteq Search
    BY <1>1, <1>2, <2>5, SearchFinds
  <2> QED
    BY <2>3, <2>4, <2>6
<1> QED
  BY <1>3, <1>4

\* For every table with complete indexes and every query without an order: a fetch
\* in pages of any size, each the result of a search of its own, or at once from
\* the exact indexes, has every wanted row exactly once when it ends.
THEOREM FetchVisitsEveryRowOnceHolds == SearchSpec => []FetchVisitsEveryRowOnce
<1>1. FetchInv => FetchVisitsEveryRowOnce
  BY FetchVisits
<1> QED
  BY <1>1, FetchIsListing, PTL

-----------------------------------------------------------------------------
(* Ordered pages *)

\* A query with an order.
Ordered == Fixed /\ q.order # NoOrder

\* Its keys are numbers.
LEMMA KeysAreNumbers ==
    ASSUME Ordered
    PROVE  \A l \in DOMAIN s.rows : SortKey(l) \in Nat
<1>1. Fixed /\ q.order \in Field
  BY TableFacts, QueryFacts DEF Ordered
<1>2. \A l \in DOMAIN s.rows : \A c \in Field : s.rows[l][c] \in 0 .. 99
  BY <1>1, TableFacts DEF Number
<1> QED
  BY <1>1, <1>2 DEF SortKey

\* Sets of rows are finite.
LEMMA FewerRows ==
    ASSUME Fixed, NEW B \in SUBSET DOMAIN s.rows, NEW A \in SUBSET B
    PROVE  /\ IsFiniteSet(A) /\ Cardinality(A) \in Nat /\ Cardinality(B) \in Nat
           /\ Cardinality(A) <= Cardinality(B) /\ (Cardinality(A) = Cardinality(B) => A = B)
<1>1. IsFiniteSet(B)
  BY TableFacts, FS_Subset
<1> QED
  BY <1>1, FS_Subset, FS_CardinalityType

\* A has the best rows of S: whatever it lacks has at least upto rows of A that are
\* no worse.
AtMost(A, k) == {m \in A : SortKey(m) <= k}
Best(A, S, upto) == A \subseteq S /\ \A l \in S \ A : Cardinality(AtMost(A, SortKey(l))) >= upto

\* Sorted rows, cut to upto of them.
LEMMA TakeIs ==
    ASSUME Ordered, NEW C \in SUBSET DOMAIN s.rows, NEW o \in Orders(C), NEW upto \in Nat
    PROVE  LET t == Take(o, upto)
               m == IF upto <= Cardinality(C) THEN upto ELSE Cardinality(C)
           IN /\ m \in Nat /\ m <= upto /\ m <= Cardinality(C) /\ t \in [1 .. m -> C] /\ t \in Seq(C) /\ Len(t) = m
              /\ IsInjective(t) /\ Cardinality(Range(t)) = m /\ Range(t) \subseteq C
              /\ \A i \in 1 .. m : t[i] = o[i]
              /\ \A i, j \in 1 .. m : i < j => SortKey(t[i]) <= SortKey(t[j])
              /\ \A x \in C \ Range(t), y \in Range(t) : SortKey(y) <= SortKey(x)
              /\ m # upto => Range(t) = C
<1> DEFINE t == Take(o, upto)
           N == Cardinality(C)
           m == IF upto <= N THEN upto ELSE N
<1>1. Fixed /\ IsFiniteSet(C) /\ N \in Nat
  BY FewerRows DEF Ordered
<1>2. /\ o \in [1 .. N -> C] /\ IsInjective(o)
      /\ \A i, j \in 1 .. N : i < j => SortKey(o[i]) <= SortKey(o[j])
  BY DEF Orders
<1>3. Range(o) = C
  BY <1>1, <1>2, ListIsOnto
<1> HIDE DEF N
<1>4. m \in Nat /\ m <= upto /\ m <= N /\ (m # upto => m = N)
  BY <1>1
<1>5. o \in Seq(C) /\ Len(o) = N
  BY <1>1, <1>2
<1>6. t = SubSeq(o, 1, m)
  BY <1>1, <1>5, MinOfTwo DEF Take
<1> HIDE DEF t, m
<1>7. t \in Seq(C) /\ Len(t) = m /\ t \in [1 .. m -> C] /\ \A i \in 1 .. m : t[i] = o[i]
  <2>1. t \in Seq(C) /\ Len(t) = m /\ \A i \in 1 .. m : t[i] = o[i]
    BY <1>1, <1>4, <1>5, <1>6
  <2>2. t \in [1 .. m -> C]
    BY <2>1
  <2> QED
    BY <2>1, <2>2
<1>8. \A i \in 1 .. m : i \in 1 .. N
  BY <1>1, <1>4
<1>9. IsInjective(t)
  BY <1>2, <1>7, <1>8 DEF IsInjective
<1>10. Cardinality(Range(t)) = m /\ Range(t) \subseteq C
  <2>1. Cardinality(Range(t)) = m
    BY <1>4, <1>7, <1>9, ListCount
  <2> QED
    BY <1>7, <2>1 DEF Range
<1>11. \A i, j \in 1 .. m : i < j => SortKey(t[i]) <= SortKey(t[j])
  BY <1>2, <1>7, <1>8
<1>12. ASSUME NEW x \in C \ Range(t), NEW y \in Range(t) PROVE SortKey(y) <= SortKey(x)
  <2>1. PICK j \in 1 .. N : o[j] = x
    BY <1>2, <1>3 DEF Range
  <2>2. PICK i \in 1 .. m : t[i] = y
    BY <1>7 DEF Range
  <2>3. ~(j \in 1 .. m)
    BY <1>7, <2>1 DEF Range
  <2>4. i < j /\ i \in 1 .. N /\ o[i] = y
    BY <1>1, <1>4, <1>7, <1>8, <2>2, <2>3
  <2> QED
    BY <1>2, <2>1, <2>4
<1>13. m # upto => Range(t) = C
  <2>1. C \subseteq Range(o)
    BY <1>3
  <2> QED
    BY <1>2, <1>4, <1>7, <1>10, <2>1 DEF Range
<1> QED
  BY <1>4, <1>7, <1>9, <1>10, <1>11, <1>12, <1>13 DEF t, m, N

\* Cutting sorted rows keeps the best.
LEMMA CutKeepsBest ==
    ASSUME Ordered, NEW S \in SUBSET DOMAIN s.rows, NEW C \in SUBSET S, NEW T \in SUBSET S,
           NEW upto \in Nat, Best(C \cup T, S, upto), NEW o \in Orders(C)
    PROVE  Best(Range(Take(o, upto)) \cup T, S, upto)
<1> DEFINE D == Range(Take(o, upto))
           m == IF upto <= Cardinality(C) THEN upto ELSE Cardinality(C)
<1>1. C \in SUBSET DOMAIN s.rows /\ Fixed
  BY DEF Ordered
<1>2. /\ Cardinality(D) = m /\ D \subseteq C /\ (\A x \in C \ D, y \in D : SortKey(y) <= SortKey(x))
      /\ m # upto => D = C
  BY <1>1, TakeIs
<1> HIDE DEF D, m
<1>3. D \cup T \subseteq S
  BY <1>2
<1>4. ASSUME NEW l \in S \ (D \cup T)
      PROVE  Cardinality(AtMost(D \cup T, SortKey(l))) >= upto
  <2> DEFINE k == SortKey(l)
             W == AtMost(C \cup T, k)
             R == AtMost(D \cup T, k)
  <2>1. \A x \in S : SortKey(x) \in Nat
    BY KeysAreNumbers
  <2>2. R \in SUBSET DOMAIN s.rows
    BY <1>2 DEF AtMost
  <2> HIDE DEF k
  <2>3. CASE D \subseteq R /\ D # C
    <3> HIDE DEF R
    <3>1. Cardinality(D) = upto
      BY <1>2, <2>3
    <3>2. Cardinality(D) <= Cardinality(R)
      BY <1>1, <2>2, <2>3, FewerRows
    <3> QED
      BY <3>1, <3>2 DEF R, k
  <2>4. CASE l \notin C \cup T /\ W \subseteq R
    <3>1. Cardinality(W) >= upto
      BY <2>4 DEF Best, k
    <3> HIDE DEF R, W
    <3>2. Cardinality(W) <= Cardinality(R) /\ Cardinality(R) \in Nat /\ Cardinality(W) \in Nat
      BY <1>1, <2>2, <2>4, FewerRows
    <3>3. Cardinality(R) >= upto
      BY <3>1, <3>2
    <3> QED
      BY <3>3 DEF R, k
  <2>5. CASE l \in C
    <3>1. \A y \in D : SortKey(y) <= k
      BY <1>2, <2>5 DEF k
    <3>2. D \subseteq R /\ D # C
      BY <2>5, <3>1 DEF AtMost
    <3> QED
      BY <2>3, <3>2
  <2>6. CASE l \notin C /\ ~(W \subseteq R)
    <3>1. PICK x \in W : x \notin R
      BY <2>6
    <3>2. x \in C \ D /\ SortKey(x) <= k
      BY <3>1 DEF AtMost
    <3>3. \A y \in D : SortKey(y) <= SortKey(x) /\ y \in S /\ x \in S
      BY <1>2, <3>2
    <3>4. \A y \in D : SortKey(y) <= k
      <4>1. k \in Nat
        BY <2>1 DEF k
      <4> QED
        BY <2>1, <3>2, <3>3, <4>1
    <3>5. D \subseteq R /\ D # C
      BY <3>2, <3>4 DEF AtMost
    <3> QED
      BY <2>3, <3>5
  <2>7. l \notin T
    OBVIOUS
  <2> QED
    BY <2>4, <2>5, <2>6, <2>7
<1> QED
  BY <1>3, <1>4 DEF Best, D

\* A state of the tasks after they have met the rows of S: what the task at work has
\* buffered and what the tasks before it have kept are the best of S, and whatever
\* its threshold turns away has enough rows in the buffer that are no worse.
KeepsBest(state, S, upto) ==
    /\ DOMAIN state = {"acc", "threshold", "top"}
    /\ state.acc \in Seq(S) /\ IsInjective(state.acc)
    /\ Best(Range(state.acc) \cup Range(state.top), S, upto)
    /\ \A t \in state.threshold : t \in Nat /\ Cardinality(AtMost(Range(state.acc), t)) >= upto

\* A buffer as a list of rows.
LEMMA BufferIs ==
    ASSUME NEW S, NEW a \in Seq(S), IsInjective(a), NEW x, x \notin S
    PROVE  LET b == Append(a, x) IN
           /\ b \in Seq(S \cup {x}) /\ IsInjective(b) /\ Len(b) \in Nat
           /\ Range(b) = Range(a) \cup {x} /\ Range(a) \subseteq S
           /\ Cardinality(Range(b)) = Len(b)
<1> DEFINE b == Append(a, x)
           n == Len(a)
<1>1. n \in Nat /\ a \in [1 .. n -> S] /\ DOMAIN a = 1 .. n
  OBVIOUS
<1>2. b \in Seq(S \cup {x}) /\ Len(b) = n + 1 /\ b[n + 1] = x /\ \A i \in 1 .. n : b[i] = a[i]
  OBVIOUS
<1> HIDE DEF b, n
<1>3. b \in [1 .. n + 1 -> S \cup {x}]
  BY <1>1, <1>2
<1>4. \A i \in 1 .. n + 1 : i \in 1 .. n \/ i = n + 1
  BY <1>1
<1>5. \A i \in 1 .. n : i \in 1 .. n + 1 /\ i # n + 1 /\ b[i] # x
  BY <1>1, <1>2
<1>6. IsInjective(b)
  <2>1. ASSUME NEW i \in 1 .. n + 1, NEW j \in 1 .. n + 1, b[i] = b[j] PROVE i = j
    <3>1. CASE i = n + 1
      BY <1>2, <1>4, <1>5, <2>1, <3>1
    <3>2. CASE j = n + 1
      BY <1>2, <1>4, <1>5, <2>1, <3>2
    <3>3. CASE i \in 1 .. n /\ j \in 1 .. n
      BY <1>1, <1>2, <2>1, <3>3 DEF IsInjective
    <3> QED
      BY <1>4, <3>1, <3>2, <3>3
  <2> QED
    BY <1>3, <2>1 DEF IsInjective
<1>7. Range(a) \subseteq S
  BY <1>1 DEF Range
<1>8. Range(b) = Range(a) \cup {x}
  <2>1. \A y \in Range(b) : y \in Range(a) \cup {x}
    BY <1>1, <1>2, <1>3, <1>4 DEF Range
  <2>2. n + 1 \in 1 .. n + 1
    BY <1>1
  <2>3. x \in Range(b)
    BY <1>2, <1>3, <2>2 DEF Range
  <2>4. \A y \in Range(a) : y \in Range(b)
    BY <1>1, <1>2, <1>3, <1>5 DEF Range
  <2> QED
    BY <2>1, <2>3, <2>4
<1>9. n + 1 \in Nat
  BY <1>1
<1>10. Cardinality(Range(b)) = n + 1
  BY <1>3, <1>6, <1>9, ListCount
<1> QED
  BY <1>2, <1>6, <1>7, <1>8, <1>9, <1>10 DEF b

\* A row more.
LEMMA PushKeepsBest ==
    ASSUME Ordered, NEW S \in SUBSET DOMAIN s.rows, NEW x \in DOMAIN s.rows, x \notin S,
           NEW upto \in Nat \ {0}, NEW st, KeepsBest(st, S, upto),
           NEW new \in PushItem(st, x, upto)
    PROVE  KeepsBest(new, S \cup {x}, upto)
<1> DEFINE P == S \cup {x}
           A == Range(st.acc)
           T == Range(st.top)
           b == Append(st.acc, x)
<1>1. Fixed /\ P \in SUBSET DOMAIN s.rows
  BY DEF Ordered
<1>2. \A l \in P : SortKey(l) \in Nat
  BY <1>1, KeysAreNumbers
<1>3. /\ b \in Seq(P) /\ IsInjective(b) /\ Len(b) \in Nat /\ Range(b) = A \cup {x}
      /\ A \subseteq S /\ Cardinality(Range(b)) = Len(b)
  BY BufferIs DEF KeepsBest
<1>4. T \subseteq S /\ \A l \in S \ (A \cup T) : Cardinality(AtMost(A \cup T, SortKey(l))) >= upto
  BY DEF KeepsBest, Best
<1>5. st.acc \in Seq(P) /\ IsInjective(st.acc)
  BY DEF KeepsBest
<1>6. \A t \in st.threshold : t \in Nat /\ Cardinality(AtMost(A, t)) >= upto
  BY DEF KeepsBest
<1>7. CASE (\E t \in st.threshold : SortKey(x) >= t) /\ new = st
  <2>1. PICK t \in st.threshold : SortKey(x) >= t
    BY <1>7
  <2>2. AtMost(A, t) \subseteq AtMost(A \cup T, SortKey(x))
    <3>1. ASSUME NEW y \in A, SortKey(y) <= t PROVE SortKey(y) <= SortKey(x)
      <4>1. SortKey(y) \in Nat /\ SortKey(x) \in Nat /\ t \in Nat
        BY <1>2, <1>3, <1>6
      <4> QED
        BY <2>1, <3>1, <4>1
    <3> QED
      BY <3>1 DEF AtMost
  <2>3. AtMost(A \cup T, SortKey(x)) \in SUBSET DOMAIN s.rows
    BY <1>1, <1>3, <1>4 DEF AtMost
  <2>4. Cardinality(AtMost(A \cup T, SortKey(x))) >= upto
    <3> DEFINE u == Cardinality(AtMost(A, t))
               w == Cardinality(AtMost(A \cup T, SortKey(x)))
    <3>1. u <= w /\ u \in Nat /\ w \in Nat
      BY <1>1, <2>2, <2>3, FewerRows
    <3>2. u >= upto
      BY <1>6, <2>1
    <3> HIDE DEF u, w
    <3>3. w >= upto
      BY <3>1, <3>2
    <3> QED
      BY <3>3 DEF w
  <2>5. Best(A \cup T, P, upto)
    BY <1>3, <1>4, <2>4 DEF Best
  <2> QED
    BY <1>5, <1>6, <1>7, <2>5 DEF KeepsBest
<1>8. Best(Range(b) \cup T, P, upto)
  <2>1. ASSUME NEW l \in P \ (Range(b) \cup T)
        PROVE  Cardinality(AtMost(Range(b) \cup T, SortKey(l))) >= upto
    <3> DEFINE u == Cardinality(AtMost(A \cup T, SortKey(l)))
               w == Cardinality(AtMost(Range(b) \cup T, SortKey(l)))
    <3>1. u >= upto
      BY <1>3, <1>4
    <3>2. AtMost(A \cup T, SortKey(l)) \subseteq AtMost(Range(b) \cup T, SortKey(l))
      BY <1>3 DEF AtMost
    <3>3. AtMost(Range(b) \cup T, SortKey(l)) \in SUBSET DOMAIN s.rows
      BY <1>1, <1>3, <1>4 DEF AtMost
    <3>4. u <= w /\ u \in Nat /\ w \in Nat
      BY <1>1, <3>2, <3>3, FewerRows
    <3> HIDE DEF u, w
    <3>5. w >= upto
      BY <3>1, <3>4
    <3> QED
      BY <3>5 DEF w
  <2>2. Range(b) \cup T \subseteq P
    BY <1>3, <1>4
  <2> QED
    BY <2>1, <2>2 DEF Best
<1>9. DOMAIN st = {"acc", "threshold", "top"}
  BY DEF KeepsBest
<1>10. CASE new = [st EXCEPT !.acc = b]
  <2>1. new.acc = b /\ new.top = st.top /\ new.threshold = st.threshold /\ DOMAIN new = DOMAIN st
    BY <1>9, <1>10
  <2>2. ASSUME NEW t \in st.threshold PROVE Cardinality(AtMost(Range(b), t)) >= upto
    <3> DEFINE u == Cardinality(AtMost(A, t))
               w == Cardinality(AtMost(Range(b), t))
    <3>1. AtMost(A, t) \subseteq AtMost(Range(b), t) /\ AtMost(Range(b), t) \in SUBSET DOMAIN s.rows
      BY <1>1, <1>3 DEF AtMost
    <3>2. u <= w /\ u \in Nat /\ w \in Nat
      BY <1>1, <3>1, FewerRows
    <3>3. u >= upto
      BY <1>6
    <3> HIDE DEF u, w
    <3>4. w >= upto
      BY <3>2, <3>3
    <3> QED
      BY <3>4 DEF w
  <2> HIDE DEF b
  <2> QED
    BY <1>3, <1>6, <1>8, <1>9, <2>1, <2>2 DEF KeepsBest
<1>11. CASE Len(b) > upto /\ \E o \in Orders(Range(b)) :
               new = [st EXCEPT !.acc = Take(o, upto), !.threshold = {SortKey(o[upto])}]
  <2>1. PICK o \in Orders(Range(b)) :
               new = [st EXCEPT !.acc = Take(o, upto), !.threshold = {SortKey(o[upto])}]
    BY <1>11
  <2> DEFINE t == Take(o, upto)
             C == Range(b)
  <2>2. new.acc = t /\ new.top = st.top /\ new.threshold = {SortKey(o[upto])} /\ DOMAIN new = DOMAIN st
    BY <1>9, <2>1
  <2>3. C \in SUBSET P /\ C \in SUBSET DOMAIN s.rows /\ T \in SUBSET P /\ Cardinality(C) > upto
    BY <1>1, <1>3, <1>4, <1>11
  <2>4. Best(Range(t) \cup T, P, upto)
    <3> HIDE DEF C, P, T, b
    <3> QED
      BY <1>1, <1>8, <2>1, <2>3, CutKeepsBest DEF C
  <2>5. /\ t \in [1 .. upto -> C] /\ t \in Seq(C) /\ IsInjective(t) /\ Cardinality(Range(t)) = upto
        /\ Range(t) \subseteq C /\ t[upto] = o[upto]
        /\ \A i, j \in 1 .. upto : i < j => SortKey(t[i]) <= SortKey(t[j])
    <3> DEFINE m == IF upto <= Cardinality(C) THEN upto ELSE Cardinality(C)
    <3>1. Cardinality(C) \in Nat
      BY <1>3
    <3>2. m = upto
      BY <2>3, <3>1
    <3> HIDE DEF C, t
    <3>3. /\ t \in [1 .. m -> C] /\ t \in Seq(C) /\ IsInjective(t) /\ Cardinality(Range(t)) = m
          /\ Range(t) \subseteq C /\ \A i \in 1 .. m : t[i] = o[i]
          /\ \A i, j \in 1 .. m : i < j => SortKey(t[i]) <= SortKey(t[j])
      BY <2>1, <2>3, TakeIs DEF t, C
    <3> HIDE DEF m
    <3> QED
      BY <3>2, <3>3
  <2> HIDE DEF C, t, b
  <2>6. t \in Seq(P)
    BY <2>3, <2>5
  <2>7. SortKey(o[upto]) \in Nat
    BY <1>2, <2>3, <2>5
  <2>8. AtMost(Range(t), SortKey(o[upto])) = Range(t)
    <3>1. ASSUME NEW y \in Range(t) PROVE SortKey(y) <= SortKey(t[upto])
      <4>1. PICK i \in 1 .. upto : y = t[i]
        BY <2>5 DEF Range
      <4>2. i < upto \/ i = upto
        OBVIOUS
      <4> QED
        BY <2>5, <2>7, <4>1, <4>2
    <3> QED
      BY <2>5, <3>1 DEF AtMost
  <2> HIDE DEF P, T
  <2>9. KeepsBest(new, P, upto)
    BY <1>9, <2>2, <2>4, <2>5, <2>6, <2>7, <2>8 DEF KeepsBest, T
  <2> QED
    BY <2>9 DEF P
<1> QED
  <2> HIDE DEF b
  <2>1. Len(b) <= upto \/ Len(b) > upto
    BY <1>3
  <2>2. \/ (\E t \in st.threshold : SortKey(x) >= t) /\ new = st
        \/ new = [st EXCEPT !.acc = b]
        \/ Len(b) > upto /\ \E o \in Orders(Range(b)) :
               new = [st EXCEPT !.acc = Take(o, upto), !.threshold = {SortKey(o[upto])}]
    BY <2>1 DEF PushItem, b
  <2> QED
    BY <1>7, <1>10, <1>11, <2>2

\* A task is done.
LEMMA MergeKeepsBest ==
    ASSUME Ordered, NEW S \in SUBSET DOMAIN s.rows, NEW upto \in Nat \ {0},
           NEW st, KeepsBest(st, S, upto), NEW new \in Merge(st, upto)
    PROVE  KeepsBest(new, S, upto) /\ \E C \in SUBSET S : \E o \in Orders(C) : new.top = Take(o, upto)
<1> DEFINE C == Range(st.acc) \cup Range(st.top)
<1>1. PICK o \in Orders(C) : new = [acc |-> <<>>, threshold |-> {}, top |-> Take(o, upto)]
  BY DEF Merge
<1>2. Best(C, S, upto) /\ C \in SUBSET S
  BY DEF KeepsBest, Best
<1> HIDE DEF C
<1>3. Best(Range(Take(o, upto)) \cup {}, S, upto)
  <2>1. C \cup {} = C /\ {} \in SUBSET S
    OBVIOUS
  <2> QED
    BY <1>1, <1>2, <2>1, CutKeepsBest
<1>4. /\ DOMAIN new = {"acc", "threshold", "top"}
      /\ new.acc = <<>> /\ new.threshold = {} /\ new.top = Take(o, upto)
  BY <1>1
<1>5. <<>> \in Seq(S) /\ IsInjective(<<>>) /\ Range(<<>>) = {}
  BY DEF IsInjective, Range
<1>6. Range(<<>>) \cup Range(Take(o, upto)) = Range(Take(o, upto)) \cup {}
  BY <1>5
<1> QED
  BY <1>1, <1>2, <1>3, <1>4, <1>5, <1>6 DEF KeepsBest

\* The loop over the rows that search has listed.
TopStep(before, list, n, upto) ==
    LET pushed == UNION {PushItem(st, list[n], upto) : st \in before}
        merged == UNION {Merge(st, upto) : st \in pushed}
    IN (IF n = Len(list) THEN {} ELSE pushed)
       \cup (IF n = Len(list) \/ n % Chunk = 0 THEN merged ELSE {})
TopLoop(g, k, list, upto) ==
    g = [n \in 0 .. k |-> IF n = 0 THEN {[acc |-> <<>>, threshold |-> {}, top |-> <<>>]}
                          ELSE TopStep(g[n - 1], list, n, upto)]

\* It has a result, ...
LEMMA TopLoopRuns ==
    ASSUME NEW list, NEW upto, NEW N \in Nat
    PROVE  \E g : TopLoop(g, N, list, upto)
<1> DEFINE none == {[acc |-> <<>>, threshold |-> {}, top |-> <<>>]}
           turn(f, n) == IF n = 0 THEN none ELSE TopStep(f[n - 1], list, n, upto)
           Good == {k \in Nat : \E g : TopLoop(g, k, list, upto)}
<1>1. 0 \in Good
  <2> DEFINE g == [n \in 0 .. 0 |-> none]
  <2>1. g = [n \in 0 .. 0 |-> turn(g, n)]
    OBVIOUS
  <2> QED
    BY <2>1 DEF TopLoop
<1>2. ASSUME NEW k \in 1 .. N, k - 1 \in Good PROVE k \in Good
  <2>1. PICK f : TopLoop(f, k - 1, list, upto)
    BY <1>2
  <2> DEFINE g == [n \in 0 .. k |-> IF n = k THEN turn(f, k) ELSE f[n]]
  <2>2. ASSUME NEW n \in 0 .. k
        PROVE  g[n] = turn(g, n)
    <3>1. CASE n = k
      <4>1. g[n] = turn(f, k) /\ k # 0 /\ g[k - 1] = f[k - 1]
        BY <3>1
      <4> HIDE DEF g
      <4> QED
        BY <3>1, <4>1
    <3>2. CASE n # k
      <4>1. n \in 0 .. k - 1 /\ (n # 0 => n - 1 \in 0 .. k - 1 /\ n - 1 # k)
        BY <3>2
      <4>2. g[n] = f[n] /\ (n # 0 => g[n - 1] = f[n - 1])
        BY <3>2, <4>1
      <4>3. f[n] = turn(f, n)
        BY <2>1, <4>1 DEF TopLoop
      <4> HIDE DEF g
      <4> QED
        BY <4>2, <4>3
    <3> QED
      BY <3>1, <3>2
  <2>3. g = [n \in 0 .. k |-> g[n]]
    OBVIOUS
  <2> HIDE DEF g
  <2>4. TopLoop(g, k, list, upto)
    BY <2>2, <2>3 DEF TopLoop
  <2> QED
    BY <2>4
<1>3. N \in Good
  <2> HIDE DEF Good
  <2>1. \A k \in 0 .. N : k \in Good
    BY <1>1, <1>2, UpTo
  <2> QED
    BY <2>1
<1> QED
  BY <1>3

\* ... reached row by row.
LEMMA TopSteps ==
    ASSUME NEW list, NEW upto, Len(list) \in Nat
    PROVE  \E g : /\ TopK(list, upto) = {st.top : st \in g[Len(list)]}
                  /\ g[0] = {[acc |-> <<>>, threshold |-> {}, top |-> <<>>]}
                  /\ \A n \in 1 .. Len(list) : g[n] = TopStep(g[n - 1], list, n, upto)
<1> DEFINE g == CHOOSE g : TopLoop(g, Len(list), list, upto)
<1>1. TopK(list, upto) = {st.top : st \in g[Len(list)]}
  BY Zenon DEF TopK, TopLoop, TopStep
<1>2. TopLoop(g, Len(list), list, upto)
  BY TopLoopRuns
<1> HIDE DEF g
<1>3. g[0] = {[acc |-> <<>>, threshold |-> {}, top |-> <<>>]}
  BY <1>2 DEF TopLoop
<1>4. ASSUME NEW n \in 1 .. Len(list) PROVE g[n] = TopStep(g[n - 1], list, n, upto)
  <2>1. n \in 0 .. Len(list) /\ n # 0
    OBVIOUS
  <2> QED
    BY <1>2, <2>1 DEF TopLoop
<1> QED
  BY <1>1, <1>3, <1>4

\* What comes out is sorted and has the best rows.
LEMMA TopIsBest ==
    ASSUME Ordered, NEW S \in SUBSET DOMAIN s.rows, NEW upto \in Nat \ {0},
           NEW list \in Seq(S), IsInjective(list), Range(list) = S, NEW top \in TopK(list, upto)
    PROVE  /\ Best(Range(top), S, upto)
           /\ (S = {} /\ top = <<>>) \/ \E C \in SUBSET S : \E o \in Orders(C) : top = Take(o, upto)
<1> DEFINE N == Len(list)
           Seen(k) == {list[i] : i \in 1 .. k}
<1>1. N \in Nat /\ list \in [1 .. N -> S]
  OBVIOUS
<1>2. PICK g : /\ TopK(list, upto) = {st.top : st \in g[N]}
               /\ g[0] = {[acc |-> <<>>, threshold |-> {}, top |-> <<>>]}
               /\ \A n \in 1 .. N : g[n] = TopStep(g[n - 1], list, n, upto)
  BY <1>1, TopSteps
<1> DEFINE Good == {k \in 0 .. N :
              /\ \A st \in g[k] : KeepsBest(st, Seen(k), upto)
              /\ k = N /\ k # 0 => \A st \in g[k] : /\ st.acc = <<>>
                                     /\ \E C \in SUBSET S : \E o \in Orders(C) : st.top = Take(o, upto)}
<1>3. \A k \in 0 .. N : Seen(k) \in SUBSET S
  BY <1>1
<1>4. Seen(N) = S
  BY <1>1 DEF Range
<1>5. Seen(0) = {}
  OBVIOUS
<1>6. ASSUME NEW k \in 1 .. N
      PROVE  /\ list[k] \in S /\ list[k] \notin Seen(k - 1) /\ Seen(k) = Seen(k - 1) \cup {list[k]}
             /\ k - 1 \in 0 .. N
  <2>1. list[k] \in S /\ k - 1 \in 0 .. N
    BY <1>1
  <2>2. \A i \in 1 .. k - 1 : i \in 1 .. N /\ i # k /\ i \in 1 .. k
    BY <1>1
  <2>3. list[k] \notin Seen(k - 1)
    BY <1>1, <2>2 DEF IsInjective
  <2>4. \A i \in 1 .. k : i \in 1 .. k - 1 \/ i = k
    BY <1>1
  <2>5. k \in 1 .. k
    OBVIOUS
  <2>6. Seen(k) = Seen(k - 1) \cup {list[k]}
    BY <2>2, <2>4, <2>5
  <2> QED
    BY <2>1, <2>3, <2>6
<1> HIDE DEF Seen, N
<1>7. 0 \in Good
  <2> DEFINE st == [acc |-> <<>>, threshold |-> {}, top |-> <<>>]
  <2>1. DOMAIN st = {"acc", "threshold", "top"} /\ st.acc = <<>> /\ st.threshold = {} /\ st.top = <<>>
    OBVIOUS
  <2>2. <<>> \in Seq({}) /\ IsInjective(<<>>) /\ Range(<<>>) = {}
    BY DEF IsInjective, Range
  <2>3. Best({}, {}, upto)
    BY DEF Best
  <2>4. Range(<<>>) \cup Range(<<>>) = {}
    BY <2>2
  <2> HIDE DEF st
  <2>5. KeepsBest(st, {}, upto)
    BY <2>1, <2>2, <2>3, <2>4 DEF KeepsBest
  <2>6. g[0] = {st}
    BY <1>2 DEF st
  <2>7. \A a \in g[0] : KeepsBest(a, Seen(0), upto)
    BY <1>5, <2>5, <2>6
  <2>8. 0 \in 0 .. N
    BY <1>1
  <2> QED
    BY <2>7, <2>8
<1>8. ASSUME NEW k \in 1 .. N, k - 1 \in Good PROVE k \in Good
  <2> DEFINE pushed == UNION {PushItem(st, list[k], upto) : st \in g[k - 1]}
             merged == UNION {Merge(st, upto) : st \in pushed}
  <2>1. /\ list[k] \in DOMAIN s.rows /\ list[k] \notin Seen(k - 1) /\ Seen(k) = Seen(k - 1) \cup {list[k]}
        /\ Seen(k - 1) \in SUBSET DOMAIN s.rows /\ Seen(k) \in SUBSET DOMAIN s.rows /\ Seen(k) \in SUBSET S
    BY <1>1, <1>3, <1>6
  <2>2. \A st \in g[k - 1] : KeepsBest(st, Seen(k - 1), upto)
    BY <1>8
  <2>3. ASSUME NEW new \in pushed PROVE KeepsBest(new, Seen(k), upto)
    <3>1. PICK st \in g[k - 1] : new \in PushItem(st, list[k], upto)
      BY <2>3
    <3>2. KeepsBest(st, Seen(k - 1), upto)
      BY <2>2, <3>1
    <3> QED
      BY <2>1, <3>1, <3>2, PushKeepsBest
  <2>4. ASSUME NEW new \in merged
        PROVE  /\ KeepsBest(new, Seen(k), upto) /\ new.acc = <<>>
               /\ \E C \in SUBSET S : \E o \in Orders(C) : new.top = Take(o, upto)
    <3>1. PICK st \in pushed : new \in Merge(st, upto)
      BY <2>4
    <3> HIDE DEF pushed, merged
    <3>2. KeepsBest(st, Seen(k), upto)
      BY <2>3, <3>1
    <3>3. /\ KeepsBest(new, Seen(k), upto)
          /\ \E C \in SUBSET Seen(k) : \E o \in Orders(C) : new.top = Take(o, upto)
      <4> DEFINE R == Seen(k)
      <4>1. R \in SUBSET DOMAIN s.rows /\ KeepsBest(st, R, upto)
        BY <2>1, <3>2
      <4> HIDE DEF R
      <4>2. KeepsBest(new, R, upto) /\ \E C \in SUBSET R : \E o \in Orders(C) : new.top = Take(o, upto)
        BY <3>1, <4>1, MergeKeepsBest
      <4> QED
        BY <4>2 DEF R
    <3>4. new.acc = <<>>
      BY <3>1 DEF Merge
    <3> QED
      BY <2>1, <3>3, <3>4
  <2>5. g[k] = (IF k = Len(list) THEN {} ELSE pushed)
               \cup (IF k = Len(list) \/ k % Chunk = 0 THEN merged ELSE {})
    BY <1>2 DEF TopStep
  <2> HIDE DEF pushed, merged
  <2>6. \A st \in g[k] : st \in pushed \/ st \in merged
    BY <2>5
  <2>7. k = N => \A st \in g[k] : st \in merged
    BY <2>5 DEF N
  <2>8. \A st \in g[k] : KeepsBest(st, Seen(k), upto)
    BY <2>3, <2>4, <2>6
  <2>9. k \in 0 .. N
    BY <1>1
  <2> QED
    BY <2>4, <2>7, <2>8, <2>9
<1>9. N \in Good
  <2> HIDE DEF Good
  <2>1. \A k \in 0 .. N : k \in Good
    BY <1>1, <1>7, <1>8, UpTo
  <2> QED
    BY <1>1, <2>1
<1>10. PICK st \in g[N] : top = st.top
  BY <1>2
<1>11. KeepsBest(st, S, upto)
  BY <1>4, <1>9, <1>10
<1>12. Range(<<>>) = {}
  BY DEF Range
<1>13. CASE N = 0
  <2>1. S = {} /\ st.acc = <<>> /\ top = <<>>
    BY <1>2, <1>4, <1>5, <1>10, <1>13
  <2>2. Range(st.acc) \cup Range(top) = Range(top)
    BY <1>12, <2>1
  <2> QED
    BY <1>10, <1>11, <2>1, <2>2 DEF KeepsBest
<1>14. CASE N # 0
  <2>1. st.acc = <<>> /\ \E C \in SUBSET S : \E o \in Orders(C) : st.top = Take(o, upto)
    BY <1>9, <1>10, <1>14
  <2>2. Range(st.acc) \cup Range(top) = Range(top)
    BY <1>12, <2>1
  <2> QED
    BY <1>10, <1>11, <2>1, <2>2 DEF KeepsBest
<1> QED
  BY <1>13, <1>14

\* The sorted list has, at each place, a key that the sorted result has there.
Ranked(top, S, upto) ==
    /\ top \in Seq(S) /\ IsInjective(top)
    /\ Len(top) = IF upto <= Cardinality(S) THEN upto ELSE Cardinality(S)
    /\ \A i \in 1 .. Len(top) :
         /\ Cardinality({l \in S : SortKey(l) < SortKey(top[i])}) < i
         /\ Cardinality({l \in S : SortKey(l) <= SortKey(top[i])}) >= i

\* It has, if it is sorted and has the best rows.
LEMMA BestIsRanked ==
    ASSUME Ordered, NEW S \in SUBSET DOMAIN s.rows, NEW upto \in Nat \ {0},
           NEW C \in SUBSET S, NEW o \in Orders(C), NEW top, top = Take(o, upto), Best(Range(top), S, upto)
    PROVE  Ranked(top, S, upto)
<1> DEFINE m == IF upto <= Cardinality(C) THEN upto ELSE Cardinality(C)
           D == Range(top)
<1>1. Fixed /\ C \in SUBSET DOMAIN s.rows
  BY DEF Ordered
<1>2. /\ m \in Nat /\ m <= upto /\ m <= Cardinality(C) /\ top \in [1 .. m -> C] /\ top \in Seq(C) /\ Len(top) = m
      /\ IsInjective(top) /\ Cardinality(D) = m /\ D \subseteq C
      /\ \A i, j \in 1 .. m : i < j => SortKey(top[i]) <= SortKey(top[j])
      /\ m # upto => D = C
  <2> DEFINE t == Take(o, upto)
  <2>1. /\ m \in Nat /\ m <= upto /\ m <= Cardinality(C) /\ t \in [1 .. m -> C] /\ t \in Seq(C) /\ Len(t) = m
        /\ IsInjective(t) /\ Cardinality(Range(t)) = m /\ Range(t) \subseteq C
        /\ \A i, j \in 1 .. m : i < j => SortKey(t[i]) <= SortKey(t[j])
        /\ m # upto => Range(t) = C
    BY <1>1, TakeIs
  <2>2. t = top
    OBVIOUS
  <2> HIDE DEF t, m
  <2> QED
    BY <2>1, <2>2
<1> HIDE DEF m
<1>3. \A l \in S : SortKey(l) \in Nat
  BY KeysAreNumbers
<1>4. \A l \in S \ D : Cardinality(AtMost(D, SortKey(l))) >= upto
  BY DEF Best
<1>5. Cardinality(S) \in Nat /\ Cardinality(D) <= Cardinality(S)
  BY <1>1, <1>2, FewerRows
<1>6. \A B \in SUBSET D : Cardinality(B) <= m /\ Cardinality(B) \in Nat
  <2> HIDE DEF D
  <2>1. D \in SUBSET DOMAIN s.rows
    BY <1>2
  <2> QED
    BY <1>1, <1>2, <2>1, FewerRows
<1>7. m = IF upto <= Cardinality(S) THEN upto ELSE Cardinality(S)
  <2>1. CASE m = upto
    BY <1>2, <1>5, <2>1
  <2>2. CASE m # upto
    <3>1. ASSUME NEW l \in S \ D PROVE FALSE
      <4>1. AtMost(D, SortKey(l)) \in SUBSET D
        BY DEF AtMost
      <4>2. Cardinality(AtMost(D, SortKey(l))) <= m /\ Cardinality(AtMost(D, SortKey(l))) \in Nat
        BY <1>6, <4>1
      <4> QED
        BY <1>2, <1>4, <2>2, <4>2
    <3>2. D = S
      BY <1>2, <3>1
    <3> HIDE DEF D
    <3> QED
      BY <1>2, <1>5, <2>2, <3>2
  <2> QED
    BY <2>1, <2>2
<1>8. ASSUME NEW i \in 1 .. m
      PROVE  /\ Cardinality({l \in S : SortKey(l) < SortKey(top[i])}) < i
             /\ Cardinality({l \in S : SortKey(l) <= SortKey(top[i])}) >= i
  <2> DEFINE k == SortKey(top[i])
             Upto(j) == {top[h] : h \in 1 .. j}
             Less == {l \in S : SortKey(l) < k}
             Leq == {l \in S : SortKey(l) <= k}
  <2>1. ASSUME NEW j \in 0 .. m PROVE Cardinality(Upto(j)) = j /\ Upto(j) \in SUBSET S /\ Upto(j) \in SUBSET D
    <3> DEFINE f == [h \in 1 .. j |-> top[h]]
    <3>1. \A h \in 1 .. j : h \in 1 .. m
      BY <1>2
    <3>2. f \in [1 .. j -> C] /\ IsInjective(f) /\ Range(f) = Upto(j)
      <4>1. f \in [1 .. j -> C] /\ \A h \in 1 .. j : f[h] = top[h]
        BY <1>2, <3>1
      <4> HIDE DEF f
      <4>2. IsInjective(f)
        BY <1>2, <3>1, <4>1 DEF IsInjective
      <4>3. Range(f) = Upto(j)
        BY <4>1 DEF Range
      <4> QED
        BY <4>1, <4>2, <4>3
    <3> HIDE DEF f
    <3>3. Cardinality(Range(f)) = j
      <4>1. j \in Nat
        BY <1>2
      <4> HIDE DEF Upto
      <4> QED
        BY <3>2, <4>1, ListCount
    <3>4. Upto(j) \in SUBSET S /\ Upto(j) \in SUBSET D
      BY <1>2, <3>1 DEF Range
    <3> QED
      BY <3>2, <3>3, <3>4
  <2>2. k \in Nat /\ top[i] \in S
    BY <1>2, <1>3
  <2>3. i \in Nat /\ i \in 0 .. m /\ i - 1 \in 0 .. m
    BY <1>2
  <2> HIDE DEF k
  <2>4. Upto(i) \subseteq Leq
    <3>1. ASSUME NEW h \in 1 .. i PROVE SortKey(top[h]) <= k
      <4>1. h \in 1 .. m /\ (h < i \/ h = i)
        BY <1>2
      <4> QED
        BY <1>2, <2>2, <4>1 DEF k
    <3> QED
      BY <2>1, <2>3, <3>1
  <2>5. ASSUME NEW l \in D, SortKey(l) < k PROVE l \in Upto(i - 1)
    <3>1. PICK j \in 1 .. m : top[j] = l
      BY <1>2 DEF Range
    <3>2. ~(i = j) /\ ~(i < j)
      <4>1. SortKey(l) \in Nat
        BY <1>2, <1>3
      <4> QED
        BY <1>2, <2>2, <2>5, <3>1, <4>1 DEF k
    <3>3. j \in 1 .. i - 1
      BY <1>2, <3>2
    <3> QED
      BY <3>1, <3>3
  <2>6. ASSUME NEW l \in S \ D, SortKey(l) < k PROVE FALSE
    <3> DEFINE B == AtMost(D, SortKey(l))
    <3>1. \A x \in B : SortKey(x) < k
      <4>1. \A x \in B : x \in S /\ SortKey(x) <= SortKey(l)
        BY <1>2 DEF AtMost
      <4> HIDE DEF B
      <4> QED
        BY <1>3, <2>2, <2>6, <4>1
    <3>2. B \in SUBSET Upto(i - 1)
      BY <2>5, <3>1 DEF AtMost
    <3>3. Upto(i - 1) \in SUBSET DOMAIN s.rows /\ Cardinality(Upto(i - 1)) = i - 1
      BY <2>1, <2>3
    <3>4. Cardinality(B) >= upto
      BY <1>4
    <3> HIDE DEF B, Upto
    <3>5. Cardinality(B) <= i - 1 /\ Cardinality(B) \in Nat
      BY <1>1, <3>2, <3>3, FewerRows
    <3> QED
      BY <1>2, <2>3, <3>4, <3>5
  <2>7. Less \in SUBSET Upto(i - 1)
    BY <2>5, <2>6
  <2>8. /\ Upto(i - 1) \in SUBSET DOMAIN s.rows /\ Cardinality(Upto(i - 1)) = i - 1
        /\ Leq \in SUBSET DOMAIN s.rows /\ Cardinality(Upto(i)) = i
    BY <2>1, <2>3
  <2> HIDE DEF Upto, Less, Leq
  <2>9. Cardinality(Less) <= i - 1 /\ Cardinality(Less) \in Nat
    BY <1>1, <2>7, <2>8, FewerRows
  <2>10. i <= Cardinality(Leq) /\ Cardinality(Leq) \in Nat
    BY <1>1, <2>4, <2>8, FewerRows
  <2>11. Cardinality(Less) < i /\ Cardinality(Leq) >= i
    BY <2>3, <2>9, <2>10
  <2> QED
    BY <2>11 DEF Less, Leq, k
<1>9. top \in Seq(S)
  BY <1>2
<1> QED
  BY <1>2, <1>7, <1>8, <1>9 DEF Ranked

\* TopK ranks the rows of its list, however they are split into tasks.
LEMMA TopIsRanked ==
    ASSUME Ordered, NEW S \in SUBSET DOMAIN s.rows, NEW upto \in Nat \ {0},
           NEW list \in Seq(S), IsInjective(list), Range(list) = S, NEW top \in TopK(list, upto)
    PROVE  Ranked(top, S, upto)
<1>1. /\ Best(Range(top), S, upto)
      /\ (S = {} /\ top = <<>>) \/ \E C \in SUBSET S : \E o \in Orders(C) : top = Take(o, upto)
  BY TopIsBest
<1>2. CASE S = {} /\ top = <<>>
  <2>1. Cardinality(S) = 0
    BY <1>2, FS_EmptySet
  <2>2. top \in Seq(S) /\ IsInjective(top) /\ Len(top) = 0
    BY <1>2 DEF IsInjective
  <2> QED
    BY <2>1, <2>2 DEF Ranked
<1>3. CASE \E C \in SUBSET S : \E o \in Orders(C) : top = Take(o, upto)
  BY <1>1, <1>3, BestIsRanked
<1> QED
  BY <1>1, <1>2, <1>3

\* What OrderedPageIsRight says of the page that was fetched.
PageIsRight(page) ==
    /\ Len(page) = Min({PageSize, IF Cardinality(Search) > q.offset
                                  THEN Cardinality(Search) - q.offset ELSE 0})
    /\ IsInjective(page) /\ Range(page) \subseteq Search
    /\ \A i \in DOMAIN page :
         /\ Cardinality({l \in Search : SortKey(l) < SortKey(page[i])}) < q.offset + i
         /\ Cardinality({l \in Search : SortKey(l) <= SortKey(page[i])}) >= q.offset + i

\* The page after the first offset rows.
LEMMA PageOfRanked ==
    ASSUME Ordered, NEW top, Ranked(top, Search, q.offset + PageSize)
    PROVE  PageIsRight(SubSeq(top, q.offset + 1, Len(top)))
<1> DEFINE N == Cardinality(Search)
           off == q.offset
           size == PageSize
           M == Len(top)
           page == SubSeq(top, off + 1, M)
           P == Len(page)
<1>1. off \in Nat /\ size \in Nat /\ Fixed
  BY QueryFacts, SizesArePositive DEF Ordered
<1>2. N \in Nat
  <2>1. Search \in SUBSET DOMAIN s.rows
    BY <1>1, SearchIsLive, TableFacts
  <2> QED
    BY <1>1, <2>1, FewerRows
<1>3. /\ top \in Seq(Search) /\ IsInjective(top) /\ M = IF off + size <= N THEN off + size ELSE N
      /\ \A i \in 1 .. M :
           /\ Cardinality({l \in Search : SortKey(l) < SortKey(top[i])}) < i
           /\ Cardinality({l \in Search : SortKey(l) <= SortKey(top[i])}) >= i
  BY DEF Ranked
<1> HIDE DEF N, off, size
<1>4. M \in Nat
  BY <1>3
<1>5. page \in Seq(Search) /\ P = (IF off + 1 <= M THEN M - off ELSE 0) /\ \A i \in 1 .. P : page[i] = top[off + i]
  <2>1. CASE off + 1 <= M
    <3>1. off + 1 \in 1 .. Len(top) /\ M \in 1 .. Len(top)
      BY <1>1, <1>4, <2>1
    <3>2. page \in Seq(Search) /\ P = M - (off + 1) + 1 /\ \A i \in 1 .. P : page[i] = top[(off + 1) + i - 1]
      BY <1>3, <3>1
    <3> HIDE DEF M, P, page
    <3>3. M - (off + 1) + 1 = M - off /\ \A i \in Nat : (off + 1) + i - 1 = off + i
      BY <1>1, <1>4
    <3>4. \A i \in 1 .. P : i \in Nat
      OBVIOUS
    <3> QED
      BY <2>1, <3>2, <3>3, <3>4
  <2>2. CASE ~(off + 1 <= M)
    BY <1>1, <1>3, <1>4, <2>2
  <2> QED
    BY <2>1, <2>2
<1>6. DOMAIN page = 1 .. P /\ DOMAIN top = 1 .. M
  BY <1>3, <1>5
<1> HIDE DEF M, page, P
<1>7. \A i \in 1 .. P : off + i \in 1 .. M /\ i \in Nat
  BY <1>1, <1>4, <1>5
<1>8. P = Min({size, IF N > off THEN N - off ELSE 0})
  <2> DEFINE r == IF N > off THEN N - off ELSE 0
  <2>1. r \in Nat /\ P = IF size <= r THEN size ELSE r
    BY <1>1, <1>2, <1>3, <1>5
  <2> HIDE DEF r
  <2>2. P = Min({size, r})
    BY <1>1, <2>1, MinOfTwo
  <2> QED
    BY <2>2 DEF r
<1>9. IsInjective(page)
  <2>1. ASSUME NEW i \in 1 .. P, NEW j \in 1 .. P, page[i] = page[j] PROVE i = j
    <3>1. off + i = off + j
      BY <1>3, <1>5, <1>6, <1>7, <2>1 DEF IsInjective
    <3> QED
      BY <1>1, <1>7, <3>1
  <2> QED
    BY <1>6, <2>1 DEF IsInjective
<1>10. Range(page) \subseteq Search
  BY <1>5 DEF Range
<1>11. ASSUME NEW i \in DOMAIN page
       PROVE  /\ Cardinality({l \in Search : SortKey(l) < SortKey(page[i])}) < off + i
              /\ Cardinality({l \in Search : SortKey(l) <= SortKey(page[i])}) >= off + i
  <2>1. page[i] = top[off + i] /\ off + i \in 1 .. M
    BY <1>5, <1>6, <1>7
  <2> QED
    BY <1>3, <2>1
<1>12. PageIsRight(page)
  BY <1>8, <1>9, <1>10, <1>11 DEF PageIsRight, P, N, off, size
<1> QED
  BY <1>12 DEF page, off, M

\* A page that is right stays so.
LEMMA SamePage ==
    ASSUME s' = s, q' = q, Fixed, fetched' = fetched, PageIsRight(fetched)
    PROVE  PageIsRight(fetched)'
<1>1. Search' = Search
  BY SameSearch
<1>2. \A l : SortKey(l)' = SortKey(l)
  BY DEF SortKey
<1> QED
  BY <1>1, <1>2 DEF PageIsRight

OrderInv == Fixed /\ OrderedPageIsRight

\* Every step keeps a page right.
LEMMA OrderIsKept ==
    ASSUME OrderInv, [SearchNext]_searchVars
    PROVE  OrderInv'
<1>1. s' = s /\ q' = q
  BY DEF SearchNext, searchVars, FetchByProbe, FetchPage, FetchOrdered
<1>2. Fixed /\ Fixed'
  BY <1>1 DEF Fixed, OrderInv
<1>3. OrderedPageIsRight <=> (done /\ q.order # NoOrder => PageIsRight(fetched))
  BY DEF OrderedPageIsRight, PageIsRight
<1>4. OrderedPageIsRight' <=> (done' /\ q.order # NoOrder => PageIsRight(fetched)')
  BY <1>1 DEF OrderedPageIsRight, PageIsRight
<1>5. SUFFICES ASSUME done', q.order # NoOrder PROVE PageIsRight(fetched)'
  BY <1>2, <1>4 DEF OrderInv
<1>6. CASE FetchOrdered
  <2>1. PICK list \in SearchListings : \E top \in TopK(list, q.offset + PageSize) :
            fetched' = SubSeq(top, q.offset + 1, Len(top))
    BY <1>6 DEF FetchOrdered
  <2>2. PICK top \in TopK(list, q.offset + PageSize) : fetched' = SubSeq(top, q.offset + 1, Len(top))
    BY <2>1
  <2>3. Search \in SUBSET DOMAIN s.rows
    BY <1>2, SearchIsLive, TableFacts
  <2>4. \E orders \in SUBSET Orderings : list \in Listings(Search, orders)
    BY <2>1 DEF SearchListings, Orderings
  <2>5. list \in Seq(Search) /\ IsInjective(list) /\ Range(list) = Search
    BY <1>2, <2>3, <2>4, ListingIs
  <2>6. q.offset + PageSize \in Nat \ {0}
    BY <1>2, QueryFacts, SizesArePositive
  <2>7. Ordered
    BY <1>2, <1>5 DEF Ordered
  <2>8. Ranked(top, Search, q.offset + PageSize)
    BY <2>2, <2>3, <2>5, <2>6, <2>7, TopIsRanked
  <2> DEFINE page == SubSeq(top, q.offset + 1, Len(top))
  <2>9. PageIsRight(page) /\ fetched' = page
    BY <2>2, <2>7, <2>8, PageOfRanked
  <2> HIDE DEF page
  <2>10. Search' = Search /\ \A l : SortKey(l)' = SortKey(l)
    BY <1>1, <1>2, SameSearch DEF SortKey
  <2> QED
    BY <1>1, <2>9, <2>10 DEF PageIsRight
<1>7. CASE UNCHANGED searchVars
  BY <1>1, <1>2, <1>3, <1>5, <1>7, SamePage DEF searchVars, OrderInv
<1>8. ~FetchByProbe /\ ~FetchPage
  BY <1>5 DEF FetchByProbe, FetchPage
<1> QED
  BY <1>6, <1>7, <1>8 DEF SearchNext

\* For every table with complete indexes, every query with an order, and every page
\* size, chunk size, buffer and split of the rows into parallel tasks: an ordered
\* page has the keys that sorting the whole result puts there.
THEOREM OrderedPageIsRightHolds == SearchSpec => []OrderedPageIsRight
<1>1. SearchInit => OrderInv
  BY DEF SearchInit, OrderInv, Fixed, OrderedPageIsRight
<1>2. OrderInv /\ [SearchNext]_searchVars => OrderInv'
  BY OrderIsKept
<1>3. OrderInv => OrderedPageIsRight
  BY DEF OrderInv
<1> QED
  BY <1>1, <1>2, <1>3, PTL DEF SearchSpec
=============================================================================
