----------------------------- MODULE QueryProof -----------------------------
(***************************************************************************)
(* Proofs about the two ends of a query.                                   *)
(*                                                                         *)
(* First the indexes a table keeps while it is written to, for any keys,   *)
(* values, columns, segment and cache sizes and any number of rows and     *)
(* crashes: filters, zone maps and exact indexes never hide a live row,    *)
(* except after the crashes and the early saves that the history names.    *)
(*                                                                         *)
(* Then what the executor makes of several tables, for any tables, queries *)
(* and join limit: after every join the executor's rows and those of the   *)
(* relational reading correspond, one to one and in order, as far as they  *)
(* meet the filters on the tables joined so far; once the rows are cut to  *)
(* the page, they are the first of the whole result.  Rows that a          *)
(* fingerprint cannot tell apart correspond as sets.  What is in between,  *)
(* the search of one table, is in SearchProof.                             *)
(***************************************************************************)
EXTENDS SecondaryIndexes, JoinQuery, TableOpsProof, FiniteSetTheorems

-----------------------------------------------------------------------------
(* The inductive invariant                                                 *)

\* What is on disk of the active segment's rows survives a crash.
Durable(l) == l \in DOMAIN t.rows /\ (Immutable(l) \/ l[2] <= t.flushed)

FilesAreDurable ==
    /\ bmFile # None => \A l \in bmFile : Durable(l)
    /\ \A l \in mmFile : Durable(l)
    /\ \A f \in Field : xf[f] # None => \A l \in xf[f] : Durable(l)
    /\ ~ up => t.flushed = t.count

\* A cached index names every immutable segment: only one that was loaded from its
\* file is ever patched, with rows that are on disk.  A closed table caches nothing
\* and has only the bitmaps of its immutable segments.
CachedAreComplete ==
    /\ \A f \in Field : xc[f] # None =>
         \A l \in bm : Immutable(l) => l[1] \in SegmentIds(xc[f])
    /\ ~ up => (\A f \in Field : xc[f] = None) /\ \A l \in bm : Immutable(l)

IndexTypes ==
    /\ TypeOK
    /\ Bounded(t)
    /\ Layout(t)
    /\ FilesAreDurable
    /\ CachedAreComplete

\* What a closed table will rehydrate has the live rows of the active segment.
BitmapsInv ==
    "bitmaps" \notin exposure =>
        /\ {l \in Live(t) : up \/ Immutable(l)} \subseteq bm
        /\ ~ up /\ bmFile # None => {l \in Live(t) : ~ Immutable(l)} \subseteq bmFile

\* Its zone map, likewise.
ZonesInv ==
    "zones" \notin exposure =>
        /\ {l \in DOMAIN t.rows : up \/ Immutable(l)} \subseteq mm
        /\ ~ up => ActiveLocs(t) \subseteq mmFile

\* An index has all of the live rows of the immutable segments it names; a saved
\* one names no segment that is still written.
Complete(index) == \A l \in Live(t) : Immutable(l) /\ l[1] \in SegmentIds(index) => l \in index

ExactInv ==
    exposure \cap {"bitmaps", "exact"} = {} =>
        \A f \in Field :
            /\ xf[f] # None => Complete(xf[f]) /\ \A l \in xf[f] : Immutable(l)
            /\ xc[f] # None => Complete(xc[f])

IndexInv == IndexTypes /\ BitmapsInv /\ ZonesInv /\ ExactInv

\* What the types say of the table and its rows.
LEMMA TableFacts ==
    ASSUME IndexTypes
    PROVE  /\ WellFormed(t) /\ Layout(t)
           /\ t.active \in Nat /\ t.count \in Nat /\ t.flushed \in Nat /\ t.flushed <= t.count
           /\ \A l \in DOMAIN t.rows :
                /\ l \in Loc /\ l[1] \in Nat /\ l[2] \in Nat
                /\ l[1] < t.active \/ (l[1] = t.active /\ l[2] <= t.count)
           /\ bm \subseteq DOMAIN t.rows /\ mm \subseteq DOMAIN t.rows
           /\ Live(t) \subseteq DOMAIN t.rows
<1>1. WellFormed(t) /\ Layout(t)
  BY DEF IndexTypes, TypeOK, WellFormed
<1>2. \A l \in DOMAIN t.rows : l \in Loc /\ l[1] \in Nat /\ l[2] \in Nat
  BY <1>1 DEF WellFormed, IsTable, Loc
<1> QED BY <1>1, <1>2 DEF IndexTypes, TypeOK, WellFormed, IsTable, Layout, Live

-----------------------------------------------------------------------------
(* Steps of an open table *)

\* What Extended says of the rows of an open table.
LEMMA ExtendedFacts ==
    ASSUME IndexTypes, Extended(t, t')
    PROVE  /\ WellFormed(t)' /\ Layout(t)' /\ t'.active = t.active
           /\ t'.flushed \in Nat /\ t.flushed <= t'.flushed
           /\ DOMAIN t.rows \subseteq DOMAIN t'.rows
           /\ Appended(t, t') \subseteq DOMAIN t'.rows
           /\ \A l \in Appended(t, t') : l[1] = t.active
           /\ DOMAIN t'.rows = DOMAIN t.rows \cup Appended(t, t')
           /\ Live(t)' \subseteq Live(t) \cup Appended(t, t')
           /\ \A l : Immutable(l)' <=> Immutable(l)
           /\ \A l : Durable(l) => Durable(l)'
<1>1. /\ WellFormed(t)' /\ Layout(t)' /\ t'.active = t.active
      /\ t'.flushed \in Nat /\ t.flushed <= t'.flushed
      /\ DOMAIN t.rows \subseteq DOMAIN t'.rows
      /\ \A l \in DOMAIN t'.rows : l \in DOMAIN t.rows \/ l[1] = t'.active
      /\ t.deleted \subseteq t'.deleted
  BY DEF Extended, WellFormed, IsTable, Bounded, Layout
<1>2. \A l : Immutable(l)' <=> Immutable(l)
  BY <1>1 DEF Immutable
<1>3. ASSUME NEW l, Durable(l) PROVE Durable(l)'
  <2>1. l \in DOMAIN t.rows /\ l[2] \in Nat /\ t.flushed \in Nat
    BY <1>3, TableFacts DEF Durable
  <2>2. l[2] <= t.flushed => l[2] <= t'.flushed
    BY <1>1, <2>1
  <2> QED BY <1>1, <1>2, <1>3, <2>2 DEF Durable
<1> QED BY <1>1, <1>2, <1>3 DEF Appended, Live

\* Kept by a step that extends the rows of an open table: with the bitmaps and
\* the zone map, and perhaps with a flush.
LEMMA OpenTableKeeps ==
    ASSUME IndexInv, up, up', Extended(t, t'), idxFile' \in Index,
           bm' = bm \cup Appended(t, t'), mm' = mm \cup Appended(t, t'),
           \/ bmFile' = bmFile
           \/ bmFile' = {l \in bm : l[1] = t.active} /\ t'.flushed = t.count,
           ops' \in 0 .. MaxOps,
           UNCHANGED <<mmFile, xc, xf, crashes, exposure>>
    PROVE  IndexInv'
<1> USE DEF IndexInv
<1>1. IndexTypes
  OBVIOUS
<1> DEFINE new == Appended(t, t')
<1>2. /\ WellFormed(t)' /\ Layout(t)' /\ t'.active = t.active
      /\ t'.flushed \in Nat /\ t.flushed <= t'.flushed
      /\ DOMAIN t.rows \subseteq DOMAIN t'.rows
      /\ new \subseteq DOMAIN t'.rows
      /\ \A l \in new : l[1] = t.active
      /\ DOMAIN t'.rows = DOMAIN t.rows \cup new
      /\ Live(t)' \subseteq Live(t) \cup new
      /\ \A l : Immutable(l)' <=> Immutable(l)
      /\ \A l : Durable(l) => Durable(l)'
  BY ExtendedFacts
<1>3. t.active \in Nat /\ \A l \in new : ~ Immutable(l)
  BY <1>2, TableFacts DEF Immutable
<1> HIDE DEF new
<1>4. \A l \in bmFile' : bmFile' # None => l[1] = t'.active /\ Durable(l)'
  <2>1. CASE bmFile' = bmFile
    BY <1>2, <2>1 DEF IndexTypes, TypeOK, FilesAreDurable
  <2>2. CASE bmFile' = {l \in bm : l[1] = t.active} /\ t'.flushed = t.count
    BY <1>1, <1>2, <2>2, TableFacts DEF Durable, Immutable
  <2> QED BY <2>1, <2>2
<1>5. TypeOK'
  <2>1. IsTable(t)' /\ up' \in BOOLEAN
    BY <1>2 DEF WellFormed, IndexTypes, TypeOK
  <2>2. bm' \subseteq DOMAIN t'.rows /\ mm' \subseteq DOMAIN t'.rows
    BY <1>2 DEF new, IndexTypes, TypeOK
  <2>3. \A f \in Field : \A s \in {xc[f], xf[f]} : s = None \/ s \subseteq DOMAIN t'.rows
    BY <1>2 DEF IndexTypes, TypeOK
  <2> QED BY <1>2, <1>4, <2>1, <2>2, <2>3 DEF IndexTypes, TypeOK
<1>6. Bounded(t)' /\ Layout(t)'
  BY <1>2 DEF WellFormed
<1>7. FilesAreDurable'
  BY <1>2, <1>4 DEF IndexTypes, FilesAreDurable
<1>8. CachedAreComplete'
  BY <1>2, <1>3 DEF IndexTypes, CachedAreComplete, new
<1>9. BitmapsInv'
  BY <1>2 DEF BitmapsInv, new
<1>10. ZonesInv'
  BY <1>2 DEF ZonesInv, new
<1>11. ASSUME NEW index, Complete(index) PROVE Complete(index)'
  BY <1>2, <1>3, <1>11 DEF Complete
<1>12. ExactInv'
  BY <1>2, <1>11 DEF ExactInv
<1> QED BY <1>5, <1>6, <1>7, <1>8, <1>9, <1>10, <1>12 DEF IndexTypes

\* Kept by the row events, the flush of the buffers and the save of the index.
LEMMA RowStepsKeep ==
    ASSUME IndexInv,
           \/ \E p \in PK : DeleteRow(p) \/ \E v \in Val : WriteRow(p, v)
           \/ FlushActiveSegmentBuffers \/ SaveIndex
    PROVE  IndexInv'
<1>1. IndexTypes /\ WellFormed(t) /\ Layout(t) /\ t.count \in Nat
  BY TableFacts DEF IndexInv
<1>2. idxFile \in Index /\ t.index \in Index /\ ops \in 0 .. MaxOps /\ ops \in Nat
  BY <1>1, BoundsAreNat DEF IndexTypes, TypeOK, IsTable
<1>3. ops < MaxOps => ops + 1 \in 0 .. MaxOps
  BY <1>2, BoundsAreNat
<1>4. ASSUME NEW p \in PK, DeleteRow(p) PROVE IndexInv'
  <2>1. Extended(t, t')
    BY <1>1, <1>4, DeleteExtended DEF DeleteRow
  <2>2. Appended(t, t') = {}
    BY <1>1, <1>4 DEF DeleteRow, Appended, Delete, WellFormed, IsTable
  <2> QED BY <1>2, <1>3, <1>4, <2>1, <2>2, OpenTableKeeps DEF DeleteRow, segFiles, exact
<1>5. ASSUME NEW p \in PK, NEW v \in Val, WriteRow(p, v) PROVE IndexInv'
  <2>1. Extended(t, Insert(t, p, v))
    BY <1>1, InsertExtended
  <2>2. Extended(Insert(t, p, v), Reconcile(Insert(t, p, v)))
    BY <2>1, ReconcileExtended DEF Extended
  <2>3. Extended(t, Reconcile(Insert(t, p, v)))
    BY <1>1, <2>1, <2>2, ExtendedTwice
  <2>4. Extended(t, t') /\ bm' = bm \cup Appended(t, t') /\ mm' = mm \cup Appended(t, t')
    BY <1>5, <2>1, <2>3 DEF WriteRow, WithRows
  <2> QED BY <1>2, <1>3, <1>5, <2>4, OpenTableKeeps DEF WriteRow, segFiles, exact
<1>6. CASE FlushActiveSegmentBuffers
  <2>1. t' = FlushBuffers(t)
    BY <1>6 DEF FlushActiveSegmentBuffers
  <2>2. /\ WellFormed(t)' /\ t'.rows = t.rows /\ t'.active = t.active /\ t'.count = t.count
        /\ t'.flushed = t.count /\ t'.deleted = t.deleted
    BY <1>1, <2>1, FlushBuffersGrown DEF Grown, FlushBuffers, WellFormed, IsTable, Bounded
  <2>3. WellFormed(t')
    BY <1>1, <2>1, FlushBuffersGrown DEF Grown
  <2>4. Extended(t, t') /\ Appended(t, t') = {}
    BY <1>1, <2>2, <2>3, SameRowsExtended DEF Appended
  <2> QED BY <1>2, <1>6, <2>2, <2>4, OpenTableKeeps DEF FlushActiveSegmentBuffers, exact, bounds
<1>7. CASE SaveIndex
  <2>1. t' = [t EXCEPT !.wal = <<>>]
    BY <1>7 DEF SaveIndex
  <2>2. WellFormed(t') /\ t'.rows = t.rows /\ t'.active = t.active /\ t'.count = t.count
        /\ t'.flushed = t.flushed /\ t'.deleted = t.deleted
    BY <1>1, <2>1 DEF WellFormed, IsTable, Bounded
  <2>3. Extended(t, t') /\ Appended(t, t') = {}
    BY <1>1, <2>2, SameRowsExtended DEF Appended
  <2> QED BY <1>2, <1>7, <2>3, OpenTableKeeps DEF SaveIndex, segFiles, exact, bounds
<1> QED BY <1>4, <1>5, <1>6, <1>7

-----------------------------------------------------------------------------
(* The exact indexes *)

\* A patched index is one of rows, names every immutable segment that has bitmaps,
\* and is complete if what it was made from was.
LEMMA PatchedFacts ==
    ASSUME IndexTypes, NEW index, index \subseteq DOMAIN t.rows
    PROVE  /\ index \subseteq Patched(index) /\ Patched(index) \subseteq DOMAIN t.rows
           /\ \A l \in bm : Immutable(l) => l[1] \in SegmentIds(Patched(index))
           /\ \A l \in Patched(index) : l \in index \/ Immutable(l)
           /\ {l \in Live(t) : Immutable(l)} \subseteq bm /\ Complete(index) =>
                {l \in Live(t) : Immutable(l)} \subseteq Patched(index)
<1>1. /\ index \subseteq Patched(index) /\ Patched(index) \subseteq DOMAIN t.rows
      /\ \A l \in Patched(index) : l \in index \/ Immutable(l)
  BY DEF Patched, IndexTypes, TypeOK
<1>2. ASSUME NEW l \in bm, Immutable(l) PROVE l[1] \in SegmentIds(Patched(index))
  <2>1. CASE l[1] \in SegmentIds(index)
    BY <1>1, <2>1 DEF SegmentIds
  <2>2. CASE l[1] \notin SegmentIds(index)
    <3>1. l \in Patched(index)
      BY <1>2, <2>2 DEF Patched
    <3> QED BY <3>1 DEF SegmentIds
  <2> QED BY <2>1, <2>2
<1>3. ASSUME {l \in Live(t) : Immutable(l)} \subseteq bm, Complete(index)
      PROVE  {l \in Live(t) : Immutable(l)} \subseteq Patched(index)
  BY <1>3 DEF Patched, Complete
<1> QED BY <1>1, <1>2, <1>3

\* The index a query gets.
LEMMA LoadedFacts ==
    ASSUME IndexInv, NEW f \in Field
    PROVE  /\ LoadedExact(f) \subseteq DOMAIN t.rows
           /\ \A l \in bm : Immutable(l) => l[1] \in SegmentIds(LoadedExact(f))
           /\ xc[f] # None => LoadedExact(f) = xc[f]
           /\ xc[f] = None /\ xf[f] = None => LoadedExact(f) = Built
           /\ xc[f] = None /\ xf[f] # None => \A l \in LoadedExact(f) : Durable(l)
           /\ up /\ exposure \cap {"bitmaps", "exact"} = {} =>
                {l \in Live(t) : Immutable(l)} \subseteq LoadedExact(f)
<1> DEFINE old == IF xc[f] # None THEN xc[f] ELSE IF xf[f] # None THEN xf[f] ELSE Built
           rows == {l \in Live(t) : Immutable(l)}
           safe == up /\ exposure \cap {"bitmaps", "exact"} = {}
<1>1. LoadedExact(f) = Patched(old)
  BY DEF LoadedExact
<1>2. IndexTypes
  BY DEF IndexInv
<1>3. old \subseteq DOMAIN t.rows
  BY <1>2 DEF IndexTypes, TypeOK, Built
<1>4. safe => rows \subseteq bm
  BY DEF IndexInv, BitmapsInv
<1>5. safe => Complete(old)
  BY <1>4 DEF IndexInv, ExactInv, Complete, Built
<1>6. xc[f] # None => Patched(old) = xc[f]
  BY <1>2 DEF IndexTypes, CachedAreComplete, Patched
<1>7. xc[f] = None /\ xf[f] = None => Patched(old) = Built
  <2>1. \A l \in bm : Immutable(l) => l \in Built
    BY DEF Built
  <2> QED BY <2>1 DEF Patched
<1>8. xc[f] = None /\ xf[f] # None => \A l \in old : Durable(l)
  BY <1>2 DEF IndexTypes, FilesAreDurable
<1> HIDE DEF old
<1>9. \A l \in Patched(old) : l \in old \/ Durable(l)
  BY <1>2, <1>3, PatchedFacts DEF Durable
<1> QED BY <1>1, <1>2, <1>3, <1>4, <1>5, <1>6, <1>7, <1>8, <1>9, PatchedFacts

\* Kept by a query: what it saves is on disk, what it caches is complete.
LEMMA LoadExactIndexKeeps ==
    ASSUME IndexInv, NEW f \in Field, LoadExactIndex(f) PROVE IndexInv'
<1> DEFINE new == LoadedExact(f)
<1>1. /\ up /\ UNCHANGED <<up, t, idxFile, bm, mm, bmFile, mmFile, ops, crashes>>
      /\ exposure' = exposure \cup Early(xf')
  BY DEF LoadExactIndex, segFiles, bounds
<1>2. IndexTypes /\ WellFormed(t) /\ Layout(t)
  BY TableFacts DEF IndexInv
<1>3. DOMAIN xc' = Field /\ DOMAIN xf' = Field /\ xc'[f] = new
      /\ \A g \in Field : g # f => xc'[g] \in {xc[g], None} /\ xf'[g] = xf[g]
  BY <1>2 DEF LoadExactIndex, IndexTypes, TypeOK
<1>4. xf'[f] \in {xf[f], new} /\ (xc[f] # None \/ xf[f] = None => xf'[f] = xf[f])
  <2>1. xf'[f] = IF new # (IF xc[f] # None THEN xc[f] ELSE IF xf[f] # None THEN xf[f] ELSE Built)
                 THEN new ELSE xf[f]
    BY <1>2 DEF LoadExactIndex, IndexTypes, TypeOK
  <2> QED BY <2>1, LoadedFacts
<1> HIDE DEF new
<1>5. /\ new \subseteq DOMAIN t.rows
      /\ \A l \in bm : Immutable(l) => l[1] \in SegmentIds(new)
      /\ xf'[f] # xf[f] => \A l \in new : Durable(l)
      /\ up /\ exposure \cap {"bitmaps", "exact"} = {} => {l \in Live(t) : Immutable(l)} \subseteq new
  BY <1>4, LoadedFacts DEF new
<1>6. \A l : (Immutable(l)' <=> Immutable(l)) /\ (Durable(l)' <=> Durable(l))
  BY <1>1 DEF Immutable, Durable
<1> USE DEF IndexInv
<1>7. TypeOK'
  <2>1. \A g \in Field : \A s \in {xc'[g], xf'[g]} : s = None \/ s \subseteq DOMAIN t.rows
    BY <1>2, <1>3, <1>4, <1>5 DEF IndexTypes, TypeOK
  <2> QED BY <1>1, <1>2, <1>3, <2>1 DEF IndexTypes, TypeOK
<1>8. Bounded(t)' /\ Layout(t)'
  BY <1>1, <1>2 DEF WellFormed, Bounded, Layout
<1>9. FilesAreDurable'
  <2>1. \A g \in Field : xf'[g] # None => \A l \in xf'[g] : Durable(l)
    BY <1>2, <1>3, <1>4, <1>5 DEF IndexTypes, FilesAreDurable
  <2> QED BY <1>1, <1>2, <1>6, <2>1 DEF IndexTypes, FilesAreDurable
<1>10. CachedAreComplete'
  BY <1>1, <1>2, <1>3, <1>5, <1>6 DEF IndexTypes, CachedAreComplete
<1>11. BitmapsInv' /\ ZonesInv'
  BY <1>1, <1>6 DEF BitmapsInv, ZonesInv, Live, ActiveLocs
<1>12. ASSUME exposure' \cap {"bitmaps", "exact"} = {} PROVE ExactInv'
  <2>1. exposure \cap {"bitmaps", "exact"} = {} /\ Early(xf') = {}
    BY <1>1, <1>12 DEF Early
  <2>2. Complete(new)
    BY <1>1, <1>5, <2>1 DEF Complete
  <2>3. \A index : Complete(index)' <=> Complete(index)
    BY <1>1, <1>6 DEF Complete, Live
  <2>4. \A g \in Field : xf'[g] # None => t.active \notin SegmentIds(xf'[g])
    BY <2>1 DEF Early
  <2>5. ASSUME NEW g \in Field, xf'[g] # None, NEW l \in xf'[g] PROVE Immutable(l)
    <3>1. l \in DOMAIN t.rows
      BY <1>1, <1>7, <2>5 DEF TypeOK
    <3>2. l[1] # t.active
      BY <2>4, <2>5 DEF SegmentIds
    <3> QED BY <1>2, <3>1, <3>2, TableFacts DEF Immutable
  <2> QED BY <1>3, <1>4, <1>6, <2>1, <2>2, <2>3, <2>5 DEF ExactInv
<1>13. ExactInv'
  BY <1>12 DEF ExactInv
<1> QED BY <1>7, <1>8, <1>9, <1>10, <1>11, <1>13 DEF IndexTypes

-----------------------------------------------------------------------------
(* Sealing a segment *)

\* What merge_exact_indexes_for_segment makes of a column's index.
LEMMA MergedFacts ==
    ASSUME IndexInv, NEW f \in Field, NEW rows
    PROVE  /\ Merged(f, rows) \subseteq DOMAIN t.rows \cup rows /\ rows \subseteq Merged(f, rows)
           /\ \A l \in bm : Immutable(l) => l[1] \in SegmentIds(Merged(f, rows))
           /\ exposure \cap {"bitmaps", "exact"} = {} =>
                {l \in Live(t) : Immutable(l)} \subseteq Merged(f, rows)
<1> DEFINE saved == IF xf[f] # None THEN xf[f] ELSE {}
           safe == exposure \cap {"bitmaps", "exact"} = {}
           live == {l \in Live(t) : Immutable(l)}
<1>1. IndexTypes /\ saved \subseteq DOMAIN t.rows /\ (safe => live \subseteq bm)
  BY DEF IndexInv, IndexTypes, TypeOK, BitmapsInv
<1>2. CASE xc[f] # None
  <2>1. Merged(f, rows) = xc[f] \cup rows /\ xc[f] \subseteq DOMAIN t.rows
    BY <1>1, <1>2 DEF Merged, IndexTypes, TypeOK
  <2>2. \A l \in bm : Immutable(l) => l[1] \in SegmentIds(xc[f])
    BY <1>1, <1>2 DEF IndexTypes, CachedAreComplete
  <2>3. safe => Complete(xc[f])
    BY <1>2 DEF IndexInv, ExactInv
  <2> QED BY <1>1, <2>1, <2>2, <2>3 DEF Complete, SegmentIds
<1>3. CASE xc[f] = None
  <2>1. Merged(f, rows) = Patched(saved) \cup rows
    BY <1>3 DEF Merged
  <2>2. safe => Complete(saved)
    BY DEF IndexInv, ExactInv, Complete, SegmentIds
  <2> HIDE DEF saved
  <2> QED BY <1>1, <2>1, <2>2, PatchedFacts DEF SegmentIds
<1> QED BY <1>2, <1>3

\* Kept by sealing the active segment of a table tb that t has become, with the
\* bitmaps rows and the zone map zone: the rotation of an open table, and the end
\* of Table::open.
LEMMA SealKeeps ==
    ASSUME IndexInv, NEW tb, Extended(t, tb), NEW rows, NEW zone, up', idxFile' \in Index,
           rows \cup zone \subseteq DOMAIN tb.rows, \A l \in rows : l[1] = t.active,
           {l \in bm : l[1] = t.active} \subseteq rows,
           "bitmaps" \notin exposure => {l \in Live(tb) : l[1] = t.active} \subseteq rows,
           "zones" \notin exposure => {l \in DOMAIN tb.rows : l[1] = t.active} \subseteq mm \cup zone,
           t' = [tb EXCEPT !.active = @ + 1, !.count = 0, !.flushed = 0],
           bm' = bm \cup rows, mm' = mm \cup zone, bmFile' = None, mmFile' = {},
           xc' = IF rows = {} THEN xc ELSE [f \in Field |-> Merged(f, rows)],
           UNCHANGED <<xf, ops, crashes, exposure>>
    PROVE  IndexInv'
<1>1. /\ IndexTypes /\ WellFormed(t) /\ t.active \in Nat
      /\ \A l \in DOMAIN t.rows : l[1] \in Nat /\ (l[1] < t.active \/ l[1] = t.active)
      /\ bm \subseteq DOMAIN t.rows /\ mm \subseteq DOMAIN t.rows
  BY TableFacts DEF IndexInv
<1>2. /\ WellFormed(tb) /\ Layout(tb) /\ tb.active = t.active
      /\ DOMAIN t.rows \subseteq DOMAIN tb.rows
      /\ \A l \in DOMAIN tb.rows : l \in DOMAIN t.rows \/ l[1] = t.active
      /\ t.deleted \subseteq tb.deleted
  BY DEF Extended
<1>3. /\ t'.active = t.active + 1 /\ t'.count = 0 /\ t'.flushed = 0 /\ t'.rows = tb.rows
      /\ t'.deleted = tb.deleted /\ IsTable(t')
  BY <1>1, <1>2 DEF WellFormed, IsTable
<1>4. \A l \in DOMAIN tb.rows : l[1] \in Nat /\ l[1] <= t.active
  BY <1>1, <1>2 DEF WellFormed, IsTable, Loc
<1>5. \A l \in DOMAIN tb.rows : Immutable(l)' /\ (Immutable(l) <=> l[1] # t.active)
  BY <1>1, <1>3, <1>4 DEF Immutable
<1>6. Live(t)' = Live(tb) /\ \A l \in Live(tb) : l[1] # t.active => l \in Live(t)
  BY <1>2, <1>3 DEF Live
<1>7. \A f \in Field : /\ Merged(f, rows) \subseteq DOMAIN tb.rows /\ rows \subseteq Merged(f, rows)
                       /\ \A l \in bm : Immutable(l) => l[1] \in SegmentIds(Merged(f, rows))
                       /\ exposure \cap {"bitmaps", "exact"} = {} =>
                            {l \in Live(t) : Immutable(l)} \subseteq Merged(f, rows)
  BY <1>2, MergedFacts
<1> USE DEF IndexInv
<1>8. TypeOK'
  <2>1. \A f \in Field : \A s \in {xc'[f], xf[f]} : s = None \/ s \subseteq DOMAIN tb.rows
    BY <1>1, <1>2, <1>7 DEF IndexTypes, TypeOK
  <2>2. DOMAIN xc' = Field /\ DOMAIN xf = Field
    BY <1>1 DEF IndexTypes, TypeOK
  <2> QED BY <1>1, <1>2, <1>3, <2>1, <2>2 DEF IndexTypes, TypeOK
<1>9. Bounded(t)' /\ Layout(t)'
  <2>1. Bounded(t)'
    BY <1>2, <1>3 DEF WellFormed, Bounded
  <2>2. \A l \in DOMAIN tb.rows : l[1] < t.active + 1
    BY <1>1, <1>4
  <2> QED BY <1>3, <2>1, <2>2 DEF Layout
<1>10. FilesAreDurable'
  <2>1. \A f \in Field : xf[f] # None => \A l \in xf[f] : l \in DOMAIN tb.rows
    BY <1>1, <1>2 DEF IndexTypes, TypeOK
  <2> QED BY <1>3, <1>5, <2>1 DEF FilesAreDurable, Durable
<1>11. CachedAreComplete'
  <2> SUFFICES ASSUME NEW f \in Field, xc'[f] # None, NEW l \in bm \cup rows
               PROVE  l[1] \in SegmentIds(xc'[f])
    BY DEF CachedAreComplete
  <2>1. l \in DOMAIN tb.rows /\ (l[1] = t.active => l \in rows)
    BY <1>1, <1>2
  <2>2. CASE rows = {}
    BY <1>1, <1>5, <2>1, <2>2 DEF IndexTypes, CachedAreComplete
  <2>3. CASE rows # {}
    <3>1. xc'[f] = Merged(f, rows)
      BY <2>3
    <3>2. l \in rows => l[1] \in SegmentIds(Merged(f, rows))
      BY <1>7 DEF SegmentIds
    <3> QED BY <1>5, <1>7, <2>1, <3>1, <3>2
  <2> QED BY <2>2, <2>3
<1>12. BitmapsInv'
  BY <1>2, <1>3, <1>5, <1>6 DEF BitmapsInv, Live
<1>13. ZonesInv'
  BY <1>2, <1>3, <1>5 DEF ZonesInv
<1>14. ASSUME exposure \cap {"bitmaps", "exact"} = {}, NEW f \in Field
       PROVE  /\ xf[f] # None => Complete(xf[f])' /\ \A l \in xf[f] : Immutable(l)'
              /\ xc'[f] # None => \A l \in Live(tb) : l[1] \in SegmentIds(xc'[f]) => l \in xc'[f]
  <2>1. ASSUME xf[f] # None
        PROVE  Complete(xf[f])' /\ \A l \in xf[f] : Immutable(l)'
    <3>1. Complete(xf[f]) /\ \A l \in xf[f] : Immutable(l) /\ l \in DOMAIN tb.rows
      BY <1>1, <1>2, <1>14, <2>1 DEF ExactInv, IndexTypes, TypeOK
    <3>2. t.active \notin SegmentIds(xf[f])
      BY <1>5, <3>1 DEF SegmentIds
    <3>3. \A l \in Live(tb) : l \in DOMAIN tb.rows
      BY DEF Live
    <3> QED BY <1>5, <1>6, <3>1, <3>2, <3>3 DEF Complete
  <2>2. ASSUME xc'[f] # None, NEW l \in Live(tb), l[1] \in SegmentIds(xc'[f]) PROVE l \in xc'[f]
    <3>1. l \in DOMAIN tb.rows /\ (l[1] = t.active => l \in rows)
      BY <1>14 DEF Live
    <3>2. l \notin rows => l \in Live(t) /\ Immutable(l)
      BY <1>5, <1>6, <3>1
    <3>3. CASE rows = {}
      BY <1>14, <2>2, <3>2, <3>3 DEF ExactInv, Complete
    <3>4. CASE rows # {}
      BY <1>7, <1>14, <3>2, <3>4
    <3> QED BY <3>3, <3>4
  <2> QED BY <2>1, <2>2
<1>15. ExactInv'
  BY <1>6, <1>14 DEF ExactInv, Complete
<1> QED BY <1>8, <1>9, <1>10, <1>11, <1>12, <1>13, <1>15 DEF IndexTypes

\* Kept by a rotation.
LEMMA FlushActiveSegmentKeeps == ASSUME IndexInv, FlushActiveSegment PROVE IndexInv'
<1> DEFINE rows == {l \in bm : l[1] = t.active}
<1>1. IndexTypes /\ WellFormed(t) /\ Layout(t) /\ bm \subseteq DOMAIN t.rows /\ idxFile \in Index
  BY TableFacts DEF IndexInv, IndexTypes, TypeOK
<1>2. Extended(t, t)
  BY <1>1, SameRowsExtended
<1>3. /\ up /\ t' = [t EXCEPT !.active = @ + 1, !.count = 0, !.flushed = 0]
      /\ xc' = IF rows = {} THEN xc ELSE [f \in Field |-> Merged(f, rows)]
      /\ bmFile' = None /\ mmFile' = {} /\ bm' = bm /\ mm' = mm
      /\ UNCHANGED <<up, idxFile, xf, ops, crashes, exposure>>
  BY DEF FlushActiveSegment, bounds
<1>4. "bitmaps" \notin exposure => {l \in Live(t) : l[1] = t.active} \subseteq rows
  BY <1>3 DEF IndexInv, BitmapsInv
<1>5. "zones" \notin exposure => {l \in DOMAIN t.rows : l[1] = t.active} \subseteq mm \cup {}
  BY <1>3 DEF IndexInv, ZonesInv
<1>6. /\ rows \cup {} \subseteq DOMAIN t.rows /\ \A l \in rows : l[1] = t.active
      /\ bm' = bm \cup rows /\ mm' = mm \cup {}
  BY <1>1, <1>3
<1> HIDE DEF rows
<1>7. {l \in bm : l[1] = t.active} \subseteq rows
  BY DEF rows
<1> QED BY <1>1, <1>2, <1>3, <1>4, <1>5, <1>6, <1>7, SealKeeps

-----------------------------------------------------------------------------
(* Closing and dying *)

\* Kept by a step that leaves the files of a table and the rows on disk: a close,
\* which writes the files, and a crash, which does not.
LEMMA DownKeeps ==
    ASSUME IndexInv, ~ up', up' \in BOOLEAN, WellFormed(t'), idxFile' \in Index,
           t'.active = t.active, t'.flushed = t'.count, t.flushed <= t'.flushed, t'.deleted = t.deleted,
           DOMAIN t'.rows = {l \in DOMAIN t.rows : Immutable(l) \/ l[2] <= t'.count},
           bm' = {l \in bm : Immutable(l)}, mm' = {l \in mm : Immutable(l)},
           xc' = [f \in Field |-> None], ops' = ops, crashes' \in 0 .. MaxCrashes,
           exposure \subseteq exposure',
           bmFile' # None => \A l \in bmFile' : l[1] = t.active /\ l \in DOMAIN t'.rows,
           \A l \in mmFile' : l[1] = t.active /\ l \in DOMAIN t'.rows,
           "bitmaps" \notin exposure' /\ bmFile' # None =>
               {l \in DOMAIN t'.rows \ t.deleted : l[1] = t.active} \subseteq bmFile',
           "zones" \notin exposure' => {l \in DOMAIN t'.rows : l[1] = t.active} \subseteq mmFile',
           DOMAIN xf' = Field,
           \A f \in Field : xf'[f] = xf[f] \/ (xf'[f] = xc[f] /\ t'.count = t.count),
           exposure' \cap {"bitmaps", "exact"} = {} =>
               \A f \in Field : xf'[f] # None => t.active \notin SegmentIds(xf'[f])
    PROVE  IndexInv'
<1>1. /\ IndexTypes /\ WellFormed(t) /\ t.active \in Nat /\ t.count \in Nat /\ t.flushed \in Nat
      /\ \A l \in DOMAIN t.rows : l[1] \in Nat /\ l[2] \in Nat
                                  /\ (l[1] < t.active \/ (l[1] = t.active /\ l[2] <= t.count))
      /\ bm \subseteq DOMAIN t.rows /\ mm \subseteq DOMAIN t.rows
  BY TableFacts DEF IndexInv
<1>2. t'.count \in Nat /\ t'.flushed \in Nat
  BY DEF WellFormed, IsTable
<1>3. \A l : Immutable(l)' <=> Immutable(l)
  BY DEF Immutable
<1>4. \A l \in DOMAIN t.rows : Immutable(l) <=> l[1] # t.active
  BY <1>1 DEF Immutable
<1>5. \A l \in DOMAIN t'.rows : Durable(l)' /\ (l[1] = t.active => l[2] <= t'.count)
  BY <1>1, <1>3, <1>4 DEF Durable
<1>6. Live(t)' \subseteq Live(t) /\ Live(t)' = DOMAIN t'.rows \ t.deleted
  BY DEF Live
<1>7. ASSUME NEW l, Durable(l) PROVE l \in DOMAIN t'.rows
  <2>1. l \in DOMAIN t.rows /\ l[2] \in Nat /\ (Immutable(l) \/ l[2] <= t.flushed)
    BY <1>1, <1>7 DEF Durable
  <2>2. l[2] <= t.flushed => l[2] <= t'.count
    BY <1>1, <1>2, <2>1
  <2> QED BY <2>1, <2>2
<1>8. \A f \in Field : xf'[f] # None => xf'[f] \subseteq DOMAIN t'.rows
  <2> SUFFICES ASSUME NEW f \in Field, xf'[f] # None, NEW l \in xf'[f] PROVE l \in DOMAIN t'.rows
    OBVIOUS
  <2>1. CASE xf'[f] = xf[f]
    BY <1>1, <1>7, <2>1 DEF IndexTypes, FilesAreDurable
  <2>2. CASE xf'[f] = xc[f] /\ t'.count = t.count
    BY <1>1, <1>4, <2>2 DEF IndexTypes, TypeOK
  <2> QED BY <2>1, <2>2
<1> USE DEF IndexInv
<1>9. TypeOK'
  <2>1. IsTable(t)'
    BY DEF WellFormed
  <2>2. bm' \subseteq DOMAIN t'.rows /\ mm' \subseteq DOMAIN t'.rows
    BY <1>1
  <2> QED BY <1>1, <1>8, <2>1, <2>2 DEF IndexTypes, TypeOK
<1>10. Bounded(t)' /\ Layout(t)'
  <2>1. Bounded(t)'
    BY DEF WellFormed, Bounded
  <2>2. \A l \in DOMAIN t'.rows : l[1] < t.active \/ (l[1] = t.active /\ l[2] <= t'.count)
    BY <1>1, <1>5
  <2> QED BY <1>2, <2>1, <2>2 DEF Layout
<1>11. FilesAreDurable'
  BY <1>5, <1>8 DEF FilesAreDurable
<1>12. CachedAreComplete'
  BY <1>3 DEF CachedAreComplete
<1>13. BitmapsInv'
  <2>1. "bitmaps" \notin exposure' => {l \in Live(t) : Immutable(l)} \subseteq bm
    BY DEF BitmapsInv
  <2>2. {l \in Live(t)' : ~ Immutable(l)} \subseteq {l \in DOMAIN t'.rows \ t.deleted : l[1] = t.active}
    BY <1>4, <1>6
  <2> QED BY <1>3, <1>6, <2>1, <2>2 DEF BitmapsInv
<1>14. ZonesInv'
  <2>1. "zones" \notin exposure' => {l \in DOMAIN t.rows : Immutable(l)} \subseteq mm
    BY DEF ZonesInv
  <2> QED BY <1>3, <2>1 DEF ZonesInv, ActiveLocs
<1>15. ASSUME exposure' \cap {"bitmaps", "exact"} = {}, NEW f \in Field, xf'[f] # None
       PROVE  Complete(xf[f])' /\ \A l \in xf'[f] : Immutable(l)'
  <2>1. PICK index : index = xf'[f]
    OBVIOUS
  <2>2. Complete(index)
    BY <1>15, <2>1 DEF ExactInv
  <2>3. \A l \in Live(t)' : Immutable(l) /\ l[1] \in SegmentIds(index) => l \in index
    BY <1>6, <2>2 DEF Complete
  <2>4. ASSUME NEW l \in index PROVE Immutable(l)
    BY <1>4, <1>8, <1>15, <2>1, <2>4 DEF SegmentIds
  <2> QED BY <1>3, <2>1, <2>3, <2>4 DEF Complete
<1>16. ExactInv'
  BY <1>15 DEF ExactInv
<1> QED BY <1>9, <1>10, <1>11, <1>12, <1>13, <1>14, <1>16 DEF IndexTypes

\* Kept by Table::close.
LEMMA CloseKeeps == ASSUME IndexInv, Close PROVE IndexInv'
<1>1. /\ IndexTypes /\ WellFormed(t) /\ t.count \in Nat /\ t.flushed \in Nat /\ t.flushed <= t.count
      /\ \A l \in DOMAIN t.rows : l[2] \in Nat /\ (Immutable(l) \/ (l[1] = t.active /\ l[2] <= t.count))
      /\ bm \subseteq DOMAIN t.rows /\ mm \subseteq DOMAIN t.rows
  BY TableFacts DEF IndexInv, Immutable
<1>2. t' \in {FlushBuffers(t), [FlushBuffers(t) EXCEPT !.wal = <<>>, !.index = NoIndex]}
      /\ idxFile' \in {t.index, idxFile}
  BY DEF Close
<1>3. NoIndex \in Index
  BY DEF NoIndex, Index
<1>4. WellFormed(FlushBuffers(t))
  BY <1>1, FlushBuffersGrown DEF Grown
<1>5. /\ WellFormed(t') /\ t'.active = t.active /\ t'.count = t.count /\ t'.flushed = t.count
      /\ t'.rows = t.rows /\ t'.deleted = t.deleted
  <2>1. CASE t' = FlushBuffers(t)
    BY <1>1, <1>4, <2>1 DEF FlushBuffers, WellFormed, IsTable
  <2>2. CASE t' = [FlushBuffers(t) EXCEPT !.wal = <<>>, !.index = NoIndex]
    <3> DEFINE b == FlushBuffers(t)
    <3>1. b.active = t.active /\ b.count = t.count /\ b.flushed = t.count /\ b.rows = t.rows
          /\ b.deleted = t.deleted
      BY <1>1 DEF FlushBuffers, WellFormed, IsTable
    <3> HIDE DEF b
    <3>2. /\ t'.active = b.active /\ t'.count = b.count /\ t'.flushed = b.flushed /\ t'.rows = b.rows
          /\ t'.deleted = b.deleted /\ IsTable(t')
      BY <1>3, <1>4, <2>2 DEF b, WellFormed, IsTable
    <3>3. Bounded(t')
      BY <1>4, <3>2 DEF WellFormed, Bounded, b
    <3> QED BY <3>1, <3>2, <3>3 DEF WellFormed
  <2> QED BY <1>2, <2>1, <2>2
<1>6. /\ up /\ ~ up' /\ up' \in BOOLEAN /\ idxFile' \in Index
      /\ bm' = {l \in bm : Immutable(l)} /\ mm' = {l \in mm : Immutable(l)}
      /\ xc' = [f \in Field |-> None] /\ UNCHANGED <<ops, crashes>>
      /\ exposure' = exposure \cup Early(xf')
  BY <1>1, <1>2 DEF Close, bounds, IndexTypes, TypeOK, IsTable
<1>7. DOMAIN t'.rows = {l \in DOMAIN t.rows : Immutable(l) \/ l[2] <= t'.count}
  BY <1>1, <1>5
<1>8. t.count = 0 => \A l \in DOMAIN t.rows : l[1] # t.active
  <2>1. \A l \in DOMAIN t.rows : l \in Loc /\ l[2] # 0 /\ (l[1] < t.active \/ (l[1] = t.active /\ l[2] <= t.count))
    BY <1>1, TableFacts DEF Loc
  <2> QED BY <1>1, <2>1, TableFacts
<1>9. /\ bmFile' # None => \A l \in bmFile' : l[1] = t.active /\ l \in DOMAIN t'.rows
      /\ \A l \in mmFile' : l[1] = t.active /\ l \in DOMAIN t'.rows
  <2>1. CASE t.count = 0
    BY <1>1, <1>5, <2>1 DEF Close, IndexTypes, TypeOK, FilesAreDurable, Durable
  <2>2. CASE t.count # 0
    BY <1>1, <1>5, <2>2 DEF Close
  <2> QED BY <2>1, <2>2
<1>10. /\ "bitmaps" \notin exposure /\ bmFile' # None =>
            {l \in DOMAIN t'.rows \ t.deleted : l[1] = t.active} \subseteq bmFile'
       /\ "zones" \notin exposure => {l \in DOMAIN t'.rows : l[1] = t.active} \subseteq mmFile'
  <2>1. CASE t.count = 0
    BY <1>5, <1>8, <2>1
  <2>2. CASE t.count # 0
    <3>1. bmFile' = {l \in bm : l[1] = t.active} /\ mmFile' = {l \in mm : l[1] = t.active}
      BY <2>2 DEF Close
    <3> QED BY <1>5, <1>6, <3>1 DEF IndexInv, BitmapsInv, ZonesInv, Live
  <2> QED BY <2>1, <2>2
<1>11. DOMAIN xf' = Field /\ \A f \in Field : xf'[f] = xf[f] \/ xf'[f] = xc[f]
  BY <1>1 DEF Close, IndexTypes, TypeOK
<1>12. exposure' \cap {"bitmaps", "exact"} = {} =>
         \A f \in Field : xf'[f] # None => t.active \notin SegmentIds(xf'[f])
  BY <1>6 DEF Early
<1>13. crashes' \in 0 .. MaxCrashes
  BY <1>1, <1>6 DEF IndexTypes, TypeOK
<1> QED BY <1>1, <1>5, <1>6, <1>7, <1>9, <1>10, <1>11, <1>12, <1>13, DownKeeps

\* Kept by a crash, which leaves what had been flushed or a little more.
LEMMA CrashKeeps == ASSUME IndexInv, Crash PROVE IndexInv'
<1>1. /\ IndexTypes /\ WellFormed(t) /\ t.count \in Nat /\ t.flushed \in Nat
      /\ bm \subseteq DOMAIN t.rows /\ mm \subseteq DOMAIN t.rows
      /\ \A l \in DOMAIN t.rows : l[2] \in Nat
  BY TableFacts DEF IndexInv
<1>2. PICK n \in t.flushed .. t.count, w \in 0 .. Len(t.wal) :
        t' = Surviving(n, w) /\ exposure' = exposure \cup Windows(t')
  BY DEF Crash
<1>3. n \in Nat /\ t.flushed <= n
  BY <1>1, <1>2
<1> DEFINE left == {l \in DOMAIN t.rows : Immutable(l) \/ l[2] <= n}
<1>4. /\ DOMAIN t' = DOMAIN t
      /\ t'.active = t.active /\ t'.count = n /\ t'.flushed = n
      /\ t'.rows = [l \in left |-> t.rows[l]] /\ t'.deleted = t.deleted
      /\ t'.index = NoIndex /\ t'.wal = SubSeq(t.wal, 1, w)
  BY <1>1, <1>2 DEF Surviving, WellFormed, IsTable
<1>5. NoIndex \in Index
  BY DEF NoIndex, Index
<1>6. SubSeq(t.wal, 1, w) \in Seq(WalOp)
  <2>1. t.wal \in Seq(WalOp) /\ w \in Nat /\ w <= Len(t.wal)
    BY <1>1, <1>2 DEF WellFormed, IsTable
  <2> QED BY <2>1
<1>7. WellFormed(t')
  BY <1>1, <1>3, <1>4, <1>5, <1>6 DEF WellFormed, IsTable, Bounded
<1>8. DOMAIN t'.rows = {l \in DOMAIN t.rows : Immutable(l) \/ l[2] <= t'.count}
  BY <1>4
<1>9. /\ ~ up' /\ up' \in BOOLEAN /\ UNCHANGED <<idxFile, bmFile, mmFile, xf, ops>>
      /\ bm' = {l \in bm : Immutable(l)} /\ mm' = {l \in mm : Immutable(l)}
      /\ xc' = [f \in Field |-> None] /\ crashes' = crashes + 1 /\ crashes < MaxCrashes
  BY DEF Crash, segFiles
<1>10. crashes' \in 0 .. MaxCrashes /\ idxFile' \in Index /\ DOMAIN xf' = Field
  BY <1>1, <1>9, BoundsAreNat DEF IndexTypes, TypeOK
<1>11. ASSUME NEW l, Durable(l) PROVE l \in DOMAIN t'.rows
  <2>1. l \in DOMAIN t.rows /\ l[2] \in Nat /\ (Immutable(l) \/ l[2] <= t.flushed)
    BY <1>1, <1>11 DEF Durable
  <2>2. l[2] <= t.flushed => l[2] <= t'.count
    BY <1>1, <1>3, <1>4, <2>1
  <2> QED BY <1>8, <2>1, <2>2
<1>12. /\ bmFile' # None => \A l \in bmFile' : l[1] = t.active /\ l \in DOMAIN t'.rows
       /\ \A l \in mmFile' : l[1] = t.active /\ l \in DOMAIN t'.rows
  BY <1>1, <1>9, <1>11 DEF IndexTypes, TypeOK, FilesAreDurable
<1>13. /\ "bitmaps" \notin exposure' /\ bmFile' # None =>
            {l \in DOMAIN t'.rows \ t.deleted : l[1] = t.active} \subseteq bmFile'
       /\ "zones" \notin exposure' => {l \in DOMAIN t'.rows : l[1] = t.active} \subseteq mmFile'
  BY <1>2, <1>4, <1>9 DEF Windows, ActiveLocs
<1>14. exposure' \cap {"bitmaps", "exact"} = {} =>
         \A f \in Field : xf'[f] # None => t.active \notin SegmentIds(xf'[f])
  <2>1. \A l : Immutable(l) => l[1] # t.active
    BY <1>1, TableFacts DEF Immutable
  <2> QED BY <1>2, <1>9, <2>1 DEF IndexInv, ExactInv, SegmentIds
<1> QED BY <1>1, <1>2, <1>3, <1>4, <1>7, <1>8, <1>9, <1>10, <1>12, <1>13, <1>14, DownKeeps

-----------------------------------------------------------------------------
(* Opening *)

\* What rehydrate_bitmaps_from_disk and metadata.json bring back of a closed table.
LEMMA RehydratedFacts ==
    ASSUME IndexInv, ~ up
    PROVE  /\ Rehydrated \subseteq DOMAIN t.rows /\ mmFile \subseteq DOMAIN t.rows
           /\ \A l \in Rehydrated : l[1] = t.active
           /\ "bitmaps" \notin exposure => {l \in Live(t) : l[1] = t.active} \subseteq Rehydrated
           /\ "zones" \notin exposure => {l \in DOMAIN t.rows : l[1] = t.active} \subseteq mmFile
<1>1. IndexTypes /\ \A l \in DOMAIN t.rows : Immutable(l) <=> l[1] # t.active
  BY TableFacts DEF IndexInv, Immutable
<1>2. /\ bmFile # None => \A l \in bmFile : l \in DOMAIN t.rows /\ l[1] = t.active
      /\ \A l \in mmFile : l \in DOMAIN t.rows
  BY <1>1 DEF IndexTypes, TypeOK, FilesAreDurable, Durable
<1>3. "bitmaps" \notin exposure /\ bmFile # None => {l \in Live(t) : l[1] = t.active} \subseteq bmFile
  BY <1>1 DEF IndexInv, BitmapsInv, Live
<1> QED BY <1>1, <1>2, <1>3 DEF Rehydrated, ActiveLocs, Live, IndexInv, ZonesInv

\* The bitmaps of a closed table are those of its immutable segments.
LEMMA ClosedBitmaps == ASSUME IndexInv, ~ up PROVE \A l \in bm : l[1] # t.active
<1>1. IndexTypes /\ \A l \in bm : Immutable(l)
  BY DEF IndexInv, IndexTypes, CachedAreComplete
<1>2. t.active \in Nat
  BY <1>1, TableFacts
<1> QED BY <1>1, <1>2 DEF Immutable

\* Kept by opening a table whose active segment stays active.
LEMMA UnsealedKeeps ==
    ASSUME IndexInv, ~ up, up', Extended(t, t'), idxFile' \in Index, NEW rows, NEW zone,
           rows \cup zone \subseteq DOMAIN t'.rows, \A l \in rows : l[1] = t.active,
           "bitmaps" \notin exposure => {l \in Live(t)' : l[1] = t.active} \subseteq rows,
           "zones" \notin exposure => {l \in DOMAIN t'.rows : l[1] = t.active} \subseteq mm \cup zone,
           bm' = bm \cup rows, mm' = mm \cup zone,
           UNCHANGED <<bmFile, mmFile, xc, xf, ops, crashes, exposure>>
    PROVE  IndexInv'
<1> USE DEF IndexInv
<1>1. IndexTypes
  OBVIOUS
<1>2. /\ WellFormed(t)' /\ Layout(t)' /\ t'.active = t.active
      /\ DOMAIN t.rows \subseteq DOMAIN t'.rows
      /\ \A l \in Appended(t, t') : l[1] = t.active
      /\ DOMAIN t'.rows = DOMAIN t.rows \cup Appended(t, t')
      /\ Live(t)' \subseteq Live(t) \cup Appended(t, t')
      /\ \A l : Immutable(l)' <=> Immutable(l)
      /\ \A l : Durable(l) => Durable(l)'
  BY <1>1, ExtendedFacts
<1>3. \A l : l \in Live(t)' => l \in DOMAIN t'.rows
  BY DEF Live
<1>4. \A l \in DOMAIN t'.rows : l[1] # t.active => l \in DOMAIN t.rows /\ Immutable(l)
  BY <1>1, <1>2, TableFacts DEF Immutable
<1>5. \A l \in DOMAIN t'.rows : Immutable(l) => l[1] # t.active
  BY <1>1, TableFacts DEF Immutable
<1>6. TypeOK'
  <2>1. IsTable(t)' /\ up' \in BOOLEAN
    BY <1>2 DEF WellFormed
  <2>2. bm' \subseteq DOMAIN t'.rows /\ mm' \subseteq DOMAIN t'.rows
    BY <1>1, <1>2 DEF IndexTypes, TypeOK
  <2>3. \A f \in Field : \A s \in {xc[f], xf[f]} : s = None \/ s \subseteq DOMAIN t'.rows
    BY <1>1, <1>2 DEF IndexTypes, TypeOK
  <2> QED BY <1>1, <1>2, <2>1, <2>2, <2>3 DEF IndexTypes, TypeOK
<1>7. Bounded(t)' /\ Layout(t)'
  BY <1>2 DEF WellFormed
<1>8. FilesAreDurable'
  BY <1>1, <1>2 DEF IndexTypes, FilesAreDurable
<1>9. CachedAreComplete'
  BY <1>1 DEF IndexTypes, CachedAreComplete
<1>10. BitmapsInv'
  <2> SUFFICES ASSUME "bitmaps" \notin exposure, NEW l \in Live(t)' PROVE l \in bm \cup rows
    BY DEF BitmapsInv
  <2>1. CASE l[1] = t.active
    BY <2>1
  <2>2. CASE l[1] # t.active
    BY <1>2, <1>3, <1>4, <2>2 DEF BitmapsInv
  <2> QED BY <2>1, <2>2
<1>11. ZonesInv'
  <2> SUFFICES ASSUME "zones" \notin exposure, NEW l \in DOMAIN t'.rows PROVE l \in mm \cup zone
    BY DEF ZonesInv
  <2>1. CASE l[1] # t.active
    BY <1>4, <2>1 DEF ZonesInv
  <2> QED BY <2>1
<1>12. ASSUME NEW index, Complete(index) PROVE Complete(index)'
  BY <1>2, <1>3, <1>5, <1>12 DEF Complete
<1>13. ExactInv'
  BY <1>2, <1>12 DEF ExactInv
<1> QED BY <1>6, <1>7, <1>8, <1>9, <1>10, <1>11, <1>13 DEF IndexTypes

\* The table that open and open_for_query load.
LEMMA LoadedFile ==
    ASSUME IndexTypes
    PROVE  /\ Extended(t, SyncIndex([t EXCEPT !.index = idxFile]))
           /\ SyncIndex([t EXCEPT !.index = idxFile]).rows = t.rows
           /\ SyncIndex([t EXCEPT !.index = idxFile]).deleted = t.deleted
<1> DEFINE raw == [t EXCEPT !.index = idxFile]
           new == SyncIndex(raw)
<1>1. WellFormed(t) /\ Layout(t) /\ idxFile \in Index
  BY TableFacts DEF IndexTypes, TypeOK
<1>2. WellFormed(new)
  BY <1>1, LoadGrown DEF Grown
<1>3. /\ raw.rows = t.rows /\ raw.active = t.active /\ raw.count = t.count
      /\ raw.flushed = t.flushed /\ raw.deleted = t.deleted /\ DOMAIN raw = DOMAIN t
  BY <1>1 DEF WellFormed, IsTable
<1> HIDE DEF raw
<1>4. /\ new.rows = raw.rows /\ new.active = raw.active /\ new.count = raw.count
      /\ new.flushed = raw.flushed /\ new.deleted = raw.deleted
  BY <1>1, <1>3 DEF SyncIndex, WellFormed, IsTable
<1> HIDE DEF new
<1>5. Extended(t, new)
  BY <1>1, <1>2, <1>3, <1>4, SameRowsExtended
<1> QED BY <1>3, <1>4, <1>5 DEF new, raw

\* Kept by open_for_query.
LEMMA OpenForQueryKeeps == ASSUME IndexInv, OpenForQuery PROVE IndexInv'
<1>1. IndexTypes
  BY DEF IndexInv
<1> DEFINE rows == IF t.count = 0 THEN {} ELSE Rehydrated
<1>2. /\ ~ up /\ up' /\ t' = SyncIndex([t EXCEPT !.index = idxFile])
      /\ bm' = bm \cup rows /\ mm' = mm \cup mmFile
      /\ UNCHANGED <<idxFile, bmFile, mmFile, xc, xf, ops, crashes, exposure>>
  BY DEF OpenForQuery, segFiles, exact, bounds
<1>3. Extended(t, t') /\ t'.rows = t.rows /\ t'.deleted = t.deleted /\ idxFile' \in Index
  BY <1>1, <1>2, LoadedFile DEF IndexTypes, TypeOK
<1>4. t.count = 0 => \A l \in DOMAIN t.rows : l[1] # t.active
  <2>1. \A l \in DOMAIN t.rows : l \in Loc /\ l[2] # 0
                                 /\ (l[1] < t.active \/ (l[1] = t.active /\ l[2] <= t.count))
    BY <1>1, TableFacts DEF Loc
  <2> QED BY <1>1, <2>1, TableFacts
<1>5. Live(t)' = Live(t) /\ Live(t) \subseteq DOMAIN t.rows
  BY <1>3 DEF Live
<1>6. /\ rows \cup mmFile \subseteq DOMAIN t'.rows /\ \A l \in rows : l[1] = t.active
      /\ "bitmaps" \notin exposure => {l \in Live(t)' : l[1] = t.active} \subseteq rows
      /\ "zones" \notin exposure => {l \in DOMAIN t'.rows : l[1] = t.active} \subseteq mm \cup mmFile
  BY <1>2, <1>3, <1>4, <1>5, RehydratedFacts
<1> HIDE DEF rows
<1> QED BY <1>2, <1>3, <1>6, UnsealedKeeps

\* Kept by Table::open: the table loaded, the log replayed, the rows reconciled,
\* and the segment sealed unless it is empty.
LEMMA OpenKeeps == ASSUME IndexInv, Open PROVE IndexInv'
<1> DEFINE loaded == SyncIndex([t EXCEPT !.index = idxFile])
           replayed == ReplayWal(loaded, t.wal)
           swept == Reconcile(replayed)
           new == [swept EXCEPT !.wal = <<>>]
           added == Appended(t, new)
           rows == Rehydrated \cup added
           zone == mmFile \cup added
<1>1. /\ ~ up /\ up' /\ UNCHANGED <<xf, ops, crashes, exposure>>
      /\ idxFile' \in {replayed.index, idxFile}
      /\ bm' = bm \cup rows /\ mm' = mm \cup zone
      /\ \/ t' = new /\ UNCHANGED <<bmFile, mmFile, xc>>
         \/ /\ t' = [new EXCEPT !.active = @ + 1, !.count = 0, !.flushed = 0]
            /\ xc' = IF rows = {} THEN xc ELSE [f \in Field |-> Merged(f, rows)]
            /\ bmFile' = None /\ mmFile' = {}
  BY DEF Open, segFiles, bounds
<1>2. IndexTypes /\ WellFormed(t) /\ t.wal \in Seq(WalOp) /\ idxFile \in Index
  BY TableFacts DEF IndexInv, IndexTypes, TypeOK, IsTable
<1>3. Extended(t, loaded)
  BY <1>2, LoadedFile
<1> HIDE DEF loaded
<1>4. Extended(loaded, replayed)
  BY <1>2, <1>3, ReplayWalExtended DEF Extended
<1> HIDE DEF replayed
<1>5. Extended(replayed, swept)
  BY <1>4, ReconcileExtended DEF Extended
<1> HIDE DEF swept
<1>6. Extended(swept, new)
  <2>1. WellFormed(swept) /\ Layout(swept)
    BY <1>5 DEF Extended
  <2>2. WellFormed(new) /\ new.rows = swept.rows /\ new.active = swept.active /\ new.count = swept.count
        /\ new.flushed = swept.flushed /\ new.deleted = swept.deleted
    BY <2>1 DEF WellFormed, IsTable, Bounded
  <2> HIDE DEF new
  <2> QED BY <2>1, <2>2, SameRowsExtended
<1> HIDE DEF new
<1>7. Extended(t, new)
  <2>1. WellFormed(loaded) /\ WellFormed(replayed) /\ WellFormed(swept)
    BY <1>3, <1>4, <1>5 DEF Extended
  <2>2. Extended(t, replayed)
    BY <1>2, <1>3, <1>4, ExtendedTwice
  <2>3. Extended(t, swept)
    BY <1>2, <1>5, <2>2, ExtendedTwice
  <2> QED BY <1>2, <1>6, <2>3, ExtendedTwice
<1>8. idxFile' \in Index
  BY <1>1, <1>2, <1>4 DEF Extended, WellFormed, IsTable
<1>9. /\ DOMAIN t.rows \subseteq DOMAIN new.rows /\ DOMAIN new.rows = DOMAIN t.rows \cup added
      /\ \A l \in added : l[1] = t.active
      /\ Live(new) \subseteq Live(t) \cup added
  BY <1>7 DEF Extended, Appended, Live
<1>10. /\ rows \cup zone \subseteq DOMAIN new.rows /\ \A l \in rows : l[1] = t.active
       /\ "bitmaps" \notin exposure => {l \in Live(new) : l[1] = t.active} \subseteq rows
       /\ "zones" \notin exposure => {l \in DOMAIN new.rows : l[1] = t.active} \subseteq mm \cup zone
  BY <1>1, <1>9, RehydratedFacts
<1>11. {l \in bm : l[1] = t.active} \subseteq rows
  BY <1>1, ClosedBitmaps
<1> HIDE DEF rows, zone, added
<1>12. CASE t' = new /\ UNCHANGED <<bmFile, mmFile, xc>>
  <2>1. Extended(t, t') /\ Live(t)' = Live(new) /\ DOMAIN t'.rows = DOMAIN new.rows
    BY <1>7, <1>12 DEF Live
  <2> QED BY <1>1, <1>8, <1>10, <1>12, <2>1, UnsealedKeeps
<1>13. CASE /\ t' = [new EXCEPT !.active = @ + 1, !.count = 0, !.flushed = 0]
            /\ xc' = IF rows = {} THEN xc ELSE [f \in Field |-> Merged(f, rows)]
            /\ bmFile' = None /\ mmFile' = {}
  BY <1>1, <1>7, <1>8, <1>10, <1>11, <1>13, SealKeeps
<1> QED BY <1>1, <1>12, <1>13

-----------------------------------------------------------------------------
(* The theorems *)

\* A new table has no rows and no index.
LEMMA IndexInit == Init => IndexInv
<1> SUFFICES ASSUME Init PROVE IndexInv
  OBVIOUS
<1>1. /\ t.active = 0 /\ t.count = 0 /\ t.flushed = 0 /\ t.rows = <<>> /\ t.deleted = {}
      /\ t.index = NoIndex /\ t.wal = <<>>
      /\ DOMAIN t = {"active", "count", "flushed", "rows", "deleted", "index", "wal"}
  BY DEF Init, EmptyTable
<1>2. DOMAIN t.rows = {} /\ NoIndex \in Index
  BY <1>1 DEF NoIndex, Index
<1>3. IsTable(t)
  BY <1>1, <1>2 DEF IsTable
<1>4. Bounded(t) /\ Layout(t)
  BY <1>1, <1>2 DEF Bounded, Layout, NoIndex
<1>5. TypeOK
  BY <1>2, <1>3, BoundsAreNat DEF Init, TypeOK
<1>6. FilesAreDurable /\ CachedAreComplete
  BY DEF Init, FilesAreDurable, CachedAreComplete
<1>7. BitmapsInv /\ ZonesInv /\ ExactInv
  BY <1>2 DEF Init, BitmapsInv, ZonesInv, ExactInv, Live
<1> QED BY <1>4, <1>5, <1>6, <1>7 DEF IndexInv, IndexTypes

\* Every step keeps the invariant.
LEMMA IndexStep == IndexInv /\ [Next]_vars => IndexInv'
<1> SUFFICES ASSUME IndexInv, [Next]_vars PROVE IndexInv'
  OBVIOUS
<1>1. CASE \/ \E p \in PK : DeleteRow(p) \/ \E v \in Val : WriteRow(p, v)
           \/ FlushActiveSegmentBuffers \/ SaveIndex
  BY <1>1, RowStepsKeep
<1>2. CASE FlushActiveSegment
  BY <1>2, FlushActiveSegmentKeeps
<1>3. ASSUME NEW f \in Field, LoadExactIndex(f) PROVE IndexInv'
  BY <1>3, LoadExactIndexKeeps
<1>4. CASE Close
  BY <1>4, CloseKeeps
<1>5. CASE Crash
  BY <1>5, CrashKeeps
<1>6. CASE Open
  BY <1>6, OpenKeeps
<1>7. CASE OpenForQuery
  BY <1>7, OpenForQueryKeeps
<1>8. CASE UNCHANGED vars
  BY <1>8 DEF vars, segFiles, exact, bounds, IndexInv, IndexTypes, TypeOK, FilesAreDurable,
              CachedAreComplete, BitmapsInv, ZonesInv, ExactInv, Complete, Durable, Immutable, Live,
              ActiveLocs, Bounded, Layout, IsTable
<1> QED BY <1>1, <1>2, <1>3, <1>4, <1>5, <1>6, <1>7, <1>8 DEF Next

\* The inductive invariant holds.
LEMMA IndexInvariance == Spec => []IndexInv
BY IndexInit, IndexStep, PTL DEF Spec

\* The table and its secondary indexes stay of their kinds; the bitmaps, zone maps
\* and exact indexes never name a row that is not there, whatever a crash takes away.
THEOREM IndexesTypeTheorem == Spec => []TypeOK
<1>1. IndexInv => TypeOK
  BY DEF IndexInv, IndexTypes
<1> QED BY <1>1, IndexInvariance, PTL

\* Every live row of an open table is in its segment's column bitmaps, for any table
\* and any history without a crash between a flush of rows and one of bitmaps.
THEOREM BitmapsTheorem == Spec => []BitmapsCover
<1>1. IndexInv => BitmapsCover
  BY DEF IndexInv, BitmapsInv, BitmapsCover
<1> QED BY <1>1, IndexInvariance, PTL

\* The zone map of a segment covers all its rows, for any table and any history
\* without a crash that leaves rows of the active segment without theirs.
THEOREM ZonesTheorem == Spec => []ZonesCover
<1>1. IndexInv => ZonesCover
  BY DEF IndexInv, ZonesInv, ZonesCover, Live
<1> QED BY <1>1, IndexInvariance, PTL

\* The exact index a query gets has every live row of the immutable segments,
\* however it was built, patched, merged, evicted, saved and reloaded.
THEOREM ExactIndexTheorem == Spec => []ExactCovers
<1>1. IndexInv => ExactCovers
  BY LoadedFacts DEF ExactCovers
<1> QED BY <1>1, IndexInvariance, PTL

-----------------------------------------------------------------------------
(* Numbers *)

\* Induction up to a bound, for a set.
LEMMA UpTo ==
    ASSUME NEW N \in Nat, NEW Good, 0 \in Good,
           \A k \in 1 .. N : k - 1 \in Good => k \in Good
    PROVE  \A k \in 0 .. N : k \in Good
<1> DEFINE Bad == {k \in 0 .. N : k \notin Good}
<1>1. SUFFICES ASSUME Bad # {} PROVE FALSE
  OBVIOUS
<1>2. PICK k \in Bad : \A m \in Bad : k <= m
  <2>1. Bad \in SUBSET Nat
    OBVIOUS
  <2> HIDE DEF Bad
  <2> QED
    BY <1>1, <2>1, LeastNat
<1>3. k \in 1 .. N /\ k - 1 \in 0 .. N /\ k \notin Good
  OBVIOUS
<1>4. k - 1 \in Good
  BY <1>2, <1>3
<1> QED
  BY <1>3, <1>4

\* Min of two numbers.
LEMMA MinOfTwo ==
    ASSUME NEW a \in Nat, NEW b \in Nat
    PROVE  Min({a, b}) = IF a <= b THEN a ELSE b
<1> DEFINE m == IF a <= b THEN a ELSE b
<1>1. m \in {a, b} /\ \A y \in {a, b} : m =< y
  OBVIOUS
<1>2. \A x \in {a, b} : (\A y \in {a, b} : x =< y) => x = m
  OBVIOUS
<1> HIDE DEF m
<1>3. Min({a, b}) = m
  BY <1>1, <1>2 DEF Min
<1> QED
  BY <1>3 DEF m

-----------------------------------------------------------------------------
(* Lists and orders *)

\* A list is a function on 1 .. its length.
LEMMA ListFacts ==
    ASSUME NEW f, IsList(f)
    PROVE  /\ Len(f) \in Nat /\ DOMAIN f = 1 .. Len(f)
           /\ f = [i \in 1 .. Len(f) |-> f[i]]
           /\ (f = <<>> <=> Len(f) = 0)
<1>1. f \in Seq(Range(f))
  BY DEF IsList
<1>2. Len(f) \in Nat /\ DOMAIN f = 1 .. Len(f) /\ f \in [1 .. Len(f) -> Range(f)]
  BY <1>1, LenProperties
<1>3. f = <<>> <=> Len(f) = 0
  BY <1>1, EmptySeq
<1> QED
  BY <1>2, <1>3

\* A function on 1 .. n is a list of length n.
LEMMA LenIs ==
    ASSUME NEW n \in Nat, NEW f, DOMAIN f = 1 .. n, f = [i \in 1 .. n |-> f[i]]
    PROVE  Len(f) = n /\ IsList(f)
<1>1. f \in [1 .. n -> Range(f)]
  BY DEF Range
<1>2. f \in Seq(Range(f))
  BY <1>1
<1>3. Len(f) \in Nat /\ DOMAIN f = 1 .. Len(f)
  BY <1>2
<1>4. Len(f) = n
  BY <1>3
<1> QED
  BY <1>2, <1>4 DEF IsList

\* Lists that agree are equal.
LEMMA SameList ==
    ASSUME NEW f, NEW g, IsList(f), IsList(g), Len(f) = Len(g), \A i \in 1 .. Len(f) : f[i] = g[i]
    PROVE  f = g
<1>1. f = [i \in 1 .. Len(f) |-> f[i]] /\ g = [i \in 1 .. Len(f) |-> g[i]]
  BY ListFacts
<1> QED
  BY <1>1

\* A strict total order on a set.
IsOrder(S, order) ==
    /\ \A x \in S : <<x, x>> \notin order
    /\ \A x, y \in S : x # y => <<x, y>> \in order \/ <<y, x>> \in order
    /\ \A x, y, z \in S : <<x, y>> \in order /\ <<y, z>> \in order => <<x, z>> \in order

\* f lists the n members of a set in order.
Listing(f, n, S, order) ==
    /\ n \in Nat /\ DOMAIN f = 1 .. n
    /\ \A i \in 1 .. n : f[i] \in S
    /\ \A x \in S : \E i \in 1 .. n : f[i] = x
    /\ \A i, j \in 1 .. n : i < j => <<f[i], f[j]>> \in order

\* A listing has no repetitions.
LEMMA ListingIsInjective ==
    ASSUME NEW f, NEW n, NEW S, NEW order, IsOrder(S, order), Listing(f, n, S, order)
    PROVE  \A i, j \in 1 .. n : /\ f[i] = f[j] => i = j
                                /\ <<f[i], f[j]>> \in order => i < j
<1> SUFFICES ASSUME NEW i \in 1 .. n, NEW j \in 1 .. n
             PROVE  (f[i] = f[j] => i = j) /\ (<<f[i], f[j]>> \in order => i < j)
  OBVIOUS
<1>1. i < j \/ i = j \/ j < i
  BY DEF Listing
<1>2. f[i] \in S /\ f[j] \in S
  BY DEF Listing
<1>3. CASE i = j
  BY <1>2, <1>3 DEF IsOrder
<1>4. CASE i < j
  BY <1>2, <1>4 DEF IsOrder, Listing
<1>5. CASE j < i
  BY <1>2, <1>5 DEF IsOrder, Listing
<1> QED
  BY <1>1, <1>3, <1>4, <1>5

\* There is one listing of a set; one of its lower part is the first part of it.
LEMMA ListingsAgree ==
    ASSUME NEW f, NEW m, NEW S, NEW g, NEW n, NEW T, NEW order,
           IsOrder(T, order), S \subseteq T,
           \A x \in S, y \in T : <<y, x>> \in order => y \in S,
           Listing(f, m, S, order), Listing(g, n, T, order)
    PROVE  m <= n /\ \A i \in 1 .. m : f[i] = g[i]
<1> DEFINE Bad == {i \in 1 .. m : i > n \/ f[i] # g[i]}
<1>0. IsOrder(S, order) /\ m \in Nat /\ n \in Nat
  BY DEF IsOrder, Listing
<1>a. \A i, j \in 1 .. m : (f[i] = f[j] => i = j) /\ (<<f[i], f[j]>> \in order => i < j)
  BY <1>0, ListingIsInjective
<1>b. \A i, j \in 1 .. n : (g[i] = g[j] => i = j) /\ (<<g[i], g[j]>> \in order => i < j)
  BY <1>0, ListingIsInjective
<1>1. ASSUME Bad # {} PROVE FALSE
  <2>1. PICK i \in Bad : \A j \in Bad : i <= j
    <3>1. Bad \in SUBSET Nat
      BY <1>0
    <3> HIDE DEF Bad
    <3> QED
      BY <1>1, <3>1, LeastNat
  <2>2. i \in 1 .. m /\ i \in Nat /\ \A j \in 1 .. m : j < i => j <= n /\ f[j] = g[j]
    BY <1>0, <2>1
  <2>3. f[i] \in S
    BY <2>2 DEF Listing
  <2>4. PICK k \in 1 .. n : g[k] = f[i]
    BY <2>3 DEF Listing
  <2>5. ~(k < i)
    <3> SUFFICES ASSUME k < i PROVE FALSE
      OBVIOUS
    <3>1. k \in 1 .. m /\ f[k] = g[k]
      BY <1>0, <2>2, <2>4
    <3>2. f[k] = f[i]
      BY <2>4, <3>1
    <3>3. k = i
      BY <1>a, <2>2, <3>1, <3>2
    <3> QED
      BY <2>2, <3>3
  <2>6. i \in 1 .. n /\ i # k
    BY <1>0, <2>1, <2>2, <2>4, <2>5
  <2>7. <<g[i], g[k]>> \in order /\ g[i] \in T
    BY <1>0, <2>4, <2>5, <2>6 DEF Listing
  <2>8. g[i] \in S
    BY <2>3, <2>4, <2>7
  <2>9. PICK j \in 1 .. m : f[j] = g[i]
    BY <2>8 DEF Listing
  <2>10. <<f[j], f[i]>> \in order
    BY <2>4, <2>7, <2>9
  <2>11. j < i
    BY <1>a, <2>2, <2>9, <2>10
  <2>12. j \in 1 .. n /\ g[j] = g[i]
    BY <1>0, <2>2, <2>9, <2>11
  <2>13. j = i
    BY <1>b, <2>6, <2>12
  <2> QED
    BY <1>0, <2>11, <2>13
<1>2. \A i \in 1 .. m : i <= n /\ f[i] = g[i]
  BY <1>0, <1>1
<1>3. m <= n
  <2>1. CASE m = 0
    BY <1>0, <2>1
  <2>2. CASE m # 0
    <3>1. m \in 1 .. m
      BY <1>0, <2>2
    <3> QED
      BY <1>2, <3>1
  <2> QED
    BY <2>1, <2>2
<1> QED
  BY <1>2, <1>3

\* The ranks of a finite, ordered set list it.
LEMMA ByRankLists ==
    ASSUME NEW S, NEW order, IsFiniteSet(S), IsOrder(S, order)
    PROVE  Listing(ByRank(S, order), Cardinality(S), S, order)
<1> DEFINE n == Cardinality(S)
           lower(x) == {y \in S : <<y, x>> \in order}
           rank == [x \in S |-> Cardinality(lower(x))]
<1>1. n \in Nat
  BY FS_CardinalityType
<1>2. ASSUME NEW x \in S PROVE IsFiniteSet(lower(x)) /\ rank[x] \in 0 .. n - 1
  <2>1. lower(x) \in SUBSET S /\ x \notin lower(x)
    BY DEF IsOrder
  <2>2. IsFiniteSet(lower(x)) /\ Cardinality(lower(x)) <= n /\ (n = Cardinality(lower(x)) => S = lower(x))
    BY <2>1, FS_Subset
  <2>3. Cardinality(lower(x)) \in Nat
    BY <2>2, FS_CardinalityType
  <2> HIDE DEF lower, n
  <2> QED
    BY <1>1, <2>1, <2>2, <2>3
<1>3. ASSUME NEW x \in S, NEW y \in S, <<x, y>> \in order PROVE rank[x] < rank[y]
  <2>1. lower(x) \in SUBSET lower(y) /\ x \in lower(y) /\ x \notin lower(x)
    BY <1>3 DEF IsOrder
  <2>2. IsFiniteSet(lower(y))
    BY <1>2
  <2>3. Cardinality(lower(x)) <= Cardinality(lower(y))
        /\ (Cardinality(lower(y)) = Cardinality(lower(x)) => lower(y) = lower(x))
    BY <2>1, <2>2, FS_Subset
  <2>a. rank[x] \in 0 .. n - 1 /\ rank[y] \in 0 .. n - 1
    BY <1>2
  <2>b. rank[x] = Cardinality(lower(x)) /\ rank[y] = Cardinality(lower(y))
    OBVIOUS
  <2> HIDE DEF lower, rank, n
  <2>4. rank[x] \in Nat /\ rank[y] \in Nat
    BY <1>1, <2>a
  <2> QED
    BY <2>1, <2>3, <2>4, <2>b
<1>4. \A x, y \in S : rank[x] = rank[y] => x = y
  <2> SUFFICES ASSUME NEW x \in S, NEW y \in S, x # y PROVE rank[x] # rank[y]
    OBVIOUS
  <2>1. rank[x] \in 0 .. n - 1 /\ rank[y] \in 0 .. n - 1
    BY <1>2
  <2>2. rank[x] < rank[y] \/ rank[y] < rank[x]
    BY <1>3 DEF IsOrder
  <2> HIDE DEF rank, n
  <2> QED
    BY <1>1, <2>1, <2>2
<1>5. ASSUME NEW k \in 0 .. n - 1 PROVE \E x \in S : rank[x] = k
  <2> DEFINE D == 0 .. n - 1
  <2>1. IsFiniteSet(D) /\ Cardinality(D) = n
    <3> HIDE DEF n
    <3>0. 0 \in Int /\ n - 1 \in Int
      BY <1>1
    <3>1. IsFiniteSet(0 .. n - 1) /\ Cardinality(0 .. n - 1) = IF 0 > n - 1 THEN 0 ELSE (n - 1) - 0 + 1
      BY <3>0, FS_Interval
    <3> QED
      BY <1>1, <3>1
  <2>2. rank \in [S -> D] /\ rank \in Injection(S, D)
    <3>1. rank \in [S -> D]
      BY <1>2
    <3> HIDE DEF rank
    <3> QED
      BY <1>4, <3>1 DEF Injection, IsInjective
  <2>3. rank \in Surjection(S, D)
    <3> HIDE DEF rank, D, n
    <3> QED
      BY <2>1, <2>2, FS_Injection DEF n
  <2> QED
    BY <2>3 DEF Surjection
<1> DEFINE f == ByRank(S, order)
<1>6. f = [i \in 1 .. n |-> CHOOSE x \in S : Cardinality(lower(x)) = i - 1]
  BY DEF ByRank
<1>7. ASSUME NEW i \in 1 .. n PROVE f[i] \in S /\ rank[f[i]] = i - 1
  <2>1. i - 1 \in 0 .. n - 1
    BY <1>1
  <2>2. \E x \in S : Cardinality(lower(x)) = i - 1
    BY <1>5, <2>1
  <2>3. f[i] = CHOOSE x \in S : Cardinality(lower(x)) = i - 1
    BY <1>6
  <2> HIDE DEF lower, f
  <2>4. f[i] \in S /\ Cardinality(lower(f[i])) = i - 1
    BY <2>2, <2>3
  <2> QED
    BY <2>4
<1>8. DOMAIN f = 1 .. n
  BY <1>6
<1> HIDE DEF rank, f, n, lower
<1>9. ASSUME NEW x \in S PROVE \E i \in 1 .. n : f[i] = x
  <2>1. rank[x] \in 0 .. n - 1
    BY <1>2
  <2>2. rank[x] + 1 \in 1 .. n /\ (rank[x] + 1) - 1 = rank[x]
    BY <1>1, <2>1
  <2>3. f[rank[x] + 1] = x
    BY <1>4, <1>7, <2>2
  <2> QED
    BY <2>2, <2>3
<1>10. ASSUME NEW i \in 1 .. n, NEW j \in 1 .. n, i < j PROVE <<f[i], f[j]>> \in order
  <2>1. f[i] \in S /\ f[j] \in S /\ rank[f[i]] = i - 1 /\ rank[f[j]] = j - 1
    BY <1>7
  <2>2. f[i] # f[j]
    BY <1>1, <1>10, <2>1
  <2>3. <<f[i], f[j]>> \in order \/ <<f[j], f[i]>> \in order
    BY <2>1, <2>2 DEF IsOrder
  <2>4. ASSUME <<f[j], f[i]>> \in order PROVE FALSE
    <3>1. rank[f[j]] < rank[f[i]]
      BY <1>3, <2>1, <2>4
    <3> QED
      BY <1>1, <1>10, <2>1, <3>1
  <2> QED
    BY <2>3, <2>4
<1> QED
  BY <1>1, <1>7, <1>8, <1>9, <1>10 DEF Listing, f, n

-----------------------------------------------------------------------------
(* Picking, arranging and chaining *)

\* The order of numbers, and of pairs of numbers by the first and then the second.
Upward == {p \in Nat \X Nat : p[1] < p[2]}
PairOrder == {p \in (Nat \X Nat) \X (Nat \X Nat) :
                p[1][1] < p[2][1] \/ (p[1][1] = p[2][1] /\ p[1][2] < p[2][2])}

\* What they say.
LEMMA OrdersSay ==
    /\ \A x, y \in Nat : <<x, y>> \in Upward <=> x < y
    /\ \A x, y \in Nat \X Nat : <<x, y>> \in PairOrder <=> x[1] < y[1] \/ (x[1] = y[1] /\ x[2] < y[2])
BY DEF Upward, PairOrder

\* They are orders.
LEMMA NumbersAreOrdered ==
    ASSUME NEW S \in SUBSET Nat
    PROVE  IsOrder(S, Upward)
<1>1. \A x, y \in Nat : <<x, y>> \in Upward <=> x < y
  BY OrdersSay
<1> QED
  BY <1>1 DEF IsOrder

\* So are they for pairs.
LEMMA PairsAreOrdered ==
    ASSUME NEW S \in SUBSET (Nat \X Nat)
    PROVE  IsOrder(S, PairOrder)
<1>1. \A x, y \in Nat \X Nat : <<x, y>> \in PairOrder <=> x[1] < y[1] \/ (x[1] = y[1] /\ x[2] < y[2])
  BY OrdersSay
<1>2. \A x \in S : x[1] \in Nat /\ x[2] \in Nat /\ x \in Nat \X Nat /\ x = <<x[1], x[2]>>
  OBVIOUS
<1>3. \A x \in S : <<x, x>> \notin PairOrder
  BY <1>1, <1>2
<1>4. \A x, y \in S : x # y => <<x, y>> \in PairOrder \/ <<y, x>> \in PairOrder
  BY <1>1, <1>2
<1>5. ASSUME NEW x \in S, NEW y \in S, NEW z \in S, <<x, y>> \in PairOrder, <<y, z>> \in PairOrder
      PROVE  <<x, z>> \in PairOrder
  BY <1>1, <1>2, <1>5
<1> QED
  BY <1>3, <1>4, <1>5 DEF IsOrder

\* A list that has what another list has at the members of a set, in order; at
\* tells where.
Shows(a, at, n, list, S, order) ==
    /\ Listing(at, n, S, order) /\ n = Cardinality(S)
    /\ IsList(a) /\ Len(a) = n
    /\ \A i \in 1 .. n : a[i] = list[at[i]]

\* An arrangement of some places of a list is one.
LEMMA ArrangedIs ==
    ASSUME NEW list, NEW S, NEW order, IsFiniteSet(S), IsOrder(S, order)
    PROVE  \E at, n : Shows(Arranged(list, S, order), at, n, list, S, order)
<1> DEFINE at == ByRank(S, order)
           n == Cardinality(S)
           a == Arranged(list, S, order)
<1>1. Listing(at, n, S, order)
  BY ByRankLists
<1>2. n \in Nat /\ DOMAIN at = 1 .. n
  BY <1>1 DEF Listing
<1>3. a = [i \in 1 .. n |-> list[at[i]]]
  BY <1>2 DEF Arranged
<1> HIDE DEF at, n, a
<1>4. DOMAIN a = 1 .. n /\ a = [i \in 1 .. n |-> a[i]] /\ \A i \in 1 .. n : a[i] = list[at[i]]
  BY <1>3
<1>5. Len(a) = n /\ IsList(a)
  BY <1>2, <1>4, LenIs
<1>6. Shows(a, at, n, list, S, order)
  BY <1>1, <1>4, <1>5 DEF n, Shows
<1> QED
  BY <1>6 DEF a

\* What a list has at some places, in its order.
LEMMA PickAtIs ==
    ASSUME NEW list, NEW N \in Nat, NEW P \in SUBSET (1 .. N)
    PROVE  \E at, n : Shows(PickAt(list, P), at, n, list, P, Upward)
<1> DEFINE below == {p \in P \X P : p[1] < p[2]}
<1>1. IsFiniteSet(P)
  <2>1. IsFiniteSet(1 .. N)
    BY FS_Interval
  <2> QED
    BY <2>1, FS_Subset
<1>2. P \in SUBSET Nat
  OBVIOUS
<1>3. \A x, y \in P : <<x, y>> \in below <=> <<x, y>> \in Upward
  BY <1>2 DEF Upward
<1>4. IsOrder(P, below)
  <2>1. IsOrder(P, Upward)
    BY <1>2, NumbersAreOrdered
  <2> HIDE DEF below
  <2> QED
    BY <1>3, <2>1 DEF IsOrder
<1>5. PickAt(list, P) = Arranged(list, P, below)
  BY DEF PickAt
<1> HIDE DEF below
<1>6. PICK at, n : Shows(Arranged(list, P, below), at, n, list, P, below)
  BY <1>1, <1>4, ArrangedIs
<1>7. Listing(at, n, P, Upward)
  BY <1>3, <1>6 DEF Listing, Shows
<1>8. Shows(PickAt(list, P), at, n, list, P, Upward)
  BY <1>5, <1>6, <1>7 DEF Shows
<1> QED
  BY <1>8

\* The loop of FlattenSeq: g gives the chain of the first lists, up to k.
ChainLoop(g, k, lists) == g = [i \in 1 .. k |-> IF i = 1 THEN lists[i] ELSE g[i - 1] \o lists[i]]

\* It has a result.
LEMMA ChainLoopRuns ==
    ASSUME NEW lists, NEW N \in Nat
    PROVE  \E g : ChainLoop(g, N, lists)
<1> DEFINE Good == {k \in Nat : \E g : ChainLoop(g, k, lists)}
<1>1. 0 \in Good
  <2> DEFINE g == [i \in 1 .. 0 |-> 0]
  <2>1. g = [i \in 1 .. 0 |-> IF i = 1 THEN lists[i] ELSE g[i - 1] \o lists[i]]
    OBVIOUS
  <2> QED
    BY <2>1 DEF ChainLoop
<1>2. ASSUME NEW k \in 1 .. N, k - 1 \in Good PROVE k \in Good
  <2>1. PICK f : ChainLoop(f, k - 1, lists)
    BY <1>2
  <2> DEFINE last == IF k = 1 THEN lists[k] ELSE f[k - 1] \o lists[k]
             g == [i \in 1 .. k |-> IF i = k THEN last ELSE f[i]]
  <2>2. ASSUME NEW i \in 1 .. k
        PROVE  g[i] = IF i = 1 THEN lists[i] ELSE g[i - 1] \o lists[i]
    <3>1. CASE i = k
      <4>1. g[i] = last
        BY <3>1
      <4>2. k # 1 => g[k - 1] = f[k - 1]
        OBVIOUS
      <4> HIDE DEF g
      <4> QED
        BY <3>1, <4>1, <4>2
    <3>2. CASE i # k
      <4>1. i \in 1 .. k - 1 /\ (i # 1 => i - 1 \in 1 .. k - 1 /\ i - 1 # k)
        BY <3>2
      <4>2. g[i] = f[i] /\ (i # 1 => g[i - 1] = f[i - 1])
        BY <3>2, <4>1
      <4>3. f[i] = IF i = 1 THEN lists[i] ELSE f[i - 1] \o lists[i]
        BY <2>1, <4>1 DEF ChainLoop
      <4> HIDE DEF g
      <4> QED
        BY <4>2, <4>3
    <3> QED
      BY <3>1, <3>2
  <2>3. g = [i \in 1 .. k |-> g[i]]
    OBVIOUS
  <2> HIDE DEF g
  <2>4. ChainLoop(g, k, lists)
    BY <2>2, <2>3 DEF ChainLoop
  <2> QED
    BY <2>4
<1>3. N \in Good
  <2> HIDE DEF Good
  <2>1. \A k \in 0 .. N : k \in Good
    BY <1>1, <1>2, UpTo
  <2> QED
    BY <2>1
<1> QED
  BY <1>3

\* The places of lists in a list.
Spots(lists, k) == {p \in Nat \X Nat : p[1] \in 1 .. k /\ p[2] \in DOMAIN lists[p[1]]}

\* A chain shows what lists have, list after list.
Chains(a, at, lists, k) ==
    /\ IsList(a) /\ Listing(at, Len(a), Spots(lists, k), PairOrder)
    /\ \A i \in 1 .. Len(a) : a[i] = lists[at[i][1]][at[i][2]]

\* One more list is appended.
LEMMA ChainGrows ==
    ASSUME NEW lists, NEW k \in Nat, IsList(lists[k + 1]), NEW a, NEW at, Chains(a, at, lists, k)
    PROVE  \E bt : Chains(a \o lists[k + 1], bt, lists, k + 1)
<1> DEFINE b == lists[k + 1]
           n == Len(a)
           m == Len(b)
           bt == [i \in 1 .. n + m |-> IF i <= n THEN at[i] ELSE <<k + 1, i - n>>]
           c == a \o b
<1>1. n \in Nat /\ m \in Nat /\ DOMAIN a = 1 .. n /\ DOMAIN b = 1 .. m /\ IsList(a)
  BY ListFacts DEF Chains
<1>2. /\ IsList(c) /\ Len(c) = n + m
      /\ \A i \in 1 .. n + m : c[i] = IF i <= n THEN a[i] ELSE b[i - n]
  <2> DEFINE U == Range(a) \cup Range(b)
  <2>1. a \in Seq(U) /\ b \in Seq(U)
    BY <1>1, SeqMonotonic DEF IsList
  <2> HIDE DEF U, b
  <2>2. c \in Seq(U) /\ Len(c) = n + m /\ \A i \in 1 .. n + m : c[i] = IF i <= n THEN a[i] ELSE b[i - n]
    BY <2>1, ConcatProperties
  <2> HIDE DEF c, n, m
  <2>3. DOMAIN c = 1 .. n + m /\ c = [i \in 1 .. n + m |-> c[i]]
    BY <2>2, LenProperties
  <2>4. IsList(c)
    BY <1>1, <2>3, LenIs
  <2> QED
    BY <2>2, <2>4
<1>3. \A i \in 1 .. n + m : bt[i] = IF i <= n THEN at[i] ELSE <<k + 1, i - n>>
  OBVIOUS
<1>4. DOMAIN bt = 1 .. n + m
  OBVIOUS
<1>5. \A i \in 1 .. n : at[i] \in Spots(lists, k) /\ a[i] = lists[at[i][1]][at[i][2]]
  BY DEF Chains, Listing
<1> HIDE DEF bt, c, n, m
<1>6. \A i \in 1 .. n + m : i <= n \/ (i - n \in 1 .. m /\ ~(i <= n))
  BY <1>1
<1>7. ASSUME NEW i \in 1 .. n + m PROVE bt[i] \in Spots(lists, k + 1) /\ c[i] = lists[bt[i][1]][bt[i][2]]
  <2>1. CASE i <= n
    <3>0. i \in 1 .. n
      BY <1>1, <2>1
    <3>1. i \in 1 .. n /\ bt[i] = at[i] /\ c[i] = a[i]
      BY <1>2, <1>3, <2>1, <3>0
    <3> QED
      BY <1>5, <3>1 DEF Spots
  <2>2. CASE ~(i <= n)
    <3>1. i - n \in 1 .. m /\ bt[i] = <<k + 1, i - n>> /\ c[i] = b[i - n]
      BY <1>2, <1>3, <1>6, <2>2
    <3>2. k + 1 \in Nat /\ k + 1 \in 1 .. k + 1 /\ i - n \in Nat
      BY <1>1, <3>1
    <3> QED
      BY <1>1, <3>1, <3>2 DEF Spots
  <2> QED
    BY <2>1, <2>2
<1>8. ASSUME NEW x \in Spots(lists, k + 1) PROVE \E i \in 1 .. n + m : bt[i] = x
  <2>1. x \in Nat \X Nat /\ x[1] \in 1 .. k + 1 /\ x[2] \in DOMAIN lists[x[1]] /\ x = <<x[1], x[2]>>
    BY DEF Spots
  <2>2. CASE x[1] \in 1 .. k
    <3>1. x \in Spots(lists, k)
      BY <2>1, <2>2 DEF Spots
    <3>2. PICK i \in 1 .. n : at[i] = x
      BY <3>1 DEF Chains, Listing, n
    <3>3. i \in 1 .. n + m /\ i <= n
      BY <1>1
    <3> QED
      BY <1>3, <3>2, <3>3
  <2>3. CASE x[1] \notin 1 .. k
    <3>1. x[1] = k + 1 /\ x[2] \in 1 .. m
      BY <1>1, <2>1, <2>3
    <3>2. x[2] + n \in 1 .. n + m /\ ~(x[2] + n <= n) /\ (x[2] + n) - n = x[2]
      BY <1>1, <3>1
    <3>3. bt[x[2] + n] = <<k + 1, x[2]>>
      BY <1>3, <3>2
    <3> QED
      BY <2>1, <3>1, <3>2, <3>3
  <2> QED
    BY <2>2, <2>3
<1>9. ASSUME NEW i \in 1 .. n + m, NEW j \in 1 .. n + m, i < j PROVE <<bt[i], bt[j]>> \in PairOrder
  <2>1. bt[i] \in Nat \X Nat /\ bt[j] \in Nat \X Nat
    BY <1>7 DEF Spots
  <2>2. CASE j <= n
    <3>1. i \in 1 .. n /\ j \in 1 .. n /\ i <= n
      BY <1>1, <1>9, <2>2
    <3>2. <<at[i], at[j]>> \in PairOrder
      BY <1>9, <3>1 DEF Chains, Listing, n
    <3> QED
      BY <1>3, <2>2, <3>1, <3>2
  <2>3. CASE ~(j <= n) /\ i <= n
    <3>0. i \in 1 .. n
      BY <1>1, <2>3
    <3>1. i \in 1 .. n /\ bt[i] = at[i] /\ bt[j] = <<k + 1, j - n>>
      BY <1>3, <2>3, <3>0
    <3>2. bt[i][1] \in 1 .. k
      BY <1>5, <3>1 DEF Spots
    <3>3. bt[i][1] < bt[j][1]
      BY <3>1, <3>2
    <3> QED
      BY <2>1, <3>3, OrdersSay
  <2>4. CASE ~(j <= n) /\ ~(i <= n)
    <3>1. bt[i] = <<k + 1, i - n>> /\ bt[j] = <<k + 1, j - n>>
      BY <1>3, <2>4
    <3>2. i - n < j - n
      BY <1>1, <1>9
    <3> QED
      BY <2>1, <3>1, <3>2, OrdersSay
  <2> QED
    BY <2>2, <2>3, <2>4
<1>10. Chains(c, bt, lists, k + 1)
  <2>1. Listing(bt, n + m, Spots(lists, k + 1), PairOrder)
    <3>1. n + m \in Nat
      BY <1>1
    <3> QED
      BY <1>4, <1>7, <1>8, <1>9, <3>1 DEF Listing
  <2> QED
    BY <1>2, <1>7, <2>1 DEF Chains
<1> QED
  BY <1>10 DEF c

\* FlattenSeq chains its lists.
LEMMA FlattenIs ==
    ASSUME NEW lists, IsList(lists), \A i \in DOMAIN lists : IsList(lists[i])
    PROVE  \E at : Chains(FlattenSeq(lists), at, lists, Len(lists))
<1> DEFINE N == Len(lists)
<1>1. N \in Nat /\ DOMAIN lists = 1 .. N /\ (lists = <<>> <=> N = 0)
  BY ListFacts
<1>2. CASE N = 0
  <2> DEFINE e == [i \in 1 .. 0 |-> 0]
  <2>1. FlattenSeq(lists) = lists
    BY <1>2 DEF FlattenSeq
  <2>2. Spots(lists, N) = {}
    BY <1>2 DEF Spots
  <2>3. Chains(lists, e, lists, N)
    BY <1>2, <2>2 DEF Chains, Listing
  <2> QED
    BY <2>1, <2>3
<1>3. CASE N # 0
  <2> DEFINE g == CHOOSE g : ChainLoop(g, N, lists)
  <2>1. FlattenSeq(lists) = g[N]
    BY <1>3 DEF FlattenSeq, ChainLoop
  <2>2. ChainLoop(g, N, lists)
    BY <1>1, ChainLoopRuns
  <2> HIDE DEF g
  <2>3. \A i \in 1 .. N : g[i] = IF i = 1 THEN lists[i] ELSE g[i - 1] \o lists[i]
    BY <2>2 DEF ChainLoop
  <2> DEFINE Good == {k \in 0 .. N : k = 0 \/ \E at : Chains(g[k], at, lists, k)}
  <2>4. 0 \in Good
    BY <1>1
  <2>5. ASSUME NEW k \in 1 .. N, k - 1 \in Good PROVE k \in Good
    <3>1. IsList(lists[k]) /\ k \in 0 .. N
      BY <1>1
    <3>2. CASE k = 1
      <4> DEFINE at == [i \in 1 .. Len(lists[1]) |-> <<1, i>>]
      <4>1. Len(lists[1]) \in Nat /\ DOMAIN lists[1] = 1 .. Len(lists[1]) /\ g[1] = lists[1]
        BY <2>3, <3>1, <3>2, ListFacts
      <4>2. \A i \in 1 .. Len(lists[1]) : at[i] = <<1, i>> /\ at[i] \in Nat \X Nat /\ at[i] \in Spots(lists, 1)
        BY <4>1 DEF Spots
      <4>3. \A x \in Spots(lists, 1) : x = <<1, x[2]>> /\ x[2] \in 1 .. Len(lists[1])
        BY <4>1 DEF Spots
      <4>4. DOMAIN at = 1 .. Len(lists[1])
        OBVIOUS
      <4> HIDE DEF at
      <4>5. ASSUME NEW i \in 1 .. Len(lists[1]), NEW j \in 1 .. Len(lists[1]), i < j
            PROVE  <<at[i], at[j]>> \in PairOrder
        <5>1. at[i] \in Nat \X Nat /\ at[j] \in Nat \X Nat /\ at[i] = <<1, i>> /\ at[j] = <<1, j>>
          BY <4>2
        <5>2. <<at[i], at[j]>> \in PairOrder <=> at[i][1] < at[j][1] \/ (at[i][1] = at[j][1] /\ at[i][2] < at[j][2])
          BY <5>1, OrdersSay
        <5> QED
          BY <4>5, <5>1, <5>2
      <4>6. \A x \in Spots(lists, 1) : \E i \in 1 .. Len(lists[1]) : at[i] = x
        BY <4>2, <4>3
      <4>7. Listing(at, Len(lists[1]), Spots(lists, 1), PairOrder)
        BY <4>1, <4>2, <4>4, <4>5, <4>6 DEF Listing
      <4>8. Chains(lists[1], at, lists, 1)
        BY <3>1, <3>2, <4>2, <4>7 DEF Chains
      <4> QED
        BY <3>1, <3>2, <4>1, <4>8
    <3>3. CASE k # 1
      <4>1. k - 1 \in Nat /\ k - 1 # 0 /\ (k - 1) + 1 = k
        BY <3>3
      <4>2. PICK at : Chains(g[k - 1], at, lists, k - 1)
        BY <2>5, <4>1
      <4>3. \E bt : Chains(g[k - 1] \o lists[k], bt, lists, k)
        BY <3>1, <4>1, <4>2, ChainGrows
      <4>4. g[k] = g[k - 1] \o lists[k]
        BY <2>3, <3>3
      <4> QED
        BY <3>1, <4>3, <4>4
    <3> QED
      BY <3>2, <3>3
  <2>6. N \in Good
    <3> HIDE DEF Good, N
    <3>1. \A k \in 0 .. N : k \in Good
      BY <1>1, <2>4, <2>5, UpTo
    <3> QED
      BY <1>1, <3>1
  <2> QED
    BY <1>3, <2>1, <2>6
<1> QED
  BY <1>2, <1>3

-----------------------------------------------------------------------------
(* Places that correspond in order *)

\* h maps the places A to all the places B, upward.
Climbs(h, A, B) ==
    /\ h \in [A -> B]
    /\ \A y \in B : \E x \in A : h[x] = y
    /\ \A i, j \in A : i < j => h[i] < h[j]

\* C and D are parts of A and B that f takes to each other.
Parts(f, A, B, C, D) == C \subseteq A /\ D \subseteq B /\ \A x \in A : x \in C <=> f[x] \in D

\* Part of the way.
LEMMA ClimbPart ==
    ASSUME NEW A, NEW B, NEW f, Climbs(f, A, B), NEW C, NEW D, Parts(f, A, B, C, D)
    PROVE  Climbs([x \in C |-> f[x]], C, D)
<1> DEFINE h == [x \in C |-> f[x]]
<1>1. \A x \in C : h[x] = f[x]
  OBVIOUS
<1>2. h \in [C -> D]
  BY DEF Climbs, Parts
<1> HIDE DEF h
<1>3. \A y \in D : \E x \in C : h[x] = y
  BY <1>1 DEF Climbs, Parts
<1>4. \A i, j \in C : i < j => h[i] < h[j]
  BY <1>1 DEF Climbs, Parts
<1>5. Climbs(h, C, D)
  BY <1>2, <1>3, <1>4 DEF Climbs
<1> QED
  BY <1>5 DEF h

\* A listing of places climbs to them.
LEMMA ListingClimbs ==
    ASSUME NEW P \in SUBSET Nat, NEW at, NEW n, Listing(at, n, P, Upward)
    PROVE  \E h : Climbs(h, 1 .. n, P) /\ n \in Nat /\ \A i \in 1 .. n : h[i] = at[i]
<1> DEFINE h == [i \in 1 .. n |-> at[i]]
<1>1. \A i \in 1 .. n : h[i] = at[i]
  OBVIOUS
<1>2. h \in [1 .. n -> P]
  BY DEF Listing
<1> HIDE DEF h
<1>3. \A y \in P : \E x \in 1 .. n : h[x] = y
  BY <1>1 DEF Listing
<1>4. \A i, j \in 1 .. n : i < j => h[i] < h[j]
  <2> SUFFICES ASSUME NEW i \in 1 .. n, NEW j \in 1 .. n, i < j PROVE h[i] < h[j]
    OBVIOUS
  <2>1. <<at[i], at[j]>> \in Upward /\ at[i] \in Nat /\ at[j] \in Nat
    BY DEF Listing
  <2> QED
    BY <1>1, <2>1, OrdersSay
<1>5. Climbs(h, 1 .. n, P)
  BY <1>2, <1>3, <1>4 DEF Climbs
<1> QED
  BY <1>1, <1>5 DEF Listing

\* A climb from one whole list to another changes no place.
LEMMA ClimbIsIdentity ==
    ASSUME NEW m \in Nat, NEW n \in Nat, NEW h, Climbs(h, 1 .. m, 1 .. n)
    PROVE  m = n /\ \A i \in 1 .. m : h[i] = i
<1> DEFINE S == 1 .. n
           id == [i \in S |-> i]
<1>1. S \in SUBSET Nat /\ IsOrder(S, Upward)
  BY NumbersAreOrdered
<1>2. \A x, y \in Nat : <<x, y>> \in Upward <=> x < y
  BY OrdersSay
<1>3. Listing(id, n, S, Upward)
  BY <1>2 DEF Listing
<1>4. Listing(h, m, S, Upward)
  <2>1. DOMAIN h = 1 .. m /\ \A i \in 1 .. m : h[i] \in S
    BY DEF Climbs
  <2>2. \A i, j \in 1 .. m : i < j => <<h[i], h[j]>> \in Upward
    BY <1>2, <2>1 DEF Climbs
  <2>3. \A x \in S : \E i \in 1 .. m : h[i] = x
    BY DEF Climbs
  <2> HIDE DEF S
  <2> QED
    BY <2>1, <2>2, <2>3 DEF Listing
<1> HIDE DEF id, S
<1>5. \A x \in S, y \in S : <<y, x>> \in Upward => y \in S
  OBVIOUS
<1>6. m <= n /\ \A i \in 1 .. m : h[i] = id[i]
  BY <1>1, <1>3, <1>4, <1>5, ListingsAgree
<1>7. n <= m /\ \A i \in 1 .. n : id[i] = h[i]
  BY <1>1, <1>3, <1>4, <1>5, ListingsAgree
<1>8. m = n
  BY <1>6, <1>7
<1>9. \A i \in S : id[i] = i
  BY DEF id
<1> QED
  BY <1>6, <1>8, <1>9 DEF S

-----------------------------------------------------------------------------
(* Sums *)

\* The loop of SumFunctionOnSet: g gives the sum over every part of S.
SumLoop(g, f, S) ==
    g = [part \in SUBSET S |-> IF part = {} THEN 0
                               ELSE LET x == CHOOSE x \in part : TRUE IN f[x] + g[part \ {x}]]

\* The members of S, each as many times as f says.
Units(f, S) == {p \in S \X Nat : p[2] \in 1 .. f[p[1]]}

\* The loop has one result.
LEMMA SumIsUnique ==
    ASSUME NEW S, IsFiniteSet(S), NEW f, NEW g, SumLoop(g, f, S)
    PROVE  SumFunctionOnSet(f, S) = g[S]
<1> DEFINE e == CHOOSE e : SumLoop(e, f, S)
<1>1. SumFunctionOnSet(f, S) = e[S]
  BY DEF SumFunctionOnSet, FoldFunctionOnSet, MapThenFoldSet, SumLoop
<1>2. SumLoop(e, f, S)
  OBVIOUS
<1> HIDE DEF e
<1> DEFINE Good == {k \in Nat : \A part \in SUBSET S : Cardinality(part) = k => e[part] = g[part]}
<1>3. \A part \in SUBSET S : IsFiniteSet(part) /\ Cardinality(part) \in Nat
  BY FS_Subset, FS_CardinalityType
<1>4. 0 \in Good
  <2>1. ASSUME NEW part \in SUBSET S, Cardinality(part) = 0 PROVE e[part] = g[part]
    <3>1. part = {}
      BY <1>3, <2>1, FS_EmptySet
    <3> QED
      BY <1>2, <3>1 DEF SumLoop
  <2> QED
    BY <2>1
<1>5. ASSUME NEW k \in 1 .. Cardinality(S), k - 1 \in Good PROVE k \in Good
  <2>0. k \in Nat /\ k # 0
    OBVIOUS
  <2>1. ASSUME NEW part \in SUBSET S, Cardinality(part) = k PROVE e[part] = g[part]
    <3> DEFINE x == CHOOSE x \in part : TRUE
               rest == part \ {x}
    <3>1. part # {}
      BY <2>0, <2>1, FS_EmptySet
    <3>2. x \in part
      BY <3>1
    <3> HIDE DEF x
    <3>3. rest \in SUBSET S /\ IsFiniteSet(part)
      BY <1>3
    <3>4. Cardinality(rest) = k - 1
      BY <2>0, <2>1, <3>2, <3>3, FS_RemoveElement
    <3>5. e[rest] = g[rest]
      BY <1>5, <3>3, <3>4
    <3>6. e[part] = f[x] + e[rest] /\ g[part] = f[x] + g[rest]
      BY <1>2, <3>1 DEF SumLoop, x
    <3> QED
      BY <3>5, <3>6
  <2> QED
    BY <2>0, <2>1
<1>6. Cardinality(S) \in Nat
  BY FS_CardinalityType
<1>7. Cardinality(S) \in Good
  <2> HIDE DEF Good
  <2>1. \A k \in 0 .. Cardinality(S) : k \in Good
    BY <1>4, <1>5, <1>6, UpTo
  <2> QED
    BY <1>6, <2>1
<1> QED
  BY <1>1, <1>7

\* One more member.
LEMMA UnitsGrow ==
    ASSUME NEW f, NEW part, NEW x \in part, f[x] \in Nat, IsFiniteSet(Units(f, part \ {x}))
    PROVE  /\ IsFiniteSet(Units(f, part))
           /\ Cardinality(Units(f, part)) = f[x] + Cardinality(Units(f, part \ {x}))
<1> DEFINE old == Units(f, part \ {x})
           new == {x} \X (1 .. f[x])
<1>1. Units(f, part) = old \cup new
  <2>1. ASSUME NEW p \in Units(f, part) PROVE p \in old \cup new
    <3>1. p \in part \X Nat /\ p[2] \in 1 .. f[p[1]] /\ p = <<p[1], p[2]>>
      BY DEF Units
    <3>2. CASE p[1] = x
      <4>1. p[2] \in 1 .. f[x]
        BY <3>1, <3>2
      <4> QED
        BY <3>1, <3>2, <4>1
    <3>3. CASE p[1] # x
      <4>1. p \in (part \ {x}) \X Nat
        BY <3>1, <3>3
      <4> QED
        BY <3>1, <4>1 DEF Units
    <3> QED
      BY <3>2, <3>3
  <2>2. ASSUME NEW p \in old PROVE p \in Units(f, part)
    BY DEF Units
  <2>3. ASSUME NEW p \in new PROVE p \in Units(f, part)
    <3>1. p = <<x, p[2]>> /\ p[2] \in 1 .. f[x] /\ p[2] \in Nat
      OBVIOUS
    <3> QED
      BY <3>1 DEF Units
  <2> QED
    BY <2>1, <2>2, <2>3
<1>2. old \cap new = {}
  BY DEF Units
<1>3. IsFiniteSet(new) /\ Cardinality(new) = f[x]
  <2>1. IsFiniteSet({x}) /\ Cardinality({x}) = 1
    BY FS_Singleton
  <2>2. IsFiniteSet(1 .. f[x]) /\ Cardinality(1 .. f[x]) = f[x]
    BY FS_Interval
  <2>3. IsFiniteSet(new) /\ Cardinality(new) = 1 * f[x]
    BY <2>1, <2>2, FS_Product
  <2> QED
    BY <2>3
<1>4. Cardinality(old \cap new) = 0
  BY <1>2, FS_EmptySet
<1>5. IsFiniteSet(old) /\ Cardinality(old) \in Nat
  BY FS_CardinalityType
<1> HIDE DEF old, new
<1>6. IsFiniteSet(old \cup new) /\ Cardinality(old \cup new) = Cardinality(old) + Cardinality(new) - Cardinality(old \cap new)
  BY <1>3, <1>5, FS_Union
<1>7. Cardinality(old \cup new) = f[x] + Cardinality(old)
  BY <1>3, <1>4, <1>5, <1>6
<1> QED
  BY <1>1, <1>6, <1>7 DEF old

\* A sum counts the units.
LEMMA SumCounts ==
    ASSUME NEW S, IsFiniteSet(S), NEW f, \A x \in S : f[x] \in Nat
    PROVE  IsFiniteSet(Units(f, S)) /\ SumFunctionOnSet(f, S) = Cardinality(Units(f, S))
<1> DEFINE Good == {k \in Nat : \A part \in SUBSET S : Cardinality(part) = k => IsFiniteSet(Units(f, part))}
<1>0. Units(f, {}) = {}
  BY DEF Units
<1>1. \A part \in SUBSET S : IsFiniteSet(part) /\ Cardinality(part) \in Nat /\ Cardinality(part) <= Cardinality(S)
  BY FS_Subset, FS_CardinalityType
<1>2. 0 \in Good
  <2>1. ASSUME NEW part \in SUBSET S, Cardinality(part) = 0 PROVE IsFiniteSet(Units(f, part))
    <3>1. part = {}
      BY <1>1, <2>1, FS_EmptySet
    <3> QED
      BY <1>0, <3>1, FS_EmptySet
  <2> QED
    BY <2>1
<1>3. ASSUME NEW k \in 1 .. Cardinality(S), k - 1 \in Good PROVE k \in Good
  <2>0. k \in Nat /\ k # 0
    OBVIOUS
  <2>1. ASSUME NEW part \in SUBSET S, Cardinality(part) = k PROVE IsFiniteSet(Units(f, part))
    <3>1. PICK x \in part : TRUE
      BY <2>0, <2>1, FS_EmptySet
    <3>2. part \ {x} \in SUBSET S /\ IsFiniteSet(part)
      BY <1>1
    <3>3. Cardinality(part \ {x}) = k - 1
      BY <2>0, <2>1, <3>2, FS_RemoveElement
    <3>4. IsFiniteSet(Units(f, part \ {x}))
      BY <1>3, <3>2, <3>3
    <3> QED
      BY <3>4, UnitsGrow
  <2> QED
    BY <2>0, <2>1
<1>4. \A part \in SUBSET S : IsFiniteSet(Units(f, part))
  <2>1. Cardinality(S) \in Nat
    BY FS_CardinalityType
  <2>2. \A k \in 0 .. Cardinality(S) : k \in Good
    <3> HIDE DEF Good
    <3> QED
      BY <1>2, <1>3, <2>1, UpTo
  <2>3. \A part \in SUBSET S : Cardinality(part) \in 0 .. Cardinality(S)
    BY <1>1, <2>1
  <2> QED
    BY <2>2, <2>3
<1> DEFINE g == [part \in SUBSET S |-> Cardinality(Units(f, part))]
<1>5. SumLoop(g, f, S)
  <2>1. ASSUME NEW part \in SUBSET S
        PROVE  g[part] = IF part = {} THEN 0 ELSE LET x == CHOOSE x \in part : TRUE IN f[x] + g[part \ {x}]
    <3>1. CASE part = {}
      <4>1. g[part] = 0
        BY <1>0, <3>1, FS_EmptySet
      <4> QED
        BY <3>1, <4>1
    <3>2. CASE part # {}
      <4> DEFINE x == CHOOSE x \in part : TRUE
      <4>1. x \in part
        BY <3>2
      <4>2. part \ {x} \in SUBSET S
        OBVIOUS
      <4> HIDE DEF x
      <4>3. IsFiniteSet(Units(f, part \ {x})) /\ f[x] \in Nat
        BY <1>4, <4>1, <4>2
      <4>4. g[part] = Cardinality(Units(f, part)) /\ g[part \ {x}] = Cardinality(Units(f, part \ {x}))
        BY <4>2
      <4> HIDE DEF g
      <4>5. g[part] = f[x] + g[part \ {x}]
        BY <4>1, <4>3, <4>4, UnitsGrow
      <4> QED
        BY <3>2, <4>5 DEF x
    <3> QED
      BY <3>1, <3>2
  <2>2. g = [part \in SUBSET S |-> g[part]]
    OBVIOUS
  <2> HIDE DEF g
  <2> QED
    BY <2>1, <2>2 DEF SumLoop
<1>6. SumFunctionOnSet(f, S) = g[S]
  <2> HIDE DEF g
  <2> QED
    BY <1>5, SumIsUnique
<1> QED
  BY <1>4, <1>6

\* Sums over parts that have nothing in common.
LEMMA SumOfTwo ==
    ASSUME NEW S, NEW T, IsFiniteSet(S), IsFiniteSet(T), S \cap T = {}, NEW f, \A x \in S \cup T : f[x] \in Nat
    PROVE  SumFunctionOnSet(f, S \cup T) = SumFunctionOnSet(f, S) + SumFunctionOnSet(f, T)
<1> DEFINE s1 == Units(f, S)
           s2 == Units(f, T)
<1>1. IsFiniteSet(S \cup T)
  BY FS_Union
<1>2. /\ IsFiniteSet(s1) /\ SumFunctionOnSet(f, S) = Cardinality(s1)
      /\ IsFiniteSet(s2) /\ SumFunctionOnSet(f, T) = Cardinality(s2)
      /\ SumFunctionOnSet(f, S \cup T) = Cardinality(Units(f, S \cup T))
  BY <1>1, SumCounts
<1>3. Units(f, S \cup T) = s1 \cup s2
  BY DEF Units
<1>4. s1 \cap s2 = {}
  BY DEF Units
<1>5. Cardinality(s1 \cap s2) = 0
  BY <1>4, FS_EmptySet
<1> HIDE DEF s1, s2
<1>6. Cardinality(s1) \in Nat /\ Cardinality(s2) \in Nat
  BY <1>2, FS_CardinalityType
<1>7. Cardinality(s1 \cup s2) = Cardinality(s1) + Cardinality(s2) - Cardinality(s1 \cap s2)
  BY <1>2, FS_Union
<1>8. Cardinality(s1 \cup s2) = Cardinality(s1) + Cardinality(s2)
  BY <1>5, <1>6, <1>7
<1> QED
  BY <1>2, <1>3, <1>8

\* A sum is a number.
LEMMA SumIsNat ==
    ASSUME NEW S, IsFiniteSet(S), NEW f, \A x \in S : f[x] \in Nat
    PROVE  SumFunctionOnSet(f, S) \in Nat
BY SumCounts, FS_CardinalityType

\* The sum of ones is a count.
LEMMA SumOfOnes ==
    ASSUME NEW S, IsFiniteSet(S), NEW f, \A x \in S : f[x] = 1
    PROVE  SumFunctionOnSet(f, S) = Cardinality(S)
<1>1. \A x \in S : f[x] \in Nat
  OBVIOUS
<1>2. IsFiniteSet(Units(f, S)) /\ SumFunctionOnSet(f, S) = Cardinality(Units(f, S))
  BY <1>1, SumCounts
<1>3. Units(f, S) = S \X {1}
  BY DEF Units
<1>4. IsFiniteSet({1}) /\ Cardinality({1}) = 1
  BY FS_Singleton
<1>5. Cardinality(S \X {1}) = Cardinality(S) * 1
  BY <1>4, FS_Product
<1>6. Cardinality(S) \in Nat
  BY FS_CardinalityType
<1> QED
  BY <1>2, <1>3, <1>5, <1>6

\* Sums of classes add up to the whole sum.
LEMMA SumByParts ==
    ASSUME NEW S, IsFiniteSet(S), NEW f, \A x \in S : f[x] \in Nat,
           NEW G, IsFiniteSet(G), NEW by, \A x \in S : by[x] \in G,
           NEW m, \A c \in G : m[c] = SumFunctionOnSet(f, {x \in S : by[x] = c})
    PROVE  SumFunctionOnSet(m, G) = SumFunctionOnSet(f, S)
<1> DEFINE in(part) == {x \in S : by[x] \in part}
           g == [part \in SUBSET G |-> SumFunctionOnSet(f, in(part))]
<1>1. SumLoop(g, m, G)
  <2>1. ASSUME NEW part \in SUBSET G
        PROVE  g[part] = IF part = {} THEN 0 ELSE LET c == CHOOSE c \in part : TRUE IN m[c] + g[part \ {c}]
    <3>1. CASE part = {}
      <4>1. in(part) = {}
        BY <3>1
      <4>2. SumFunctionOnSet(f, {}) = 0
        <5>1. IsFiniteSet({}) /\ Cardinality({}) = 0
          BY FS_EmptySet
        <5>2. Units(f, {}) = {}
          BY DEF Units
        <5>3. \A x \in {} : f[x] \in Nat
          OBVIOUS
        <5>4. SumFunctionOnSet(f, {}) = Cardinality(Units(f, {}))
          BY <5>1, <5>3, SumCounts
        <5> QED
          BY <5>1, <5>2, <5>4
      <4> QED
        BY <3>1, <4>1, <4>2
    <3>2. CASE part # {}
      <4> DEFINE c == CHOOSE c \in part : TRUE
                 one == {x \in S : by[x] = c}
                 rest == in(part \ {c})
      <4>1. c \in part
        BY <3>2
      <4>2. part \ {c} \in SUBSET G
        OBVIOUS
      <4> HIDE DEF c
      <4>3. in(part) = one \cup rest /\ one \cap rest = {}
        BY <4>1
      <4>4. IsFiniteSet(one) /\ IsFiniteSet(rest)
        BY FS_Subset
      <4>5. \A x \in one \cup rest : f[x] \in Nat
        OBVIOUS
      <4>6. m[c] = SumFunctionOnSet(f, one)
        BY <4>1
      <4>7. g[part \ {c}] = SumFunctionOnSet(f, rest) /\ g[part] = SumFunctionOnSet(f, in(part))
        BY <4>2
      <4> HIDE DEF one, rest, in, g
      <4>8. g[part] = m[c] + g[part \ {c}]
        BY <4>3, <4>4, <4>5, <4>6, <4>7, SumOfTwo
      <4> QED
        BY <3>2, <4>8 DEF c
    <3> QED
      BY <3>1, <3>2
  <2>2. g = [part \in SUBSET G |-> g[part]]
    OBVIOUS
  <2> HIDE DEF g
  <2> QED
    BY <2>1, <2>2 DEF SumLoop
<1>2. SumFunctionOnSet(m, G) = g[G]
  <2> HIDE DEF g
  <2> QED
    BY <1>1, SumIsUnique
<1>3. in(G) = S
  OBVIOUS
<1> QED
  BY <1>2, <1>3

-----------------------------------------------------------------------------
(* Queries, rows and matches *)

\* The aliases that are bound after k joins.
Available(qry, k) == {Base} \cup {qry.joins[j].alias : j \in 1 .. k}

\* Join number k of a query.
IsJoin(qry, k, join) == k \in 1 .. Len(qry.joins) /\ join = qry.joins[k]

\* What a query is, said of one join.
LEMMA JoinFacts ==
    ASSUME NEW qry \in Queries, NEW k, NEW join, IsJoin(qry, k, join)
    PROVE  /\ Len(qry.joins) \in Nat /\ DOMAIN qry.joins = 1 .. Len(qry.joins) /\ k \in Nat /\ k - 1 \in Nat
           /\ join.alias \notin Available(qry, k - 1) /\ Available(qry, k) = Available(qry, k - 1) \cup {join.alias}
           /\ join.kind \in {"inner", "left"} /\ join.count \in BOOLEAN
           /\ IsList(join.on) /\ \A c \in DOMAIN join.on : join.on[c].new[1] = join.alias
           /\ join.sum # Absent => join.sum[1] = join.alias
           /\ Base # join.alias
<1>1. IsQuery(qry)
  BY QueriesAreQueries
<1>2. IsList(qry.joins)
  BY <1>1 DEF IsQuery
<1>3. Len(qry.joins) \in Nat /\ DOMAIN qry.joins = 1 .. Len(qry.joins)
  BY <1>2, ListFacts
<1>4. k \in DOMAIN qry.joins /\ k \in Nat /\ k - 1 \in Nat /\ k \in 1 .. k /\ 1 .. k = (1 .. k - 1) \cup {k}
  BY <1>3 DEF IsJoin
<1>5. /\ join.alias # Base /\ \A j \in 1 .. k - 1 : qry.joins[j].alias # join.alias
      /\ join.kind \in {"inner", "left"} /\ join.count \in BOOLEAN
      /\ IsList(join.on) /\ \A c \in DOMAIN join.on : join.on[c].new[1] = join.alias
      /\ join.sum # Absent => join.sum[1] = join.alias
  BY <1>1, <1>4 DEF IsQuery, IsJoin
<1>6. join.alias \notin Available(qry, k - 1)
  BY <1>5 DEF Available
<1>7. Available(qry, k) = Available(qry, k - 1) \cup {join.alias}
  <2>1. {qry.joins[j].alias : j \in 1 .. k} = {qry.joins[j].alias : j \in 1 .. k - 1} \cup {join.alias}
    BY <1>4 DEF IsJoin
  <2> QED
    BY <2>1 DEF Available
<1> QED
  BY <1>3, <1>4, <1>5, <1>6, <1>7

\* The fields that a query mentions, by where.
LEMMA MentionedFacts ==
    ASSUME NEW qry \in Queries
    PROVE  /\ \A f \in Mentioned(qry) : f = <<f[1], f[2]>>
           /\ \A f \in qry.filters : f.field \in Mentioned(qry)
           /\ \A f \in qry.select : f \in Mentioned(qry)
           /\ \A o \in Range(qry.order) : o.field \in Mentioned(qry)
           /\ qry.agg # Absent => qry.agg.field \in Mentioned(qry) /\ qry.agg.group \in Mentioned(qry)
           /\ TreeFields(qry) \subseteq Mentioned(qry)
           /\ \A k \in DOMAIN qry.joins :
                /\ \A c \in DOMAIN qry.joins[k].on :
                     qry.joins[k].on[c].old \in Mentioned(qry) /\ qry.joins[k].on[c].new \in Mentioned(qry)
                /\ qry.joins[k].sum # Absent => qry.joins[k].sum \in Mentioned(qry)
<1>1. \A f \in Mentioned(qry) : f = <<f[1], f[2]>>
  BY QueriesAreQueries DEF IsQuery
<1>2. \A f \in qry.filters : f.field \in Mentioned(qry)
  BY DEF Mentioned
<1>3. \A f \in qry.select : f \in Mentioned(qry)
  BY DEF Mentioned
<1>4. \A o \in Range(qry.order) : o.field \in Mentioned(qry)
  BY DEF Mentioned
<1>5. qry.agg # Absent => qry.agg.field \in Mentioned(qry) /\ qry.agg.group \in Mentioned(qry)
  <2>1. AggregateFields(qry) \subseteq Mentioned(qry)
    BY DEF Mentioned
  <2>2. qry.agg # Absent => qry.agg.field \in AggregateFields(qry) /\ qry.agg.group \in AggregateFields(qry)
    BY DEF AggregateFields
  <2> QED
    BY <2>1, <2>2
<1>6. TreeFields(qry) \subseteq Mentioned(qry)
  BY DEF Mentioned
<1>7. ASSUME NEW k \in DOMAIN qry.joins, NEW c \in DOMAIN qry.joins[k].on
      PROVE  qry.joins[k].on[c].old \in Mentioned(qry) /\ qry.joins[k].on[c].new \in Mentioned(qry)
  <2> DEFINE conds == UNION {Range(qry.joins[j].on) : j \in DOMAIN qry.joins}
  <2>1. qry.joins[k].on[c] \in conds
    BY DEF Range
  <2>2. UNION {{d.old, d.new} : d \in conds} \subseteq Mentioned(qry)
    BY DEF Mentioned
  <2> HIDE DEF conds
  <2> QED
    BY <2>1, <2>2
<1>8. ASSUME NEW k \in DOMAIN qry.joins, qry.joins[k].sum # Absent PROVE qry.joins[k].sum \in Mentioned(qry)
  <2>1. SummedFields(qry) \subseteq Mentioned(qry)
    BY DEF Mentioned
  <2>2. qry.joins[k].sum \in SummedFields(qry)
    BY <1>8 DEF SummedFields
  <2> QED
    BY <2>1, <2>2
<1> QED
  BY <1>1, <1>2, <1>3, <1>4, <1>5, <1>6, <1>7, <1>8

\* A row of the result so far: its fields are of bound aliases, its cells numbers.
RowOk(qry, k, row) == \A f \in DOMAIN row : f[1] \in Available(qry, k) /\ row[f][1] \in Nat

\* A row of a joined table: its fields are the alias's and none is synthetic, its
\* cells are numbers, and the fields joined on, filtered by and summed up are there.
IsMatch(qry, join, m) ==
    /\ \A f \in DOMAIN m : f[1] = join.alias /\ f[2] \notin {"count", "sum"} /\ m[f][1] \in Nat
    /\ \A c \in DOMAIN join.on : join.on[c].new \in DOMAIN m
    /\ join.sum # Absent => join.sum \in DOMAIN m
    /\ \A f \in qry.filters : f.field[1] = join.alias => f.field \in DOMAIN m
AreMatches(qry, join, list) == IsList(list) /\ \A i \in 1 .. Len(list) : IsMatch(qry, join, list[i])

\* What a database is, said of one table that is read.
LEMMA SourceFacts ==
    ASSUME NEW db \in Databases, NEW qry \in Queries, NEW alias, alias \in Available(qry, Len(qry.joins))
    PROVE  /\ IsList(db[alias]) /\ alias \in DOMAIN db
           /\ \A i \in DOMAIN db[alias] :
                /\ DOMAIN db[alias][i] = DOMAIN db[alias][1]
                /\ \A c \in DOMAIN db[alias][i] : db[alias][i][c][1] \in Nat /\ c \notin {"count", "sum"}
           /\ \A f \in qry.filters : f.field[1] = alias => \A i \in DOMAIN db[alias] : f.field[2] \in DOMAIN db[alias][i]
<1>1. IsDatabase(db) /\ Fits(qry, db)
  BY DatabasesAreTables, QueriesFit
<1>2. IsList(qry.joins)
  BY QueriesAreQueries DEF IsQuery
<1>3. DOMAIN qry.joins = 1 .. Len(qry.joins)
  BY <1>2, ListFacts
<1>4. alias \in {Base} \cup {qry.joins[k].alias : k \in DOMAIN qry.joins}
  BY <1>3 DEF Available
<1>5. alias \in DOMAIN db
  BY <1>1, <1>4 DEF Fits
<1>6. \A i \in DOMAIN db[alias] : db[alias][i] \in Range(db[alias])
  BY DEF Range
<1>7. ASSUME NEW i \in DOMAIN db[alias]
      PROVE  /\ DOMAIN db[alias][i] = DOMAIN db[alias][1]
             /\ \A c \in DOMAIN db[alias][i] : db[alias][i][c][1] \in Nat /\ c \notin {"count", "sum"}
  <2>1. \A c \in DOMAIN db[alias][i] : db[alias][i][c] \in Nat \X {"int", "dec"}
    BY <1>1, <1>5 DEF IsDatabase
  <2>2. {"count", "sum"} \cap DOMAIN db[alias][i] = {}
    BY <1>1, <1>4, <1>6 DEF Fits
  <2>3. DOMAIN db[alias][i] = DOMAIN db[alias][1]
    BY <1>1, <1>5 DEF IsDatabase
  <2> QED
    BY <2>1, <2>2, <2>3
<1>8. ASSUME NEW f \in qry.filters, f.field[1] = alias, NEW i \in DOMAIN db[alias] PROVE f.field[2] \in DOMAIN db[alias][i]
  BY <1>1, <1>4, <1>6, <1>8 DEF Fits
<1> QED
  BY <1>1, <1>5, <1>7, <1>8 DEF IsDatabase

\* What was read of a row is a match ...
LEMMA FlatIsMatch ==
    ASSUME NEW db \in Databases, NEW qry \in Queries, NEW k, NEW join, IsJoin(qry, k, join),
           NEW n \in DOMAIN db[join.alias]
    PROVE  IsMatch(qry, join, Flat(db, qry, join.alias, db[join.alias][n]))
<1> DEFINE alias == join.alias
           table == db[alias]
           m == Flat(db, qry, alias, table[n])
<1>1. alias \in Available(qry, Len(qry.joins))
  BY DEF Available, IsJoin
<1>2. /\ DOMAIN table[n] = DOMAIN table[1]
      /\ \A c \in DOMAIN table[n] : table[n][c][1] \in Nat /\ c \notin {"count", "sum"}
      /\ \A f \in qry.filters : f.field[1] = alias => f.field[2] \in DOMAIN table[n]
  BY <1>1, SourceFacts
<1>3. /\ \A c \in DOMAIN join.on : join.on[c].new[1] = alias
      /\ join.sum # Absent => join.sum[1] = alias
      /\ k \in DOMAIN qry.joins /\ join = qry.joins[k]
  <2>1. /\ \A c \in DOMAIN join.on : join.on[c].new[1] = alias
        /\ join.sum # Absent => join.sum[1] = alias
        /\ DOMAIN qry.joins = 1 .. Len(qry.joins)
    BY JoinFacts
  <2> QED
    BY <2>1 DEF IsJoin
<1>4. /\ \A f \in qry.filters : f.field \in Mentioned(qry)
      /\ \A c \in DOMAIN join.on : join.on[c].new \in Mentioned(qry)
      /\ join.sum # Absent => join.sum \in Mentioned(qry)
  BY <1>3, MentionedFacts
<1>5. /\ \A c \in DOMAIN join.on : join.on[c].new[2] \in DOMAIN table[n]
      /\ join.sum # Absent => join.sum[2] \in DOMAIN table[n]
  <2>1. Fits(qry, db)
    BY QueriesFit
  <2>2. alias \in {Base} \cup {qry.joins[j].alias : j \in DOMAIN qry.joins}
    BY <1>3
  <2>3. table[n] \in Range(db[alias])
    BY DEF Range
  <2>4. ASSUME NEW c \in DOMAIN join.on PROVE join.on[c].new[2] \in DOMAIN table[n]
    <3>1. join.on[c] \in Range(qry.joins[k].on)
      BY <1>3 DEF Range
    <3>2. join.on[c].new[1] = alias
      BY <1>3
    <3> QED
      BY <1>3, <2>1, <2>2, <2>3, <3>1, <3>2 DEF Fits
  <2>5. ASSUME join.sum # Absent PROVE join.sum[2] \in DOMAIN table[n]
    <3>1. join.sum[1] = alias
      BY <1>3, <2>5
    <3> QED
      BY <1>3, <2>1, <2>2, <2>3, <2>5, <3>1 DEF Fits
  <2> QED
    BY <2>4, <2>5
<1>6. DOMAIN m = {f \in Mentioned(qry) : f[1] = alias /\ f[2] \in DOMAIN table[n]} /\ \A f \in DOMAIN m : m[f] = table[n][f[2]]
  BY <1>2 DEF Flat, Needed
<1> HIDE DEF m, table, alias
<1> QED
  BY <1>2, <1>3, <1>4, <1>5, <1>6 DEF IsMatch, alias, table, m

\* ... and so is a whole row, which has all that is read.
LEMMA WholeIsMatch ==
    ASSUME NEW db \in Databases, NEW qry \in Queries, NEW k, NEW join, IsJoin(qry, k, join),
           NEW n \in DOMAIN db[join.alias]
    PROVE  IsMatch(qry, join, Whole(db, join.alias)[n])
<1> DEFINE alias == join.alias
           table == db[alias]
           m == Flat(db, qry, alias, table[n])
           w == Whole(db, alias)[n]
<1>1. alias \in Available(qry, Len(qry.joins))
  BY DEF Available, IsJoin
<1>2. /\ DOMAIN table[n] = DOMAIN table[1]
      /\ \A c \in DOMAIN table[n] : table[n][c][1] \in Nat /\ c \notin {"count", "sum"}
  BY <1>1, SourceFacts
<1>3. DOMAIN w = {<<alias, c>> : c \in DOMAIN table[n]} /\ \A f \in DOMAIN w : w[f] = table[n][f[2]]
  BY <1>2 DEF Whole
<1>4. DOMAIN m = {f \in Mentioned(qry) : f[1] = alias /\ f[2] \in DOMAIN table[n]}
  BY <1>2 DEF Flat, Needed
<1>5. \A f \in DOMAIN m : f \in DOMAIN w
  <2>1. \A f \in Mentioned(qry) : f = <<f[1], f[2]>>
    BY MentionedFacts
  <2> QED
    BY <1>3, <1>4, <2>1
<1>6. IsMatch(qry, join, m)
  BY FlatIsMatch
<1>7. \A f \in DOMAIN w : f[1] = alias /\ f[2] \in DOMAIN table[n]
  BY <1>3
<1> HIDE DEF m, w, table
<1>8. \A f \in DOMAIN w : f[1] = alias /\ f[2] \notin {"count", "sum"} /\ w[f][1] \in Nat
  BY <1>2, <1>3, <1>7
<1> HIDE DEF alias
<1>9. IsMatch(qry, join, w)
  BY <1>5, <1>6, <1>8 DEF IsMatch, alias
<1> QED
  BY <1>9 DEF alias, w

\* A merged row.
LEMMA MergeIs ==
    ASSUME NEW row, NEW other
    PROVE  /\ DOMAIN MergeRow(row, other) = DOMAIN row \cup DOMAIN other
           /\ \A f \in DOMAIN other : MergeRow(row, other)[f] = other[f]
           /\ \A f \in DOMAIN row : f \notin DOMAIN other => MergeRow(row, other)[f] = row[f]
BY DEF MergeRow

\* The sum of a field of matches is a number.
LEMMA MatchSum ==
    ASSUME NEW qry, NEW join, NEW list, AreMatches(qry, join, list), join.sum # Absent
    PROVE  SumOf(list, join.sum) \in Nat
<1> DEFINE cells == [m \in DOMAIN list |-> list[m][join.sum][1]]
<1>1. DOMAIN list = 1 .. Len(list) /\ Len(list) \in Nat
  BY ListFacts DEF AreMatches
<1>2. IsFiniteSet(DOMAIN list)
  BY <1>1, FS_Interval
<1>3. \A m \in DOMAIN list : cells[m] \in Nat
  BY <1>1 DEF AreMatches, IsMatch
<1>4. DOMAIN cells = DOMAIN list
  OBVIOUS
<1> HIDE DEF cells
<1>5. SumFunctionOnSet(cells, DOMAIN cells) \in Nat
  BY <1>2, <1>3, <1>4, SumIsNat
<1> QED
  BY <1>5 DEF SumOf, SumFunction, cells

\* The synthetic fields.
LEMMA SyntheticIs ==
    ASSUME NEW qry, NEW join, NEW list, AreMatches(qry, join, list)
    PROVE  /\ \A f \in DOMAIN Synthetic(join, list) :
                f = <<join.alias, f[2]>> /\ f[2] \in {"count", "sum"} /\ Synthetic(join, list)[f][1] \in Nat
           /\ \A f : f \in DOMAIN Synthetic(join, list) <=>
                (f = <<join.alias, "count">> /\ join.count) \/ (f = <<join.alias, "sum">> /\ join.sum # Absent)
           /\ \A f \in DOMAIN Synthetic(join, list) : Synthetic(join, list)[f] =
                 <<IF f[2] = "count" THEN Len(list) ELSE SumOf(list, join.sum), "int">>
<1> DEFINE names == (IF join.count THEN {"count"} ELSE {}) \cup (IF join.sum # Absent THEN {"sum"} ELSE {})
           row == Synthetic(join, list)
<1>1. row = [f \in {join.alias} \X names |-> <<IF f[2] = "count" THEN Len(list) ELSE SumOf(list, join.sum), "int">>]
  BY DEF Synthetic
<1>2. \A x : x \in names <=> (x = "count" /\ join.count) \/ (x = "sum" /\ join.sum # Absent)
  OBVIOUS
<1>3. Len(list) \in Nat /\ (join.sum # Absent => SumOf(list, join.sum) \in Nat)
  BY ListFacts, MatchSum DEF AreMatches
<1> HIDE DEF names, row
<1>4. DOMAIN row = {join.alias} \X names
  BY <1>1
<1>5. \A f \in DOMAIN row : f = <<join.alias, f[2]>> /\ f[2] \in names
  BY <1>4
<1>6. \A f \in DOMAIN row : row[f] = <<IF f[2] = "count" THEN Len(list) ELSE SumOf(list, join.sum), "int">>
  BY <1>1, <1>4
<1>7. \A f \in DOMAIN row : f[2] \in {"count", "sum"} /\ row[f][1] \in Nat
  BY <1>2, <1>3, <1>5, <1>6
<1>8. ASSUME NEW f
      PROVE  f \in DOMAIN row <=> (f = <<join.alias, "count">> /\ join.count) \/ (f = <<join.alias, "sum">> /\ join.sum # Absent)
  <2>1. f \in DOMAIN row <=> f = <<join.alias, f[2]>> /\ f[2] \in names
    BY <1>4
  <2> QED
    BY <1>2, <2>1
<1> QED
  BY <1>5, <1>6, <1>7, <1>8 DEF row

\* What a row becomes: again rows, of one more alias.
LEMMA JoinedIs ==
    ASSUME NEW qry \in Queries, NEW k, NEW join, IsJoin(qry, k, join),
           NEW row, RowOk(qry, k - 1, row), NEW list, AreMatches(qry, join, list)
    PROVE  /\ IsList(Joined(row, list, join))
           /\ \A i \in 1 .. Len(Joined(row, list, join)) :
                LET new == Joined(row, list, join)[i] IN
                RowOk(qry, k, new) /\ \A f \in DOMAIN new \ DOMAIN row : f[1] = join.alias
           /\ \A i \in 1 .. Len(Joined(row, list, join)) : \A f \in DOMAIN row :
                f \in DOMAIN Joined(row, list, join)[i] /\ Joined(row, list, join)[i][f] = row[f]
           /\ join.kind = "left" => Len(Joined(row, list, join)) >= 1
<1> DEFINE new == Joined(row, list, join)
           Good(r) == /\ RowOk(qry, k, r) /\ \A f \in DOMAIN r \ DOMAIN row : f[1] = join.alias
                      /\ \A f \in DOMAIN row : f \in DOMAIN r /\ r[f] = row[f]
           n == Len(list)
<1>1. n \in Nat /\ DOMAIN list = 1 .. n /\ (list = <<>> <=> n = 0) /\ IsList(list)
  BY ListFacts DEF AreMatches
<1>2. join.alias \notin Available(qry, k - 1) /\ Available(qry, k) = Available(qry, k - 1) \cup {join.alias}
  BY JoinFacts
<1>3. ASSUME NEW other, \A f \in DOMAIN other : f[1] = join.alias /\ other[f][1] \in Nat
      PROVE  Good(MergeRow(row, other))
  <2> DEFINE r == MergeRow(row, other)
  <2>1. /\ DOMAIN r = DOMAIN row \cup DOMAIN other
        /\ \A f \in DOMAIN other : r[f] = other[f]
        /\ \A f \in DOMAIN row : f \notin DOMAIN other => r[f] = row[f]
    BY MergeIs
  <2>2. \A f \in DOMAIN row : f \notin DOMAIN other
    BY <1>2, <1>3 DEF RowOk
  <2> HIDE DEF r
  <2>3. RowOk(qry, k, r)
    BY <1>2, <1>3, <2>1, <2>2 DEF RowOk
  <2>4. \A f \in DOMAIN r \ DOMAIN row : f[1] = join.alias
    BY <1>3, <2>1
  <2> QED
    BY <2>1, <2>2, <2>3, <2>4 DEF r
<1>4. Good(row)
  BY <1>2 DEF RowOk
<1>5. Good(MergeRow(row, Synthetic(join, list)))
  <2>1. \A f \in DOMAIN Synthetic(join, list) : f = <<join.alias, f[2]>> /\ Synthetic(join, list)[f][1] \in Nat
    BY SyntheticIs
  <2>2. \A f \in DOMAIN Synthetic(join, list) : f[1] = join.alias /\ Synthetic(join, list)[f][1] \in Nat
    BY <2>1
  <2> HIDE DEF Good
  <2> QED
    BY <1>3, <2>2
<1>6. \A m \in 1 .. n : Good(MergeRow(row, list[m]))
  <2> SUFFICES ASSUME NEW m \in 1 .. n PROVE Good(MergeRow(row, list[m]))
    OBVIOUS
  <2>1. \A f \in DOMAIN list[m] : f[1] = join.alias /\ list[m][f][1] \in Nat
    BY DEF AreMatches, IsMatch
  <2> HIDE DEF Good
  <2> QED
    BY <1>3, <2>1
<1> HIDE DEF Good, n
<1>7. ASSUME NEW r, Good(r) PROVE Len(<<r>>) = 1 /\ IsList(<<r>>) /\ \A i \in 1 .. Len(<<r>>) : Good(<<r>>[i])
  <2>1. DOMAIN <<r>> = 1 .. 1 /\ <<r>> = [i \in 1 .. 1 |-> <<r>>[i]]
    OBVIOUS
  <2>2. Len(<<r>>) = 1 /\ IsList(<<r>>)
    BY <2>1, LenIs
  <2> QED
    BY <1>7, <2>2
<1>8. IsList(new) /\ (\A i \in 1 .. Len(new) : Good(new[i])) /\ (join.kind = "left" => Len(new) >= 1)
  <2>1. CASE list = <<>> /\ join.kind = "inner"
    <3>1. new = <<>>
      BY <2>1 DEF Joined
    <3>2. Len(<<>>) = 0 /\ IsList(<<>>)
      BY DEF IsList, Range
    <3> QED
      BY <2>1, <3>1, <3>2
  <2>2. CASE ~(list = <<>> /\ join.kind = "inner") /\ IsAggregate(join)
    <3>1. new = <<MergeRow(row, Synthetic(join, list))>>
      BY <2>2 DEF Joined
    <3> HIDE DEF new
    <3> QED
      BY <1>5, <1>7, <3>1
  <2>3. CASE ~(list = <<>> /\ join.kind = "inner") /\ ~IsAggregate(join) /\ list = <<>>
    <3>1. new = <<row>>
      BY <2>3 DEF Joined
    <3> HIDE DEF new
    <3> QED
      BY <1>4, <1>7, <3>1
  <2>4. CASE ~(list = <<>> /\ join.kind = "inner") /\ ~IsAggregate(join) /\ list # <<>>
    <3>1. new = [m \in 1 .. n |-> MergeRow(row, list[m])]
      BY <1>1, <2>4 DEF Joined
    <3> HIDE DEF new
    <3>2. DOMAIN new = 1 .. n /\ new = [m \in 1 .. n |-> new[m]] /\ \A m \in 1 .. n : new[m] = MergeRow(row, list[m])
      BY <3>1
    <3>3. Len(new) = n /\ IsList(new)
      BY <1>1, <3>2, LenIs
    <3>4. n >= 1
      BY <1>1, <2>4
    <3> QED
      BY <1>6, <3>2, <3>3, <3>4
  <2> QED
    BY <2>1, <2>2, <2>3, <2>4
<1> HIDE DEF new
<1> QED
  BY <1>8 DEF Good, new

-----------------------------------------------------------------------------
(* Rows that show the same fields *)

\* Two rows agree on the fields F.
Alike(F, a, b) == \A f \in F : (f \in DOMAIN a <=> f \in DOMAIN b) /\ (f \in DOMAIN a => a[f] = b[f])

\* A row meets filters; the places of a list where one does.
Meets(fs, row) == \A f \in fs : Evaluate(row, f)
Meeting(rows, fs) == {i \in DOMAIN rows : Meets(fs, rows[i])}

\* The rows of X that meet the filters are, in order, like those of Y that do.
Match(F, X, Y, fs, h) ==
    /\ Climbs(h, Meeting(X, fs), Meeting(Y, fs))
    /\ \A i \in Meeting(X, fs) : Alike(F, X[i], Y[h[i]])
Matched(F, X, Y, fs) == \E h : Match(F, X, Y, fs, h)

\* Rows that agree cannot be told apart by what is read of them.
LEMMA AlikeReads ==
    ASSUME NEW F, NEW a, NEW b, Alike(F, a, b)
    PROVE  /\ \A f \in F : CellOr(a, f) = CellOr(b, f)
           /\ \A f : f.field \in F => (Evaluate(a, f) <=> Evaluate(b, f))
<1>1. \A f \in F : CellOr(a, f) = CellOr(b, f)
  BY DEF Alike, CellOr
<1>2. ASSUME NEW f, f.field \in F PROVE Evaluate(a, f) <=> Evaluate(b, f)
  <2>1. (f.field \in DOMAIN a <=> f.field \in DOMAIN b) /\ (f.field \in DOMAIN a => a[f.field] = b[f.field])
    BY <1>2 DEF Alike
  <2> QED
    BY <2>1 DEF Evaluate
<1> QED
  BY <1>1, <1>2

\* Merging rows that agree.
LEMMA AlikeMerge ==
    ASSUME NEW F, NEW a, NEW b, Alike(F, a, b), NEW c, NEW d, Alike(F, c, d)
    PROVE  Alike(F, MergeRow(a, c), MergeRow(b, d))
<1>1. /\ DOMAIN MergeRow(a, c) = DOMAIN a \cup DOMAIN c
      /\ \A f \in DOMAIN c : MergeRow(a, c)[f] = c[f]
      /\ \A f \in DOMAIN a : f \notin DOMAIN c => MergeRow(a, c)[f] = a[f]
  BY MergeIs
<1>2. /\ DOMAIN MergeRow(b, d) = DOMAIN b \cup DOMAIN d
      /\ \A f \in DOMAIN d : MergeRow(b, d)[f] = d[f]
      /\ \A f \in DOMAIN b : f \notin DOMAIN d => MergeRow(b, d)[f] = b[f]
  BY MergeIs
<1> QED
  BY <1>1, <1>2 DEF Alike

\* Chains of lists that match, list by list, match.
LEMMA FlattenMatched ==
    ASSUME NEW F, NEW fs, NEW LX, NEW LY, IsList(LX), IsList(LY),
           \A i \in DOMAIN LX : IsList(LX[i]), \A j \in DOMAIN LY : IsList(LY[j]),
           NEW A \in SUBSET DOMAIN LX, NEW B \in SUBSET DOMAIN LY, NEW h, Climbs(h, A, B),
           \A i \in A : Matched(F, LX[i], LY[h[i]], fs),
           \A i \in DOMAIN LX \ A : Meeting(LX[i], fs) = {},
           \A j \in DOMAIN LY \ B : Meeting(LY[j], fs) = {}
    PROVE  Matched(F, FlattenSeq(LX), FlattenSeq(LY), fs)
<1> DEFINE X == FlattenSeq(LX)
           Y == FlattenSeq(LY)
           GX == Meeting(X, fs)
           GY == Meeting(Y, fs)
           sx == Spots(LX, Len(LX))
           sy == Spots(LY, Len(LY))
           inner == [i \in A |-> CHOOSE g : Match(F, LX[i], LY[h[i]], fs, g)]
<1>1. PICK at : Chains(X, at, LX, Len(LX))
  BY FlattenIs
<1>2. PICK bt : Chains(Y, bt, LY, Len(LY))
  BY FlattenIs
<1>3. \A i \in A : Match(F, LX[i], LY[h[i]], fs, inner[i])
  BY DEF Matched
<1>4. /\ DOMAIN LX = 1 .. Len(LX) /\ DOMAIN LY = 1 .. Len(LY) /\ Len(LX) \in Nat /\ Len(LY) \in Nat
      /\ A \in SUBSET Nat /\ B \in SUBSET Nat
  BY ListFacts
<1> HIDE DEF inner
<1>5. /\ IsList(X) /\ Listing(at, Len(X), sx, PairOrder) /\ \A x \in 1 .. Len(X) : X[x] = LX[at[x][1]][at[x][2]]
      /\ IsList(Y) /\ Listing(bt, Len(Y), sy, PairOrder) /\ \A y \in 1 .. Len(Y) : Y[y] = LY[bt[y][1]][bt[y][2]]
  BY <1>1, <1>2 DEF Chains
<1> HIDE DEF X, Y
<1>6. DOMAIN X = 1 .. Len(X) /\ DOMAIN Y = 1 .. Len(Y) /\ Len(X) \in Nat /\ Len(Y) \in Nat
  BY <1>5, ListFacts
<1>7. IsOrder(sy, PairOrder)
  <2>1. sy \in SUBSET (Nat \X Nat)
    BY DEF Spots
  <2> QED
    BY <2>1, PairsAreOrdered
<1> DEFINE T(x) == <<h[at[x][1]], inner[at[x][1]][at[x][2]]>>
<1>8. ASSUME NEW x \in GX
      PROVE  /\ at[x][1] \in A /\ at[x][2] \in Meeting(LX[at[x][1]], fs) /\ at[x] \in Nat \X Nat
             /\ T(x) \in sy /\ T(x)[2] \in Meeting(LY[T(x)[1]], fs)
             /\ Alike(F, X[x], LY[T(x)[1]][T(x)[2]])
  <2> DEFINE i == at[x][1]
             u == at[x][2]
  <2>1. x \in 1 .. Len(X) /\ Meets(fs, X[x])
    BY <1>6 DEF Meeting
  <2>2. at[x] \in sx /\ X[x] = LX[i][u]
    BY <1>5, <2>1 DEF Listing
  <2>3. i \in DOMAIN LX /\ u \in DOMAIN LX[i] /\ at[x] \in Nat \X Nat
    BY <1>4, <2>2 DEF Spots
  <2> HIDE DEF i, u
  <2>4. u \in Meeting(LX[i], fs)
    BY <2>1, <2>2, <2>3 DEF Meeting
  <2>5. i \in A
    BY <2>3, <2>4
  <2>6. h[i] \in B /\ h[i] \in DOMAIN LY /\ h[i] \in Nat
    BY <1>4, <2>5 DEF Climbs
  <2>7. Match(F, LX[i], LY[h[i]], fs, inner[i])
    BY <1>3, <2>5
  <2>8. inner[i][u] \in Meeting(LY[h[i]], fs) /\ Alike(F, LX[i][u], LY[h[i]][inner[i][u]])
    BY <2>4, <2>7 DEF Match, Climbs
  <2>9. inner[i][u] \in DOMAIN LY[h[i]] /\ IsList(LY[h[i]])
    BY <2>6, <2>8 DEF Meeting
  <2>10. inner[i][u] \in Nat
    <3>1. DOMAIN LY[h[i]] = 1 .. Len(LY[h[i]])
      BY <2>9, ListFacts
    <3> QED
      BY <2>9, <3>1
  <2>11. <<h[i], inner[i][u]>> \in sy
    BY <1>4, <2>6, <2>9, <2>10 DEF Spots
  <2> QED
    BY <2>2, <2>3, <2>4, <2>5, <2>8, <2>11 DEF i, u
<1>9. \A x \in GX : \E y \in 1 .. Len(Y) : bt[y] = T(x)
  BY <1>5, <1>8 DEF Listing
<1> DEFINE g == [x \in GX |-> CHOOSE y \in 1 .. Len(Y) : bt[y] = T(x)]
<1>10. \A x \in GX : g[x] \in 1 .. Len(Y) /\ bt[g[x]] = T(x)
  BY <1>9
<1>11. DOMAIN g = GX /\ g = [x \in GX |-> g[x]]
  OBVIOUS
<1> HIDE DEF g, T
<1>12. \A x \in GX : g[x] \in GY /\ Alike(F, X[x], Y[g[x]])
  <2> SUFFICES ASSUME NEW x \in GX PROVE g[x] \in GY /\ Alike(F, X[x], Y[g[x]])
    OBVIOUS
  <2>1. g[x] \in 1 .. Len(Y) /\ bt[g[x]] = T(x)
    BY <1>10
  <2>2. Y[g[x]] = LY[T(x)[1]][T(x)[2]]
    BY <1>5, <2>1
  <2>3. Meets(fs, Y[g[x]])
    BY <1>8, <2>2 DEF Meeting
  <2> QED
    BY <1>6, <1>8, <2>1, <2>2, <2>3 DEF Meeting
<1>13. \A y, z \in 1 .. Len(Y) : (bt[y] = bt[z] => y = z) /\ (<<bt[y], bt[z]>> \in PairOrder => y < z)
  BY <1>5, <1>7, ListingIsInjective
<1>14. ASSUME NEW y \in GY PROVE \E x \in GX : g[x] = y
  <2> DEFINE j == bt[y][1]
             v == bt[y][2]
  <2>1. y \in 1 .. Len(Y) /\ Meets(fs, Y[y])
    BY <1>6 DEF Meeting
  <2>2. bt[y] \in sy /\ Y[y] = LY[j][v]
    BY <1>5, <2>1 DEF Listing
  <2>3. j \in DOMAIN LY /\ v \in DOMAIN LY[j] /\ bt[y] = <<j, v>>
    BY <1>4, <2>2 DEF Spots
  <2> HIDE DEF j, v
  <2>4. v \in Meeting(LY[j], fs)
    BY <2>1, <2>2, <2>3 DEF Meeting
  <2>5. j \in B
    BY <2>3, <2>4
  <2>6. PICK i \in A : h[i] = j
    BY <2>5 DEF Climbs
  <2>7. Match(F, LX[i], LY[j], fs, inner[i])
    BY <1>3, <2>6
  <2>8. PICK u \in Meeting(LX[i], fs) : inner[i][u] = v
    BY <2>4, <2>7 DEF Match, Climbs
  <2>9. u \in DOMAIN LX[i] /\ IsList(LX[i]) /\ Meets(fs, LX[i][u])
    BY <2>6 DEF Meeting
  <2>10. u \in Nat
    <3>1. DOMAIN LX[i] = 1 .. Len(LX[i])
      BY <2>9, ListFacts
    <3> QED
      BY <2>9, <3>1
  <2>11. <<i, u>> \in sx
    BY <1>4, <2>6, <2>9, <2>10 DEF Spots
  <2>12. PICK x \in 1 .. Len(X) : at[x] = <<i, u>>
    BY <1>5, <2>11 DEF Listing
  <2>13. X[x] = LX[i][u]
    BY <1>5, <2>12
  <2>14. x \in GX
    BY <1>6, <2>9, <2>13 DEF Meeting
  <2>15. T(x) = bt[y]
    BY <2>3, <2>6, <2>8, <2>12 DEF T
  <2>16. g[x] = y
    BY <1>10, <1>13, <2>1, <2>14, <2>15
  <2> QED
    BY <2>14, <2>16
<1>15. ASSUME NEW x \in GX, NEW z \in GX, x < z PROVE g[x] < g[z]
  <2>1. x \in 1 .. Len(X) /\ z \in 1 .. Len(X)
    BY <1>6 DEF Meeting
  <2>2. <<at[x], at[z]>> \in PairOrder
    BY <1>5, <1>15, <2>1 DEF Listing
  <2>3. at[x] \in Nat \X Nat /\ at[z] \in Nat \X Nat
    BY <1>8
  <2>4. at[x][1] < at[z][1] \/ (at[x][1] = at[z][1] /\ at[x][2] < at[z][2])
    BY <2>2, <2>3, OrdersSay
  <2>5. /\ at[x][1] \in A /\ at[x][2] \in Meeting(LX[at[x][1]], fs)
        /\ at[z][1] \in A /\ at[z][2] \in Meeting(LX[at[z][1]], fs)
        /\ T(x) \in sy /\ T(z) \in sy
    BY <1>8
  <2>6. T(x) \in Nat \X Nat /\ T(z) \in Nat \X Nat
    BY <2>5 DEF Spots
  <2>7. T(x)[1] < T(z)[1] \/ (T(x)[1] = T(z)[1] /\ T(x)[2] < T(z)[2])
    <3>1. CASE at[x][1] < at[z][1]
      <4>1. h[at[x][1]] < h[at[z][1]]
        BY <2>5, <3>1 DEF Climbs
      <4> QED
        BY <4>1 DEF T
    <3>2. CASE at[x][1] = at[z][1] /\ at[x][2] < at[z][2]
      <4>1. Match(F, LX[at[x][1]], LY[h[at[x][1]]], fs, inner[at[x][1]])
        BY <1>3, <2>5
      <4>2. inner[at[x][1]][at[x][2]] < inner[at[x][1]][at[z][2]]
        BY <2>5, <3>2, <4>1 DEF Match, Climbs
      <4> QED
        BY <3>2, <4>2 DEF T
    <3> QED
      BY <2>4, <3>1, <3>2
  <2>8. <<T(x), T(z)>> \in PairOrder
    BY <2>6, <2>7, OrdersSay
  <2> QED
    BY <1>10, <1>13, <2>8
<1>16. Climbs(g, GX, GY)
  BY <1>11, <1>12, <1>14, <1>15 DEF Climbs
<1>17. Match(F, X, Y, fs, g)
  BY <1>12, <1>16 DEF Match
<1> QED
  BY <1>17 DEF Matched, X, Y

\* Lists that agree row by row match.
LEMMA PointwiseMatched ==
    ASSUME NEW F, NEW fs, \A f \in fs : f.field \in F, NEW X, NEW Y, IsList(X), IsList(Y), Len(X) = Len(Y),
           \A i \in 1 .. Len(X) : Alike(F, X[i], Y[i])
    PROVE  Matched(F, X, Y, fs) /\ Meeting(X, fs) = Meeting(Y, fs)
<1>1. DOMAIN X = 1 .. Len(X) /\ DOMAIN Y = 1 .. Len(X)
  BY ListFacts
<1>2. \A i \in 1 .. Len(X) : Meets(fs, X[i]) <=> Meets(fs, Y[i])
  BY AlikeReads DEF Meets
<1>3. Meeting(X, fs) = Meeting(Y, fs)
  BY <1>1, <1>2 DEF Meeting
<1> DEFINE h == [i \in Meeting(X, fs) |-> i]
<1>4. Climbs(h, Meeting(X, fs), Meeting(Y, fs))
  BY <1>3 DEF Climbs
<1>5. \A i \in Meeting(X, fs) : Alike(F, X[i], Y[h[i]])
  BY <1>1 DEF Meeting
<1> HIDE DEF h
<1>6. Match(F, X, Y, fs, h)
  BY <1>4, <1>5 DEF Match
<1> QED
  BY <1>3, <1>6 DEF Matched

\* The filters that every row of the result after k joins can be tested for.
FiltersAt(qry, k) == {f \in PostJoinFilters(qry) : f.field[1] \in Available(qry, k)}

\* One more join adds the filters of an inner joined alias.
LEMMA FiltersGrow ==
    ASSUME NEW qry \in Queries, NEW k, NEW join, IsJoin(qry, k, join)
    PROVE  /\ FiltersAt(qry, k - 1) \subseteq FiltersAt(qry, k)
           /\ \A f \in FiltersAt(qry, k) : f \in qry.filters /\ (f \in FiltersAt(qry, k - 1) \/ f.field[1] = join.alias)
           /\ join.kind = "left" => \A f \in FiltersAt(qry, k) : f.field[1] # join.alias
           /\ join.kind = "left" => FiltersAt(qry, k) = FiltersAt(qry, k - 1)
           /\ join.kind = "inner" => \A f \in qry.filters : f.field[1] = join.alias => f \in FiltersAt(qry, k)
           /\ join.alias \in LeftAliases(qry) <=> join.kind = "left"
<1>1. /\ Len(qry.joins) \in Nat /\ DOMAIN qry.joins = 1 .. Len(qry.joins)
      /\ Available(qry, k) = Available(qry, k - 1) \cup {join.alias}
      /\ join.kind \in {"inner", "left"}
  BY JoinFacts
<1>2. k \in DOMAIN qry.joins /\ join = qry.joins[k]
  BY <1>1 DEF IsJoin
<1>3. ASSUME NEW j \in DOMAIN qry.joins, qry.joins[j].alias = join.alias PROVE j = k
  <2>1. IsQuery(qry)
    BY QueriesAreQueries
  <2>2. \A n \in DOMAIN qry.joins : \A i \in 1 .. n - 1 : qry.joins[i].alias # qry.joins[n].alias
    BY <2>1 DEF IsQuery
  <2>3. j \in Nat /\ k \in Nat /\ (j < k => j \in 1 .. k - 1) /\ (k < j => k \in 1 .. j - 1)
    BY <1>1, <1>2
  <2> QED
    BY <1>2, <1>3, <2>2, <2>3
<1>4. join.alias \in LeftAliases(qry) <=> join.kind = "left"
  BY <1>2, <1>3 DEF LeftAliases
<1>5. FiltersAt(qry, k - 1) \subseteq FiltersAt(qry, k)
  BY <1>1 DEF FiltersAt
<1>6. \A f \in FiltersAt(qry, k) : f \in qry.filters /\ (f \in FiltersAt(qry, k - 1) \/ f.field[1] = join.alias)
  BY <1>1 DEF FiltersAt, PostJoinFilters
<1>7. join.kind = "left" => \A f \in FiltersAt(qry, k) : f.field[1] # join.alias
  BY <1>4 DEF FiltersAt, PostJoinFilters
<1>8. join.kind = "inner" => \A f \in qry.filters : f.field[1] = join.alias => f \in FiltersAt(qry, k)
  <2> SUFFICES ASSUME join.kind = "inner", NEW f \in qry.filters, f.field[1] = join.alias PROVE f \in FiltersAt(qry, k)
    OBVIOUS
  <2>1. f \in PostJoinFilters(qry)
    BY <1>4 DEF PostJoinFilters
  <2>2. f.field[1] \in Available(qry, k)
    BY <1>1
  <2> QED
    BY <2>1, <2>2 DEF FiltersAt
<1> QED
  BY <1>4, <1>5, <1>6, <1>7, <1>8

\* A row without an alias' fields fails the filters of the alias; what a row becomes
\* meets the filters of before as the row does.
LEMMA MeetsBefore ==
    ASSUME NEW qry \in Queries, NEW k, NEW join, IsJoin(qry, k, join), NEW row, NEW new, RowOk(qry, k - 1, row),
           \A f \in DOMAIN row : f \in DOMAIN new /\ new[f] = row[f],
           \A f \in DOMAIN new \ DOMAIN row : f[1] = join.alias
    PROVE  Meets(FiltersAt(qry, k - 1), new) <=> Meets(FiltersAt(qry, k - 1), row)
<1>1. join.alias \notin Available(qry, k - 1)
  BY JoinFacts
<1>2. \A f \in FiltersAt(qry, k - 1) : f.field[1] \in Available(qry, k - 1)
  BY DEF FiltersAt
<1>3. ASSUME NEW f \in FiltersAt(qry, k - 1) PROVE Evaluate(new, f) <=> Evaluate(row, f)
  <2>1. f.field \in DOMAIN new <=> f.field \in DOMAIN row
    BY <1>1, <1>2
  <2>2. f.field \in DOMAIN row => new[f.field] = row[f.field]
    OBVIOUS
  <2> QED
    BY <2>1, <2>2 DEF Evaluate
<1> QED
  BY <1>3 DEF Meets

\* What a join makes of a row that fails a filter fails it too.
LEMMA DoomedStays ==
    ASSUME NEW qry \in Queries, NEW k, NEW join, IsJoin(qry, k, join),
           NEW row, RowOk(qry, k - 1, row), NEW list, AreMatches(qry, join, list),
           ~Meets(FiltersAt(qry, k - 1), row)
    PROVE  Meeting(Joined(row, list, join), FiltersAt(qry, k)) = {}
<1> DEFINE new == Joined(row, list, join)
<1>1. IsList(new)
  BY JoinedIs
<1>2. DOMAIN new = 1 .. Len(new)
  BY <1>1, ListFacts
<1>3. ASSUME NEW i \in 1 .. Len(new) PROVE ~Meets(FiltersAt(qry, k), new[i])
  <2>1. /\ \A f \in DOMAIN row : f \in DOMAIN new[i] /\ new[i][f] = row[f]
        /\ \A f \in DOMAIN new[i] \ DOMAIN row : f[1] = join.alias
    BY JoinedIs
  <2> HIDE DEF new
  <2>2. ~Meets(FiltersAt(qry, k - 1), new[i])
    BY <2>1, MeetsBefore
  <2>3. FiltersAt(qry, k - 1) \subseteq FiltersAt(qry, k)
    BY FiltersGrow
  <2> QED
    BY <2>2, <2>3 DEF Meets
<1> HIDE DEF new
<1> QED
  BY <1>2, <1>3 DEF Meeting, new

\* Lists that agree row by row.
AlikeLists(F, X, Y) == IsList(X) /\ IsList(Y) /\ Len(X) = Len(Y) /\ \A i \in 1 .. Len(X) : Alike(F, X[i], Y[i])

\* Matches that agree are counted and summed up alike.
LEMMA SameSynthetic ==
    ASSUME NEW qry \in Queries, NEW k, NEW join, IsJoin(qry, k, join),
           NEW X, NEW Y, AreMatches(qry, join, X), AreMatches(qry, join, Y), AlikeLists(Mentioned(qry), X, Y)
    PROVE  Synthetic(join, X) = Synthetic(join, Y)
<1>1. DOMAIN X = 1 .. Len(X) /\ DOMAIN Y = 1 .. Len(X) /\ Len(X) = Len(Y)
  BY ListFacts DEF AlikeLists
<1>2. ASSUME join.sum # Absent PROVE SumOf(X, join.sum) = SumOf(Y, join.sum)
  <2>1. k \in DOMAIN qry.joins /\ join = qry.joins[k]
    <3>1. DOMAIN qry.joins = 1 .. Len(qry.joins)
      BY JoinFacts
    <3> QED
      BY <3>1 DEF IsJoin
  <2>2. join.sum \in Mentioned(qry)
    BY <1>2, <2>1, MentionedFacts
  <2>3. ASSUME NEW m \in 1 .. Len(X) PROVE X[m][join.sum][1] = Y[m][join.sum][1]
    <3>1. join.sum \in DOMAIN X[m]
      BY <1>2 DEF AreMatches, IsMatch
    <3> QED
      BY <2>2, <3>1 DEF AlikeLists, Alike
  <2>4. [m \in DOMAIN X |-> X[m][join.sum][1]] = [m \in DOMAIN Y |-> Y[m][join.sum][1]]
    BY <1>1, <2>3
  <2> QED
    BY <2>4 DEF SumOf
<1> DEFINE names == (IF join.count THEN {"count"} ELSE {}) \cup (IF join.sum # Absent THEN {"sum"} ELSE {})
<1>3. ASSUME NEW f \in {join.alias} \X names
      PROVE  <<IF f[2] = "count" THEN Len(X) ELSE SumOf(X, join.sum), "int">>
             = <<IF f[2] = "count" THEN Len(Y) ELSE SumOf(Y, join.sum), "int">>
  <2>1. f[2] = "count" \/ join.sum # Absent
    OBVIOUS
  <2> QED
    BY <1>1, <1>2, <2>1
<1> HIDE DEF names
<1>4. [f \in {join.alias} \X names |-> <<IF f[2] = "count" THEN Len(X) ELSE SumOf(X, join.sum), "int">>]
      = [f \in {join.alias} \X names |-> <<IF f[2] = "count" THEN Len(Y) ELSE SumOf(Y, join.sum), "int">>]
  BY <1>3
<1> QED
  BY <1>4 DEF Synthetic, names

\* A list of one row.
LEMMA OneRow ==
    ASSUME NEW r
    PROVE  IsList(<<r>>) /\ Len(<<r>>) = 1 /\ <<r>>[1] = r /\ DOMAIN <<r>> = 1 .. 1
<1>1. DOMAIN <<r>> = 1 .. 1 /\ <<r>> = [i \in 1 .. 1 |-> <<r>>[i]] /\ <<r>>[1] = r
  OBVIOUS
<1> QED
  BY <1>1, LenIs

\* Rows that agree, with matches that agree, become rows that agree.
LEMMA JoinedAlike ==
    ASSUME NEW qry \in Queries, NEW k, NEW join, IsJoin(qry, k, join),
           NEW row, NEW ref, RowOk(qry, k - 1, row), RowOk(qry, k - 1, ref), Alike(Mentioned(qry), row, ref),
           NEW X, NEW Y, AreMatches(qry, join, X), AreMatches(qry, join, Y), AlikeLists(Mentioned(qry), X, Y)
    PROVE  AlikeLists(Mentioned(qry), Joined(row, X, join), Joined(ref, Y, join))
<1> DEFINE F == Mentioned(qry)
           new == Joined(row, X, join)
           nef == Joined(ref, Y, join)
           n == Len(X)
<1>1. n \in Nat /\ n = Len(Y) /\ DOMAIN X = 1 .. n /\ DOMAIN Y = 1 .. n /\ (X = <<>> <=> n = 0) /\ (Y = <<>> <=> n = 0)
  BY ListFacts DEF AlikeLists
<1>2. IsList(new) /\ IsList(nef)
  BY JoinedIs
<1>3. CASE X = <<>> /\ join.kind = "inner"
  <2>1. new = <<>> /\ nef = <<>>
    BY <1>1, <1>3 DEF Joined
  <2>2. Len(<<>>) = 0
    OBVIOUS
  <2> HIDE DEF new, nef
  <2>3. Len(new) = Len(nef) /\ \A i \in 1 .. Len(new) : Alike(F, new[i], nef[i])
    BY <2>1, <2>2
  <2> QED
    BY <1>2, <2>3 DEF AlikeLists, new, nef
<1>4. CASE ~(X = <<>> /\ join.kind = "inner") /\ IsAggregate(join)
  <2> DEFINE c == Synthetic(join, X)
             d == Synthetic(join, Y)
  <2>1. new = <<MergeRow(row, c)>> /\ nef = <<MergeRow(ref, d)>>
    BY <1>1, <1>4 DEF Joined
  <2>2. c = d
    BY SameSynthetic
  <2>3. Alike(F, c, d)
    BY <2>2 DEF Alike
  <2> HIDE DEF new, nef, c, d
  <2>4. Alike(F, MergeRow(row, c), MergeRow(ref, d))
    BY <2>3, AlikeMerge
  <2>5. Len(new) = 1 /\ Len(nef) = 1 /\ new[1] = MergeRow(row, c) /\ nef[1] = MergeRow(ref, d)
    BY <2>1, OneRow
  <2>6. Len(new) = Len(nef) /\ \A i \in 1 .. Len(new) : Alike(F, new[i], nef[i])
    BY <2>4, <2>5
  <2> QED
    BY <1>2, <2>6 DEF AlikeLists, new, nef
<1>5. CASE ~(X = <<>> /\ join.kind = "inner") /\ ~IsAggregate(join) /\ X = <<>>
  <2>1. new = <<row>> /\ nef = <<ref>>
    BY <1>1, <1>5 DEF Joined
  <2> HIDE DEF new, nef
  <2>2. Len(new) = 1 /\ Len(nef) = 1 /\ new[1] = row /\ nef[1] = ref
    BY <2>1, OneRow
  <2>3. Len(new) = Len(nef) /\ \A i \in 1 .. Len(new) : Alike(F, new[i], nef[i])
    BY <2>2
  <2> QED
    BY <1>2, <2>3 DEF AlikeLists, new, nef
<1>6. CASE ~(X = <<>> /\ join.kind = "inner") /\ ~IsAggregate(join) /\ X # <<>>
  <2>1. new = [m \in 1 .. n |-> MergeRow(row, X[m])] /\ nef = [m \in 1 .. n |-> MergeRow(ref, Y[m])]
    BY <1>1, <1>6 DEF Joined
  <2> HIDE DEF new, nef, n
  <2>2. /\ DOMAIN new = 1 .. n /\ new = [m \in 1 .. n |-> new[m]] /\ \A m \in 1 .. n : new[m] = MergeRow(row, X[m])
        /\ DOMAIN nef = 1 .. n /\ nef = [m \in 1 .. n |-> nef[m]] /\ \A m \in 1 .. n : nef[m] = MergeRow(ref, Y[m])
    BY <2>1
  <2>3. Len(new) = n /\ Len(nef) = n
    BY <1>1, <2>2, LenIs
  <2>4. \A m \in 1 .. n : Alike(F, MergeRow(row, X[m]), MergeRow(ref, Y[m]))
    <3> SUFFICES ASSUME NEW m \in 1 .. n PROVE Alike(F, MergeRow(row, X[m]), MergeRow(ref, Y[m]))
      OBVIOUS
    <3>1. Alike(F, X[m], Y[m])
      BY DEF AlikeLists, n
    <3> QED
      BY <3>1, AlikeMerge
  <2>5. Len(new) = Len(nef) /\ \A i \in 1 .. Len(new) : Alike(F, new[i], nef[i])
    BY <2>2, <2>3, <2>4
  <2> QED
    BY <1>2, <2>5 DEF AlikeLists, new, nef
<1> QED
  BY <1>3, <1>4, <1>5, <1>6

\* The matches X of a row and the matches Y it should have: in order, Y is what X has
\* at the places G; what else X has fails a filter that the search was given.
Finds(qry, join, X, Y, G, g) ==
    /\ AreMatches(qry, join, X) /\ AreMatches(qry, join, Y)
    /\ G \in SUBSET DOMAIN X /\ Climbs(g, G, DOMAIN Y)
    /\ \A i \in G : Alike(Mentioned(qry), X[i], Y[g[i]])
    /\ \A i \in DOMAIN X \ G : \E f \in Pushdown(qry, join.alias) : ~Evaluate(X[i], f)

\* The filters are on fields that the query mentions.
LEMMA FiltersAreMentioned ==
    ASSUME NEW qry \in Queries, NEW k
    PROVE  /\ \A f \in FiltersAt(qry, k) : f \in qry.filters /\ f.field \in Mentioned(qry)
           /\ \A f \in PostJoinFilters(qry) : f \in qry.filters /\ f.field \in Mentioned(qry)
           /\ \A alias : \A f \in Pushdown(qry, alias) : f \in qry.filters /\ f.field[1] = alias
<1>1. \A f \in qry.filters : f.field \in Mentioned(qry)
  BY MentionedFacts
<1> QED
  BY <1>1 DEF FiltersAt, PostJoinFilters, Pushdown

\* All matches are found and no more: the rows agree.
LEMMA AllFound ==
    ASSUME NEW qry, NEW join, NEW X, NEW Y, NEW G, NEW g, Finds(qry, join, X, Y, G, g), G = DOMAIN X
    PROVE  AlikeLists(Mentioned(qry), X, Y)
<1>1. IsList(X) /\ IsList(Y)
  BY DEF Finds, AreMatches
<1>2. Len(X) \in Nat /\ Len(Y) \in Nat /\ DOMAIN X = 1 .. Len(X) /\ DOMAIN Y = 1 .. Len(Y)
  BY <1>1, ListFacts
<1>3. Climbs(g, 1 .. Len(X), 1 .. Len(Y))
  BY <1>2 DEF Finds
<1>4. Len(X) = Len(Y) /\ \A i \in 1 .. Len(X) : g[i] = i
  BY <1>2, <1>3, ClimbIsIdentity
<1>5. \A i \in 1 .. Len(X) : Alike(Mentioned(qry), X[i], Y[i])
  BY <1>2, <1>4 DEF Finds
<1> QED
  BY <1>1, <1>4, <1>5 DEF AlikeLists

\* What an inner join without aggregation makes of a row.
LEMMA InnerJoined ==
    ASSUME NEW row, NEW join, NEW X, IsList(X), join.kind = "inner", ~IsAggregate(join)
    PROVE  DOMAIN Joined(row, X, join) = DOMAIN X
           /\ \A m \in DOMAIN X : Joined(row, X, join)[m] = MergeRow(row, X[m])
<1>1. CASE X = <<>>
  BY <1>1 DEF Joined
<1>2. CASE X # <<>>
  <2>1. Joined(row, X, join) = [m \in DOMAIN X |-> MergeRow(row, X[m])]
    BY <1>2 DEF Joined
  <2> QED
    BY <2>1
<1> QED
  BY <1>1, <1>2

\* What comes of a row and a match meets the filters if the match meets its own.
LEMMA MeetsMerged ==
    ASSUME NEW qry \in Queries, NEW k, NEW join, IsJoin(qry, k, join), join.kind = "inner",
           NEW row, RowOk(qry, k - 1, row), Meets(FiltersAt(qry, k - 1), row), NEW m, IsMatch(qry, join, m)
    PROVE  Meets(FiltersAt(qry, k), MergeRow(row, m)) <=> \A f \in qry.filters : f.field[1] = join.alias => Evaluate(m, f)
<1> DEFINE new == MergeRow(row, m)
<1>1. /\ DOMAIN new = DOMAIN row \cup DOMAIN m
      /\ \A f \in DOMAIN m : new[f] = m[f]
      /\ \A f \in DOMAIN row : f \notin DOMAIN m => new[f] = row[f]
  BY MergeIs
<1> HIDE DEF new
<1>2. join.alias \notin Available(qry, k - 1)
  BY JoinFacts
<1>3. \A f \in DOMAIN row : f[1] # join.alias
  BY <1>2 DEF RowOk
<1>4. \A f \in DOMAIN m : f[1] = join.alias
  BY DEF IsMatch
<1>5. /\ \A f \in DOMAIN row : f \in DOMAIN new /\ new[f] = row[f]
      /\ \A f \in DOMAIN new \ DOMAIN row : f[1] = join.alias
  BY <1>1, <1>3, <1>4
<1>6. Meets(FiltersAt(qry, k - 1), new)
  BY <1>5, MeetsBefore
<1>7. ASSUME NEW f \in qry.filters, f.field[1] = join.alias PROVE Evaluate(new, f) <=> Evaluate(m, f)
  <2>1. f.field \notin DOMAIN row
    BY <1>3, <1>7
  <2>2. f.field \in DOMAIN new <=> f.field \in DOMAIN m
    BY <1>1, <2>1
  <2>3. f.field \in DOMAIN m => new[f.field] = m[f.field]
    BY <1>1
  <2> QED
    BY <2>2, <2>3 DEF Evaluate
<1>8. /\ \A f \in FiltersAt(qry, k) : f \in qry.filters /\ (f \in FiltersAt(qry, k - 1) \/ f.field[1] = join.alias)
      /\ \A f \in qry.filters : f.field[1] = join.alias => f \in FiltersAt(qry, k)
  BY FiltersGrow
<1>9. Meets(FiltersAt(qry, k), new) <=> \A f \in qry.filters : f.field[1] = join.alias => Evaluate(m, f)
  BY <1>6, <1>7, <1>8 DEF Meets
<1> QED
  BY <1>9 DEF new

\* An aggregating join keeps no column to filter by.
LEMMA AggregateIsDoomed ==
    ASSUME NEW qry \in Queries, NEW k, NEW join, IsJoin(qry, k, join), join.kind = "inner", IsAggregate(join),
           NEW row, RowOk(qry, k - 1, row), NEW X, AreMatches(qry, join, X),
           NEW f \in qry.filters, f.field[1] = join.alias, f.field[2] \notin {"count", "sum"}
    PROVE  Meeting(Joined(row, X, join), FiltersAt(qry, k)) = {}
<1> DEFINE new == Joined(row, X, join)
           merged == MergeRow(row, Synthetic(join, X))
<1>1. f \in FiltersAt(qry, k)
  BY FiltersGrow
<1>2. f.field \notin DOMAIN merged
  <2>1. DOMAIN merged = DOMAIN row \cup DOMAIN Synthetic(join, X)
    BY MergeIs
  <2>2. \A c \in DOMAIN Synthetic(join, X) : c[2] \in {"count", "sum"}
    BY SyntheticIs
  <2>3. join.alias \notin Available(qry, k - 1)
    BY JoinFacts
  <2>4. f.field \notin DOMAIN row
    BY <2>3 DEF RowOk
  <2> QED
    BY <2>1, <2>2, <2>4
<1>3. ~Meets(FiltersAt(qry, k), merged)
  BY <1>1, <1>2 DEF Meets, Evaluate
<1>4. CASE X = <<>>
  <2>1. new = <<>>
    BY <1>4 DEF Joined
  <2> QED
    BY <2>1 DEF Meeting
<1>5. CASE X # <<>>
  <2>1. new = <<merged>>
    BY <1>5 DEF Joined
  <2> HIDE DEF new, merged
  <2>2. DOMAIN new = 1 .. 1 /\ new[1] = merged
    BY <2>1, OneRow
  <2>3. \A i \in DOMAIN new : new[i] = merged
    BY <2>2
  <2>4. Meeting(new, FiltersAt(qry, k)) = {}
    BY <1>3, <2>3 DEF Meeting
  <2> QED
    BY <2>4 DEF new
<1> QED
  BY <1>4, <1>5

\* Lists without a row that meets the filters match.
LEMMA NothingMatches ==
    ASSUME NEW F, NEW fs, NEW X, NEW Y, Meeting(X, fs) = {}, Meeting(Y, fs) = {}
    PROVE  Matched(F, X, Y, fs)
<1> DEFINE h == [i \in {} |-> i]
<1>1. Climbs(h, Meeting(X, fs), Meeting(Y, fs))
  BY DEF Climbs
<1>2. Match(F, X, Y, fs, h)
  BY <1>1 DEF Match
<1> QED
  BY <1>2 DEF Matched

\* One row and its matches: what becomes of it matches what should.
LEMMA JoinedMatched ==
    ASSUME NEW qry \in Queries, NEW k, NEW join, IsJoin(qry, k, join),
           NEW row, NEW ref, RowOk(qry, k - 1, row), RowOk(qry, k - 1, ref), Alike(Mentioned(qry), row, ref),
           Meets(FiltersAt(qry, k - 1), row),
           NEW X, NEW Y, NEW G, NEW g, Finds(qry, join, X, Y, G, g), join.kind = "left" => G = DOMAIN X
    PROVE  Matched(Mentioned(qry), Joined(row, X, join), Joined(ref, Y, join), FiltersAt(qry, k))
<1> DEFINE F == Mentioned(qry)
           fs == FiltersAt(qry, k)
           new == Joined(row, X, join)
           nef == Joined(ref, Y, join)
<1>1. AreMatches(qry, join, X) /\ AreMatches(qry, join, Y)
  BY DEF Finds
<1>2. IsList(X) /\ IsList(Y) /\ IsList(new) /\ IsList(nef)
  BY <1>1, JoinedIs DEF AreMatches
<1>3. \A f \in fs : f.field \in F
  BY FiltersAreMentioned
<1>4. Len(X) \in Nat /\ Len(Y) \in Nat /\ DOMAIN X = 1 .. Len(X) /\ DOMAIN Y = 1 .. Len(Y)
  BY <1>2, ListFacts
<1>5. join.kind \in {"inner", "left"}
  BY JoinFacts
<1>6. CASE G = DOMAIN X
  <2>1. AlikeLists(F, X, Y)
    BY <1>6, AllFound
  <2>2. AlikeLists(F, new, nef)
    BY <1>1, <2>1, JoinedAlike
  <2> HIDE DEF F, fs, new, nef
  <2>3. Matched(F, new, nef, fs)
    BY <1>2, <1>3, <2>2, PointwiseMatched DEF AlikeLists
  <2> QED
    BY <2>3 DEF F, fs, new, nef
<1>7. CASE G # DOMAIN X
  <2>1. join.kind = "inner"
    BY <1>5, <1>7
  <2>2. PICK i \in DOMAIN X : i \notin G
    BY <1>7 DEF Finds
  <2>3. PICK p \in Pushdown(qry, join.alias) : ~Evaluate(X[i], p)
    BY <2>2 DEF Finds
  <2>4. p \in qry.filters /\ p.field[1] = join.alias
    BY FiltersAreMentioned
  <2>5. CASE IsAggregate(join)
    <3>1. IsMatch(qry, join, X[i])
      BY <1>1, <1>4 DEF AreMatches
    <3>2. p.field[2] \notin {"count", "sum"}
      BY <2>4, <3>1 DEF IsMatch
    <3>3. Meeting(new, fs) = {}
      BY <1>1, <2>1, <2>4, <2>5, <3>2, AggregateIsDoomed
    <3>4. Meeting(nef, fs) = {}
      BY <1>1, <2>1, <2>4, <2>5, <3>2, AggregateIsDoomed
    <3> QED
      BY <3>3, <3>4, NothingMatches
  <2>6. CASE ~IsAggregate(join)
    <3>1. DOMAIN new = DOMAIN X /\ \A m \in DOMAIN X : new[m] = MergeRow(row, X[m])
      BY <1>2, <2>1, <2>6, InnerJoined
    <3>2. DOMAIN nef = DOMAIN Y /\ \A m \in DOMAIN Y : nef[m] = MergeRow(ref, Y[m])
      BY <1>2, <2>1, <2>6, InnerJoined
    <3>3. ASSUME NEW m \in Meeting(new, fs) PROVE m \in G
      <4>1. m \in DOMAIN X /\ Meets(fs, MergeRow(row, X[m]))
        BY <3>1 DEF Meeting
      <4>2. IsMatch(qry, join, X[m])
        BY <1>1, <1>4, <4>1 DEF AreMatches
      <4>3. \A f \in qry.filters : f.field[1] = join.alias => Evaluate(X[m], f)
        BY <2>1, <4>1, <4>2, MeetsMerged
      <4>4. \A f \in Pushdown(qry, join.alias) : f \in qry.filters /\ f.field[1] = join.alias
        BY FiltersAreMentioned
      <4> QED
        BY <4>1, <4>3, <4>4 DEF Finds
    <3>4. \A m \in G : m \in DOMAIN X /\ g[m] \in DOMAIN Y /\ Alike(F, X[m], Y[g[m]])
      BY DEF Finds, Climbs
    <3>5. ASSUME NEW m \in G PROVE Alike(F, new[m], nef[g[m]])
      BY <3>1, <3>2, <3>4, AlikeMerge
    <3> HIDE DEF new, nef, fs, F
    <3>6. \A m \in G : m \in Meeting(new, fs) <=> g[m] \in Meeting(nef, fs)
      <4> SUFFICES ASSUME NEW m \in G PROVE m \in Meeting(new, fs) <=> g[m] \in Meeting(nef, fs)
        OBVIOUS
      <4>1. Alike(F, new[m], nef[g[m]])
        BY <3>5
      <4>2. \A f \in fs : Evaluate(new[m], f) <=> Evaluate(nef[g[m]], f)
        BY <1>3, <4>1, AlikeReads
      <4>3. m \in DOMAIN new /\ g[m] \in DOMAIN nef
        BY <3>1, <3>2, <3>4
      <4> QED
        BY <4>2, <4>3 DEF Meeting, Meets
    <3>7. Climbs(g, G, DOMAIN Y) /\ G \in SUBSET Nat /\ DOMAIN Y \in SUBSET Nat
      BY <1>4 DEF Finds
    <3>8. Meeting(new, fs) \in SUBSET G /\ Meeting(nef, fs) \in SUBSET DOMAIN Y
      BY <3>2, <3>3 DEF Meeting
    <3> DEFINE h == [m \in Meeting(new, fs) |-> g[m]]
    <3>9. Climbs(h, Meeting(new, fs), Meeting(nef, fs)) /\ \A m \in Meeting(new, fs) : h[m] = g[m]
      <4>1. Parts(g, G, DOMAIN Y, Meeting(new, fs), Meeting(nef, fs))
        BY <3>6, <3>8 DEF Parts
      <4>2. Climbs(h, Meeting(new, fs), Meeting(nef, fs))
        BY <3>7, <4>1, ClimbPart
      <4> QED
        BY <4>2
    <3> HIDE DEF h
    <3>10. \A m \in Meeting(new, fs) : Alike(F, new[m], nef[h[m]])
      BY <3>5, <3>8, <3>9
    <3>11. Match(F, new, nef, fs, h)
      BY <3>9, <3>10 DEF Match
    <3> QED
      BY <3>11 DEF Matched, new, nef, fs, F
  <2> QED
    BY <2>5, <2>6
<1> QED
  BY <1>6, <1>7

-----------------------------------------------------------------------------
(* Fetching *)

\* Where a list has something for the first time.
Firsts(list) == {i \in DOMAIN list : \A j \in 1 .. i - 1 : list[j] # list[i]}

\* What WithoutRepeats leaves.
LEMMA WithoutRepeatsIs ==
    ASSUME NEW list, IsList(list)
    PROVE  /\ \E at, n : Shows(WithoutRepeats(list), at, n, list, Firsts(list), Upward)
           /\ \A i \in DOMAIN list : \E j \in Firsts(list) : list[j] = list[i] /\ j <= i
<1>1. Len(list) \in Nat /\ DOMAIN list = 1 .. Len(list)
  BY ListFacts
<1>2. WithoutRepeats(list) = PickAt(list, Firsts(list))
  BY DEF WithoutRepeats, Firsts
<1>3. Firsts(list) \in SUBSET (1 .. Len(list))
  BY <1>1 DEF Firsts
<1>4. \E at, n : Shows(PickAt(list, Firsts(list)), at, n, list, Firsts(list), Upward)
  BY <1>1, <1>3, PickAtIs
<1>5. ASSUME NEW i \in DOMAIN list PROVE \E j \in Firsts(list) : list[j] = list[i] /\ j <= i
  <2> DEFINE same == {j \in 1 .. Len(list) : list[j] = list[i]}
  <2>1. i \in same /\ same \in SUBSET Nat
    BY <1>1
  <2>2. PICK j \in same : \A o \in same : j <= o
    BY <2>1, LeastNat
  <2>3. j \in Firsts(list)
    <3>1. ASSUME NEW o \in 1 .. j - 1, list[o] = list[j] PROVE FALSE
      <4>1. o \in same /\ ~(j <= o)
        BY <1>1, <3>1
      <4> QED
        BY <2>2, <4>1
    <3> QED
      BY <1>1, <3>1 DEF Firsts
  <2> QED
    BY <2>1, <2>2, <2>3
<1> QED
  BY <1>2, <1>4, <1>5

\* A row of a table suits a set of lookups.
Suits(row, lookups) == \A l \in lookups : row[l[1]][1] \in l[2]

\* The filters hold of a row of a table, all but an Eq on the key.
AllHold(row, fs) == \A f \in fs : CellHolds(row[f.field[2]], f)
MostHold(row, fs) == \A f \in fs : (f.op = "Eq" /\ f.field[2] = Key) \/ CellHolds(row[f.field[2]], f)

\* The places of a table that an answer to lookups and filters may show.
IsAnswer(table, lookups, fs, P) ==
    /\ P \in SUBSET DOMAIN table
    /\ \A i \in P : MostHold(table[i], fs)
    /\ \A i \in DOMAIN table : Suits(table[i], lookups) /\ AllHold(table[i], fs) => i \in P
    /\ \A i, j \in DOMAIN table :
         /\ AllHold(table[i], fs) /\ AllHold(table[j], fs)
         /\ \A l \in lookups : table[i][l[1]][1] \in l[2] <=> table[j][l[1]][1] \in l[2]
         => (i \in P <=> j \in P)

\* An answer shows such places.
LEMMA AnswersAre ==
    ASSUME NEW db, NEW alias, NEW lookups, NEW fs, IsList(db[alias]), NEW a \in Answers(db, alias, lookups, fs)
    PROVE  \E P, at, n : IsAnswer(db[alias], lookups, fs, P) /\ Shows(a, at, n, db[alias], P, Upward)
<1> DEFINE table == db[alias]
           own == {<<f.field[2], {f.value}>> : f \in {g \in fs : g.op = "Eq"}}
           eqs == lookups \cup own
           loose == {l \in eqs : l[1] # Key}
           found(ls) == {i \in DOMAIN table : /\ \A l \in ls : table[i][l[1]][1] \in l[2]
                                              /\ \A f \in fs : f.op # "Eq" => CellHolds(table[i][f.field[2]], f)}
<1>1. PICK ls : ls \in {eqs, loose} /\ a = PickAt(table, found(ls))
  BY DEF Answers
<1> DEFINE P == found(ls)
<1>2. ls \subseteq eqs /\ \A l \in eqs : l[1] # Key => l \in ls
  BY <1>1
<1>3. \A i \in P : \A l \in ls : table[i][l[1]][1] \in l[2]
  OBVIOUS
<1>4. \A i \in P : \A f \in fs : f.op # "Eq" => CellHolds(table[i][f.field[2]], f)
  OBVIOUS
<1>5. \A i \in DOMAIN table : (\A l \in ls : table[i][l[1]][1] \in l[2])
          /\ (\A f \in fs : f.op # "Eq" => CellHolds(table[i][f.field[2]], f)) => i \in P
  OBVIOUS
<1>6. P \in SUBSET DOMAIN table
  OBVIOUS
<1>7. \A f \in fs : f.op = "Eq" => <<f.field[2], {f.value}>> \in eqs
  OBVIOUS
<1>8. \A l \in ls : l \in lookups \/ \E f \in fs : f.op = "Eq" /\ l = <<f.field[2], {f.value}>>
  BY <1>2
<1> HIDE DEF P, eqs, found, loose, own
<1>9. ASSUME NEW f, f.op = "Eq", NEW cell PROVE CellHolds(cell, f) <=> cell[1] = f.value
  BY <1>9 DEF CellHolds
<1>10. ASSUME NEW i \in P PROVE MostHold(table[i], fs)
  <2> SUFFICES ASSUME NEW f \in fs, f.op = "Eq", f.field[2] # Key PROVE CellHolds(table[i][f.field[2]], f)
    BY <1>4 DEF MostHold
  <2> DEFINE l == <<f.field[2], {f.value}>>
  <2>1. l \in ls /\ l[1] = f.field[2] /\ l[2] = {f.value}
    BY <1>2, <1>7
  <2>2. table[i][l[1]][1] \in l[2]
    BY <1>3, <2>1
  <2>3. table[i][f.field[2]][1] = f.value
    BY <2>1, <2>2
  <2> QED
    BY <1>9, <2>3
<1>11. ASSUME NEW i \in DOMAIN table, AllHold(table[i], fs)
       PROVE  i \in P <=> \A l \in ls : l \in lookups => table[i][l[1]][1] \in l[2]
  <2>1. ASSUME NEW l \in ls, l \notin lookups PROVE table[i][l[1]][1] \in l[2]
    <3>1. PICK f \in fs : f.op = "Eq" /\ l = <<f.field[2], {f.value}>>
      BY <1>8, <2>1
    <3>2. CellHolds(table[i][f.field[2]], f)
      BY <1>11 DEF AllHold
    <3>3. table[i][f.field[2]][1] = f.value
      BY <1>9, <3>1, <3>2
    <3> QED
      BY <3>1, <3>3
  <2>2. \A f \in fs : CellHolds(table[i][f.field[2]], f)
    BY <1>11 DEF AllHold
  <2> QED
    BY <1>3, <1>5, <2>1, <2>2
<1>12. IsAnswer(table, lookups, fs, P)
  <2>1. \A i \in DOMAIN table : Suits(table[i], lookups) /\ AllHold(table[i], fs) => i \in P
    BY <1>11 DEF Suits
  <2>2. ASSUME NEW i \in DOMAIN table, NEW j \in DOMAIN table, AllHold(table[i], fs), AllHold(table[j], fs),
               \A l \in lookups : table[i][l[1]][1] \in l[2] <=> table[j][l[1]][1] \in l[2]
        PROVE  i \in P <=> j \in P
    <3>1. i \in P <=> \A l \in ls : l \in lookups => table[i][l[1]][1] \in l[2]
      BY <1>11, <2>2
    <3>2. j \in P <=> \A l \in ls : l \in lookups => table[j][l[1]][1] \in l[2]
      BY <1>11, <2>2
    <3> QED
      BY <2>2, <3>1, <3>2
  <2> QED
    BY <1>6, <1>10, <2>1, <2>2 DEF IsAnswer
<1>13. a = PickAt(table, P)
  BY <1>1 DEF P
<1>14. Len(table) \in Nat /\ P \in SUBSET (1 .. Len(table))
  BY <1>6, ListFacts
<1>15. PICK at, n : Shows(PickAt(table, P), at, n, table, P, Upward)
  BY <1>14, PickAtIs
<1> QED
  BY <1>12, <1>13, <1>15

\* A row of the joined table has a key.
HasThatKey(row, join, key) == \A c \in DOMAIN join.on : row[join.on[c].new[2]][1] = key[c][1]

\* Lookups are on columns that are joined on, so rows with one key suit them alike ...
OnJoinColumns(join, lookups) == \A l \in lookups : \E c \in DOMAIN join.on : l[1] = join.on[c].new[2]
\* ... and one of the batches is for every key.
Covers(keys, join, batches) ==
    /\ IsList(batches) /\ \A b \in DOMAIN batches : OnJoinColumns(join, batches[b])
    /\ \A k \in DOMAIN keys : \E b \in DOMAIN batches :
          \A row : HasThatKey(row, join, keys[k]) => Suits(row, batches[b])

\* Coalescing loses no key.
LEMMA CoalescedCovers ==
    ASSUME NEW keys, NEW join, IsList(keys), IsList(join.on)
    PROVE  Covers(keys, join, Coalesced(keys, join))
<1> DEFINE positions == DOMAIN join.on
           one(key, p) == <<join.on[p].new[2], {key[p][1]}>>
           agree(p) == \A i, j \in DOMAIN keys, o \in positions \ {p} : keys[i][o] = keys[j][o]
           all(p) == <<join.on[p].new[2], {keys[i][p][1] : i \in DOMAIN keys}>>
           vary == {p \in positions : agree(p)}
           v == CHOOSE p \in vary : \A o \in vary : p <= o
           batches == Coalesced(keys, join)
<1>1. Len(keys) \in Nat /\ DOMAIN keys = 1 .. Len(keys) /\ Len(join.on) \in Nat /\ positions = 1 .. Len(join.on)
  BY ListFacts
<1>2. CASE Len(keys) <= 1 \/ vary = {}
  <2>1. batches = [i \in DOMAIN keys |-> {one(keys[i], p) : p \in positions}]
    BY <1>2 DEF Coalesced
  <2> HIDE DEF batches
  <2>2. DOMAIN batches = 1 .. Len(keys) /\ batches = [i \in 1 .. Len(keys) |-> batches[i]]
    BY <1>1, <2>1
  <2>3. IsList(batches)
    BY <1>1, <2>2, LenIs
  <2>4. \A b \in DOMAIN batches : batches[b] = {one(keys[b], p) : p \in positions}
    BY <2>1
  <2>5. ASSUME NEW b \in DOMAIN batches PROVE OnJoinColumns(join, batches[b])
    BY <2>4 DEF OnJoinColumns
  <2>6. ASSUME NEW k \in DOMAIN keys, NEW row, HasThatKey(row, join, keys[k]) PROVE Suits(row, batches[k])
    <3>1. batches[k] = {one(keys[k], p) : p \in positions}
      BY <1>1, <2>2, <2>4
    <3> QED
      BY <2>6, <3>1 DEF Suits, HasThatKey
  <2>7. \A k \in DOMAIN keys : k \in DOMAIN batches
    BY <1>1, <2>2
  <2> QED
    BY <2>3, <2>5, <2>6, <2>7 DEF Covers, batches
<1>3. CASE ~(Len(keys) <= 1 \/ vary = {})
  <2> DEFINE lookups == {one(keys[1], p) : p \in positions \ {v}} \cup {all(v)}
  <2>1. batches = <<lookups>>
    BY <1>3 DEF Coalesced
  <2>2. v \in vary
    <3>0. \A p \in vary : p \in positions
      OBVIOUS
    <3>1. vary \in SUBSET Nat /\ vary # {}
      <4> HIDE DEF vary
      <4> QED
        BY <1>1, <1>3, <3>0
    <3>2. \E p \in vary : \A o \in vary : p <= o
      <4> HIDE DEF vary
      <4> QED
        BY <3>1, LeastNat
    <3> QED
      BY <3>2
  <2> HIDE DEF v, batches
  <2>3. IsList(batches) /\ DOMAIN batches = 1 .. 1 /\ batches[1] = lookups
    BY <2>1, OneRow
  <2>4. 1 \in DOMAIN keys
    BY <1>1, <1>3
  <2>5. OnJoinColumns(join, lookups)
    BY <2>2 DEF OnJoinColumns
  <2>6. ASSUME NEW k \in DOMAIN keys, NEW row, HasThatKey(row, join, keys[k]) PROVE Suits(row, lookups)
    <3>1. \A o \in positions \ {v} : keys[k][o] = keys[1][o]
      BY <2>2, <2>4
    <3>2. ASSUME NEW p \in positions \ {v} PROVE row[one(keys[1], p)[1]][1] \in one(keys[1], p)[2]
      BY <2>6, <3>1 DEF HasThatKey
    <3>3. row[all(v)[1]][1] \in all(v)[2]
      BY <2>2, <2>6 DEF HasThatKey
    <3> QED
      BY <3>2, <3>3 DEF Suits
  <2> HIDE DEF lookups
  <2>7. \A b \in DOMAIN batches : batches[b] = lookups
    BY <2>3
  <2>8. 1 \in DOMAIN batches
    BY <2>3
  <2> QED
    BY <2>3, <2>5, <2>6, <2>7, <2>8 DEF Covers, batches
<1> QED
  BY <1>2, <1>3

\* Every row's key is collected.
LEMMA KeysAreCollected ==
    ASSUME NEW rows, NEW join, IsList(rows)
    PROVE  /\ IsList(LookupKeys(rows, join))
           /\ \A i \in DOMAIN rows : HasKey(rows[i], join) =>
                 \E k \in DOMAIN LookupKeys(rows, join) : LookupKeys(rows, join)[k] = ComposeKey(rows[i], join)
<1> DEFINE K == {i \in DOMAIN rows : HasKey(rows[i], join)}
           keyed == PickAt(rows, K)
           list == [i \in DOMAIN keyed |-> ComposeKey(keyed[i], join)]
<1>1. LookupKeys(rows, join) = WithoutRepeats(list)
  BY DEF LookupKeys
<1>2. Len(rows) \in Nat /\ K \in SUBSET (1 .. Len(rows)) /\ DOMAIN rows = 1 .. Len(rows)
  BY ListFacts
<1>3. PICK at, n : Shows(keyed, at, n, rows, K, Upward)
  BY <1>2, PickAtIs
<1>4. /\ n \in Nat /\ IsList(keyed) /\ Len(keyed) = n /\ \A i \in 1 .. n : keyed[i] = rows[at[i]]
      /\ \A x \in K : \E i \in 1 .. n : at[i] = x
  BY <1>3 DEF Shows, Listing
<1> HIDE DEF keyed
<1>5. DOMAIN keyed = 1 .. n
  BY <1>4, ListFacts
<1>6. list = [i \in 1 .. n |-> list[i]] /\ DOMAIN list = 1 .. n /\ \A i \in 1 .. n : list[i] = ComposeKey(keyed[i], join)
  BY <1>5
<1> HIDE DEF list
<1>7. IsList(list)
  BY <1>4, <1>6, LenIs
<1> DEFINE keys == WithoutRepeats(list)
<1>8. /\ \E bt, m : Shows(keys, bt, m, list, Firsts(list), Upward)
      /\ \A i \in DOMAIN list : \E j \in Firsts(list) : list[j] = list[i] /\ j <= i
  BY <1>7, WithoutRepeatsIs
<1>9. PICK bt, m : Shows(keys, bt, m, list, Firsts(list), Upward)
  BY <1>8
<1>10. /\ IsList(keys) /\ Len(keys) = m /\ \A i \in 1 .. m : keys[i] = list[bt[i]]
       /\ \A x \in Firsts(list) : \E i \in 1 .. m : bt[i] = x
  BY <1>9 DEF Shows, Listing
<1> HIDE DEF keys
<1>11. DOMAIN keys = 1 .. m
  BY <1>10, ListFacts
<1>12. ASSUME NEW i \in DOMAIN rows, HasKey(rows[i], join) PROVE \E k \in DOMAIN keys : keys[k] = ComposeKey(rows[i], join)
  <2>1. i \in K
    BY <1>12
  <2>2. PICK x \in 1 .. n : at[x] = i
    BY <1>4, <2>1
  <2>3. list[x] = ComposeKey(rows[i], join)
    BY <1>4, <1>6, <2>2
  <2>4. PICK j \in Firsts(list) : list[j] = list[x]
    BY <1>6, <1>8
  <2>5. PICK k \in 1 .. m : bt[k] = j
    BY <1>10
  <2> QED
    BY <1>10, <1>11, <2>3, <2>4, <2>5
<1> QED
  BY <1>1, <1>10, <1>12 DEF keys

\* A row of the joined table is wanted for a key.
IsWanted(qry, join, row, key) == HasThatKey(row, join, key) /\ AllHold(row, Pushdown(qry, join.alias))

\* What was fetched for the current rows: each fetched row is what was read of a row
\* of the table, everything wanted is there, and what is wanted for one key is in
\* the table's order.
FetchedFrom(db, qry, join, rows, list, from) ==
    LET table == db[join.alias]
        flat(n) == Flat(db, qry, join.alias, table[n])
    IN /\ IsList(list)
       /\ \A y \in DOMAIN list : /\ from[y] \in DOMAIN table /\ list[y] = flat(from[y])
                                 /\ MostHold(table[from[y]], Pushdown(qry, join.alias))
       /\ \A i \in DOMAIN rows, n \in DOMAIN table :
             HasKey(rows[i], join) /\ IsWanted(qry, join, table[n], ComposeKey(rows[i], join)) =>
                \E y \in DOMAIN list : list[y] = flat(n)
       /\ \A y, z \in DOMAIN list : \A key :
             y < z /\ IsWanted(qry, join, table[from[y]], key) /\ IsWanted(qry, join, table[from[z]], key) => from[y] < from[z]

\* A batch and its answer: the places P of the table, where at shows them.
Answered(db, qry, join, lookups, answer, P, at) ==
    /\ IsAnswer(db[join.alias], lookups, Pushdown(qry, join.alias), P)
    /\ Listing(at, Len(answer), P, Upward) /\ IsList(answer)
    /\ \A u \in 1 .. Len(answer) : answer[u] = db[join.alias][at[u]]

\* Every answer is one.
LEMMA AnsweredIs ==
    ASSUME NEW db, NEW qry, NEW join, NEW lookups, IsList(db[join.alias]),
           NEW answer \in Answers(db, join.alias, lookups, Pushdown(qry, join.alias))
    PROVE  \E P, at : Answered(db, qry, join, lookups, answer, P, at)
<1>1. PICK P, at, n : /\ IsAnswer(db[join.alias], lookups, Pushdown(qry, join.alias), P)
                      /\ Shows(answer, at, n, db[join.alias], P, Upward)
  BY AnswersAre
<1>2. Answered(db, qry, join, lookups, answer, P, at)
  BY <1>1 DEF Shows, Answered
<1> QED
  BY <1>2

\* The rows of all batches, one after the other.
Batched(db, qry, join, batches, answers, lists) ==
    /\ IsList(lists) /\ DOMAIN lists = DOMAIN batches /\ DOMAIN answers = DOMAIN batches
    /\ \A b \in DOMAIN batches : /\ answers[b] \in Answers(db, join.alias, batches[b], Pushdown(qry, join.alias))
                                 /\ IsList(lists[b]) /\ Len(lists[b]) = Len(answers[b])
                                 /\ \A u \in 1 .. Len(lists[b]) : lists[b][u] = Flat(db, qry, join.alias, answers[b][u])

\* What is fetched.
LEMMA FetchedRowsAre ==
    ASSUME NEW db, NEW qry, NEW rows, NEW join, IsList(rows), IsList(join.on), IsList(db[join.alias]),
           NEW taken \in FetchedRows(db, qry, rows, join)
    PROVE  \E batches, answers, lists :
              /\ Covers(LookupKeys(rows, join), join, batches)
              /\ Batched(db, qry, join, batches, answers, lists)
              /\ taken = WithoutRepeats(FlattenSeq(lists))
<1> DEFINE batches == Coalesced(LookupKeys(rows, join), join)
           answers == [b \in DOMAIN batches |-> Answers(db, join.alias, batches[b], Pushdown(qry, join.alias))]
           flat(list) == [n \in DOMAIN list |-> Flat(db, qry, join.alias, list[n])]
           lists(p) == [b \in DOMAIN batches |-> flat(p[b])]
<1>1. Covers(LookupKeys(rows, join), join, batches)
  BY KeysAreCollected, CoalescedCovers
<1>2. PICK p \in [DOMAIN batches -> UNION Range(answers)] :
         (\A b \in DOMAIN batches : p[b] \in answers[b]) /\ taken = WithoutRepeats(FlattenSeq(lists(p)))
  BY DEF FetchedRows
<1> DEFINE all == lists(p)
<1>3. \A b \in DOMAIN batches : p[b] \in Answers(db, join.alias, batches[b], Pushdown(qry, join.alias))
  BY <1>2
<1>4. IsList(batches)
  BY <1>1 DEF Covers
<1> HIDE DEF batches
<1>5. Len(batches) \in Nat /\ DOMAIN batches = 1 .. Len(batches)
  BY <1>4, ListFacts
<1>6. DOMAIN all = DOMAIN batches /\ all = [b \in 1 .. Len(batches) |-> all[b]] /\ \A b \in DOMAIN batches : all[b] = flat(p[b])
  BY <1>5
<1>7. ASSUME NEW b \in DOMAIN batches
      PROVE  /\ IsList(flat(p[b])) /\ Len(flat(p[b])) = Len(p[b])
             /\ \A u \in 1 .. Len(p[b]) : flat(p[b])[u] = Flat(db, qry, join.alias, p[b][u])
  <2>1. PICK P, at : Answered(db, qry, join, batches[b], p[b], P, at)
    BY <1>3, AnsweredIs
  <2>2. IsList(p[b])
    BY <2>1 DEF Answered
  <2>3. Len(p[b]) \in Nat /\ DOMAIN p[b] = 1 .. Len(p[b])
    BY <2>2, ListFacts
  <2> DEFINE l == flat(p[b])
  <2>4. DOMAIN l = 1 .. Len(p[b]) /\ l = [u \in 1 .. Len(p[b]) |-> l[u]]
        /\ \A u \in 1 .. Len(p[b]) : l[u] = Flat(db, qry, join.alias, p[b][u])
    BY <2>3
  <2> HIDE DEF l
  <2>5. IsList(l) /\ Len(l) = Len(p[b])
    BY <2>3, <2>4, LenIs
  <2> QED
    BY <2>4, <2>5 DEF l
<1> HIDE DEF all, flat
<1>8. IsList(all)
  BY <1>5, <1>6, LenIs
<1>9. Batched(db, qry, join, batches, p, all)
  BY <1>2, <1>3, <1>6, <1>7, <1>8 DEF Batched
<1>10. taken = WithoutRepeats(FlattenSeq(all))
  BY <1>2 DEF all
<1> QED
  BY <1>1, <1>9, <1>10

\* A row of the table that is wanted is among the fetched ones, and rows wanted for one
\* key are in order: a batch has all or none of them.
LEMMA FetchIs ==
    ASSUME NEW db, NEW qry, NEW rows, NEW join, IsList(rows), IsList(join.on), IsList(db[join.alias]),
           NEW taken \in FetchedRows(db, qry, rows, join)
    PROVE  \E from : FetchedFrom(db, qry, join, rows, taken, from)
<1> DEFINE table == db[join.alias]
           fs == Pushdown(qry, join.alias)
           flat(i) == Flat(db, qry, join.alias, table[i])
           keys == LookupKeys(rows, join)
<1>1. PICK batches, answers, lists :
         /\ Covers(keys, join, batches) /\ Batched(db, qry, join, batches, answers, lists)
         /\ taken = WithoutRepeats(FlattenSeq(lists))
  BY FetchedRowsAre
<1> DEFINE P == [b \in DOMAIN batches |-> CHOOSE P : \E at : Answered(db, qry, join, batches[b], answers[b], P, at)]
           ats == [b \in DOMAIN batches |-> CHOOSE at : Answered(db, qry, join, batches[b], answers[b], P[b], at)]
           L == FlattenSeq(lists)
<1>2. \A b \in DOMAIN batches : Answered(db, qry, join, batches[b], answers[b], P[b], ats[b])
  <2> SUFFICES ASSUME NEW b \in DOMAIN batches PROVE Answered(db, qry, join, batches[b], answers[b], P[b], ats[b])
    OBVIOUS
  <2>1. answers[b] \in Answers(db, join.alias, batches[b], Pushdown(qry, join.alias))
    BY <1>1 DEF Batched
  <2>2. \E Q, at : Answered(db, qry, join, batches[b], answers[b], Q, at)
    BY <2>1, AnsweredIs
  <2> QED
    BY <2>2
<1> HIDE DEF P, ats
<1>3. \A b \in DOMAIN batches :
         /\ IsAnswer(table, batches[b], fs, P[b]) /\ Listing(ats[b], Len(lists[b]), P[b], Upward)
         /\ IsList(lists[b]) /\ \A u \in 1 .. Len(lists[b]) : lists[b][u] = flat(ats[b][u])
  <2> SUFFICES ASSUME NEW b \in DOMAIN batches
               PROVE  /\ IsAnswer(table, batches[b], fs, P[b]) /\ Listing(ats[b], Len(lists[b]), P[b], Upward)
                      /\ IsList(lists[b]) /\ \A u \in 1 .. Len(lists[b]) : lists[b][u] = flat(ats[b][u])
    OBVIOUS
  <2>1. /\ IsList(lists[b]) /\ Len(lists[b]) = Len(answers[b])
        /\ \A u \in 1 .. Len(lists[b]) : lists[b][u] = Flat(db, qry, join.alias, answers[b][u])
    BY <1>1 DEF Batched
  <2>2. /\ IsAnswer(table, batches[b], fs, P[b]) /\ Listing(ats[b], Len(answers[b]), P[b], Upward)
        /\ \A u \in 1 .. Len(answers[b]) : answers[b][u] = table[ats[b][u]]
    BY <1>2 DEF Answered
  <2> QED
    BY <2>1, <2>2
<1>4. /\ IsList(lists) /\ DOMAIN lists = DOMAIN batches /\ DOMAIN lists = 1 .. Len(lists) /\ Len(lists) \in Nat
      /\ \A b \in DOMAIN lists : DOMAIN lists[b] = 1 .. Len(lists[b])
  BY <1>1, <1>3, ListFacts DEF Batched
<1>5. PICK ct : Chains(L, ct, lists, Len(lists))
  BY <1>3, <1>4, FlattenIs
<1> HIDE DEF L
<1>6. /\ IsList(L) /\ DOMAIN L = 1 .. Len(L) /\ Len(L) \in Nat
      /\ \A x \in 1 .. Len(L) : ct[x] \in Spots(lists, Len(lists)) /\ L[x] = lists[ct[x][1]][ct[x][2]]
      /\ \A e \in Spots(lists, Len(lists)) : \E x \in 1 .. Len(L) : ct[x] = e
      /\ \A x, y \in 1 .. Len(L) : x < y => <<ct[x], ct[y]>> \in PairOrder
  BY <1>5, ListFacts DEF Chains, Listing
<1> DEFINE src(x) == ats[ct[x][1]][ct[x][2]]
<1>7. ASSUME NEW x \in 1 .. Len(L)
      PROVE  /\ ct[x][1] \in DOMAIN batches /\ ct[x][2] \in 1 .. Len(lists[ct[x][1]]) /\ ct[x] \in Nat \X Nat
             /\ ct[x] = <<ct[x][1], ct[x][2]>>
             /\ src(x) \in P[ct[x][1]] /\ src(x) \in DOMAIN table /\ L[x] = flat(src(x)) /\ MostHold(table[src(x)], fs)
  <2>1. /\ ct[x][1] \in DOMAIN batches /\ ct[x][2] \in 1 .. Len(lists[ct[x][1]]) /\ ct[x] \in Nat \X Nat
        /\ ct[x] = <<ct[x][1], ct[x][2]>>
    BY <1>4, <1>6 DEF Spots
  <2>2. src(x) \in P[ct[x][1]] /\ L[x] = flat(src(x))
    BY <1>3, <1>6, <2>1 DEF Listing
  <2>3. src(x) \in DOMAIN table /\ MostHold(table[src(x)], fs)
    BY <1>3, <2>1, <2>2 DEF IsAnswer
  <2> QED
    BY <2>1, <2>2, <2>3
<1>8. ASSUME NEW b \in DOMAIN batches, NEW i \in P[b]
      PROVE  \E x \in 1 .. Len(L) : ct[x][1] = b /\ src(x) = i
  <2>1. PICK u \in 1 .. Len(lists[b]) : ats[b][u] = i
    BY <1>3 DEF Listing
  <2>2. b \in Nat /\ u \in Nat /\ b \in 1 .. Len(lists) /\ u \in DOMAIN lists[b]
    BY <1>4
  <2>3. <<b, u>> \in Spots(lists, Len(lists))
    BY <2>2 DEF Spots
  <2>4. PICK x \in 1 .. Len(L) : ct[x] = <<b, u>>
    BY <1>6, <2>3
  <2> QED
    BY <2>1, <2>4
<1>9. /\ \E wt, m : Shows(taken, wt, m, L, Firsts(L), Upward)
      /\ \A i \in DOMAIN L : \E j \in Firsts(L) : L[j] = L[i] /\ j <= i
  BY <1>1, <1>6, WithoutRepeatsIs DEF L
<1>10. PICK wt, m : Shows(taken, wt, m, L, Firsts(L), Upward)
  BY <1>9
<1>11. /\ IsList(taken) /\ m \in Nat /\ Len(taken) = m /\ \A y \in 1 .. m : wt[y] \in Firsts(L) /\ taken[y] = L[wt[y]]
       /\ \A x \in Firsts(L) : \E y \in 1 .. m : wt[y] = x
       /\ \A y, z \in 1 .. m : y < z => <<wt[y], wt[z]>> \in Upward
  BY <1>10 DEF Shows, Listing
<1>12. DOMAIN taken = 1 .. m
  BY <1>11, ListFacts
<1>13. \A y \in 1 .. m : wt[y] \in 1 .. Len(L) /\ wt[y] \in Nat
  BY <1>6, <1>11 DEF Firsts
<1>14. \A y, z \in 1 .. m : y < z => wt[y] < wt[z]
  BY <1>11, <1>13, OrdersSay
<1> DEFINE from == [y \in 1 .. m |-> src(wt[y])]
<1>15. \A y \in 1 .. m : from[y] = src(wt[y])
  OBVIOUS
<1> HIDE DEF from, src
<1>16. ASSUME NEW y \in 1 .. m
       PROVE  from[y] \in DOMAIN table /\ taken[y] = flat(from[y]) /\ MostHold(table[from[y]], fs)
  <2>1. wt[y] \in 1 .. Len(L) /\ from[y] = src(wt[y]) /\ taken[y] = L[wt[y]]
    BY <1>11, <1>13, <1>15
  <2>2. src(wt[y]) \in DOMAIN table /\ L[wt[y]] = flat(src(wt[y])) /\ MostHold(table[src(wt[y])], fs)
    BY <1>7, <2>1
  <2> HIDE DEF flat, table, fs
  <2> QED
    BY <2>1, <2>2
<1>17. ASSUME NEW i \in DOMAIN rows, NEW n \in DOMAIN table, HasKey(rows[i], join),
              IsWanted(qry, join, table[n], ComposeKey(rows[i], join))
       PROVE  \E y \in 1 .. m : taken[y] = flat(n)
  <2>1. PICK k \in DOMAIN keys : keys[k] = ComposeKey(rows[i], join)
    BY <1>17, KeysAreCollected
  <2>2. PICK b \in DOMAIN batches : \A row : HasThatKey(row, join, keys[k]) => Suits(row, batches[b])
    BY <1>1 DEF Covers
  <2>3. Suits(table[n], batches[b]) /\ AllHold(table[n], fs)
    BY <1>17, <2>1, <2>2 DEF IsWanted
  <2>4. n \in P[b]
    BY <1>3, <2>3 DEF IsAnswer
  <2>5. PICK x \in 1 .. Len(L) : ct[x][1] = b /\ src(x) = n
    BY <1>8, <2>4
  <2>6. L[x] = flat(n) /\ x \in DOMAIN L
    BY <1>6, <1>7, <2>5
  <2>7. PICK j \in Firsts(L) : L[j] = L[x]
    BY <1>9, <2>6
  <2>8. PICK y \in 1 .. m : wt[y] = j
    BY <1>11
  <2> QED
    BY <1>11, <2>6, <2>7, <2>8
<1>18. ASSUME NEW y \in 1 .. m, NEW z \in 1 .. m, NEW key, y < z,
              IsWanted(qry, join, table[from[y]], key), IsWanted(qry, join, table[from[z]], key)
       PROVE  from[y] < from[z]
  <2> DEFINE x1 == wt[y]
             x2 == wt[z]
             i1 == from[y]
             i2 == from[z]
             b1 == ct[x1][1]
             b2 == ct[x2][1]
  <2>1. x1 \in 1 .. Len(L) /\ x2 \in 1 .. Len(L) /\ x1 < x2 /\ i1 = src(x1) /\ i2 = src(x2)
    BY <1>13, <1>14, <1>15, <1>18
  <2>2. /\ b1 \in DOMAIN batches /\ i1 \in P[b1] /\ i1 \in DOMAIN table
        /\ b2 \in DOMAIN batches /\ i2 \in P[b2] /\ i2 \in DOMAIN table
        /\ L[x2] = flat(i2)
    BY <1>7, <2>1
  <2>3. AllHold(table[i1], fs) /\ AllHold(table[i2], fs)
    BY <1>18 DEF IsWanted
  <2>4. \A l \in batches[b1] : table[i1][l[1]][1] \in l[2] <=> table[i2][l[1]][1] \in l[2]
    <3> SUFFICES ASSUME NEW l \in batches[b1] PROVE table[i1][l[1]][1] \in l[2] <=> table[i2][l[1]][1] \in l[2]
      OBVIOUS
    <3>1. PICK c \in DOMAIN join.on : l[1] = join.on[c].new[2]
      BY <1>1, <2>2 DEF Covers, OnJoinColumns
    <3>2. table[i1][join.on[c].new[2]][1] = key[c][1] /\ table[i2][join.on[c].new[2]][1] = key[c][1]
      BY <1>18 DEF IsWanted, HasThatKey
    <3> QED
      BY <3>1, <3>2
  <2>5. i2 \in P[b1]
    BY <1>3, <2>2, <2>3, <2>4 DEF IsAnswer
  <2>6. PICK x \in 1 .. Len(L) : ct[x][1] = b1 /\ src(x) = i2
    BY <1>8, <2>2, <2>5
  <2>7. L[x] = L[x2]
    BY <1>7, <2>2, <2>6
  <2>8. ~(x < x2)
    <3>1. x2 \in Firsts(L)
      BY <1>11
    <3>2. x2 \in Nat /\ x \in Nat /\ (x < x2 => x \in 1 .. x2 - 1)
      BY <1>6, <2>1
    <3> QED
      BY <2>7, <3>1, <3>2 DEF Firsts
  <2>9. /\ <<ct[x1], ct[x2]>> \in PairOrder /\ (x2 < x => <<ct[x2], ct[x]>> \in PairOrder)
        /\ ct[x1] \in Nat \X Nat /\ ct[x2] \in Nat \X Nat /\ ct[x] \in Nat \X Nat
    BY <1>6, <1>7, <2>1
  <2>10. b1 < b2 \/ (b1 = b2 /\ ct[x1][2] < ct[x2][2])
    BY <2>9, OrdersSay
  <2>11. x2 < x => b2 < b1 \/ b2 = b1
    BY <2>6, <2>9, OrdersSay
  <2>12. x = x2 \/ x2 < x
    BY <1>6, <2>1, <2>8
  <2>13. b1 \in Nat /\ b2 \in Nat
    BY <1>4, <2>2
  <2>14. b1 = b2 /\ ct[x1][2] < ct[x2][2]
    BY <2>6, <2>10, <2>11, <2>12, <2>13
  <2>15. ct[x1][2] \in 1 .. Len(lists[b1]) /\ ct[x2][2] \in 1 .. Len(lists[b1])
    BY <1>7, <2>1, <2>14
  <2>16. <<ats[b1][ct[x1][2]], ats[b1][ct[x2][2]]>> \in Upward
    BY <1>3, <2>2, <2>14, <2>15 DEF Listing
  <2>17. <<i1, i2>> \in Upward
    BY <2>1, <2>14, <2>16 DEF src
  <2>18. i1 \in Nat /\ i2 \in Nat
    <3>1. DOMAIN table = 1 .. Len(table)
      BY ListFacts
    <3> QED
      BY <2>2, <3>1
  <2> QED
    BY <2>17, <2>18, OrdersSay
<1>19. FetchedFrom(db, qry, join, rows, taken, from)
  BY <1>11, <1>12, <1>16, <1>17, <1>18 DEF FetchedFrom
<1> QED
  BY <1>19

\* What is read of a row of the table is what a whole row has.
LEMMA TableRow ==
    ASSUME NEW db \in Databases, NEW qry \in Queries, NEW alias, alias \in Available(qry, Len(qry.joins)),
           NEW n \in DOMAIN db[alias]
    PROVE  /\ \A f \in DOMAIN Flat(db, qry, alias, db[alias][n]) : Flat(db, qry, alias, db[alias][n])[f] = db[alias][n][f[2]]
           /\ \A f \in DOMAIN Whole(db, alias)[n] : Whole(db, alias)[n][f] = db[alias][n][f[2]]
           /\ Alike(Mentioned(qry), Flat(db, qry, alias, db[alias][n]), Whole(db, alias)[n])
           /\ \A f \in DOMAIN Whole(db, alias)[n] : f[1] = alias /\ Whole(db, alias)[n][f][1] \in Nat
           /\ \A f \in DOMAIN Flat(db, qry, alias, db[alias][n]) : f[1] = alias /\ Flat(db, qry, alias, db[alias][n])[f][1] \in Nat
<1> DEFINE table == db[alias]
           m == Flat(db, qry, alias, table[n])
           w == Whole(db, alias)[n]
<1>1. /\ DOMAIN table[n] = DOMAIN table[1]
      /\ \A c \in DOMAIN table[n] : table[n][c][1] \in Nat
  BY SourceFacts
<1>2. \A f \in Mentioned(qry) : f = <<f[1], f[2]>>
  BY MentionedFacts
<1>3. DOMAIN m = {f \in Mentioned(qry) : f[1] = alias /\ f[2] \in DOMAIN table[n]} /\ \A f \in DOMAIN m : m[f] = table[n][f[2]]
  BY <1>1 DEF Flat, Needed
<1>4. DOMAIN w = {<<alias, c>> : c \in DOMAIN table[n]} /\ \A f \in DOMAIN w : w[f] = table[n][f[2]]
  BY <1>1 DEF Whole
<1>5. \A f \in DOMAIN w : f[1] = alias /\ f[2] \in DOMAIN table[n]
  BY <1>4
<1>6. \A f \in Mentioned(qry) : f \in DOMAIN w <=> f[1] = alias /\ f[2] \in DOMAIN table[n]
  BY <1>2, <1>4
<1> HIDE DEF m, w, table
<1>7. Alike(Mentioned(qry), m, w)
  BY <1>3, <1>4, <1>6 DEF Alike
<1>8. (\A f \in DOMAIN w : f[1] = alias /\ w[f][1] \in Nat) /\ \A f \in DOMAIN m : f[1] = alias /\ m[f][1] \in Nat
  BY <1>1, <1>3, <1>4, <1>5
<1> QED
  BY <1>3, <1>4, <1>7, <1>8 DEF m, w, table

\* The places of the table that a row should be joined with.
RefPlaces(db, qry, row, join) ==
    {n \in DOMAIN db[join.alias] :
        HasKey(row, join) /\ IsWanted(qry, join, db[join.alias][n], ComposeKey(row, join))}

\* What is read of a row has a key exactly when the row has it.
ShowsItsKey(join, row, m, raw) ==
    HasKey(row, join) => (JoinedKey(m, join) = ComposeKey(row, join) <=> HasThatKey(raw, join, ComposeKey(row, join)))

\* Keys are compared as numbers; a whole row has what the filters ask for.
LEMMA KeysAreCompared ==
    ASSUME NEW db \in Databases, NEW qry \in Queries, NEW k, NEW join, IsJoin(qry, k, join), NEW row,
           NEW n \in DOMAIN db[join.alias]
    PROVE  /\ ShowsItsKey(join, row, Flat(db, qry, join.alias, db[join.alias][n]), db[join.alias][n])
           /\ n \in RefPlaces(db, qry, row, join) <=>
                 /\ \A c \in DOMAIN join.on :
                       /\ join.on[c].old \in DOMAIN row
                       /\ row[join.on[c].old][1] = Whole(db, join.alias)[n][join.on[c].new][1]
                 /\ \A f \in Pushdown(qry, join.alias) : Evaluate(Whole(db, join.alias)[n], f)
           /\ \A f \in Pushdown(qry, join.alias) :
                 Evaluate(Flat(db, qry, join.alias, db[join.alias][n]), f) <=> CellHolds(db[join.alias][n][f.field[2]], f)
<1> DEFINE alias == join.alias
           table == db[alias]
           m == Flat(db, qry, alias, table[n])
           w == Whole(db, alias)[n]
           key == ComposeKey(row, join)
<1>0. alias \in Available(qry, Len(qry.joins))
  BY DEF Available, IsJoin
<1>1. (\A f \in DOMAIN m : m[f] = table[n][f[2]]) /\ \A f \in DOMAIN w : w[f] = table[n][f[2]]
  BY <1>0, TableRow
<1>2. IsMatch(qry, join, m) /\ IsMatch(qry, join, w)
  BY FlatIsMatch, WholeIsMatch
<1> HIDE DEF m, w, table
<1>3. \A c \in DOMAIN join.on : /\ m[join.on[c].new] = table[n][join.on[c].new[2]]
                                /\ w[join.on[c].new] = table[n][join.on[c].new[2]]
  BY <1>1, <1>2 DEF IsMatch
<1>4. \A f \in Pushdown(qry, alias) : f.field \in DOMAIN m /\ f.field \in DOMAIN w
  BY <1>2, FiltersAreMentioned DEF IsMatch
<1>5. \A f \in Pushdown(qry, alias) : (Evaluate(m, f) <=> CellHolds(table[n][f.field[2]], f))
                                      /\ (Evaluate(w, f) <=> CellHolds(table[n][f.field[2]], f))
  BY <1>1, <1>4 DEF Evaluate
<1>6. \A c \in DOMAIN join.on : key[c] = <<row[join.on[c].old][1], "int">> /\ key[c][1] = row[join.on[c].old][1]
  BY DEF ComposeKey, Normalize
<1>7. DOMAIN key = DOMAIN join.on /\ key = [c \in DOMAIN join.on |-> key[c]]
  BY DEF ComposeKey
<1> HIDE DEF key
<1>8. JoinedKey(m, join) = key <=> HasThatKey(table[n], join, key)
  <2> DEFINE own == JoinedKey(m, join)
  <2>1. own = [c \in DOMAIN join.on |-> own[c]] /\ \A c \in DOMAIN join.on : own[c] = <<m[join.on[c].new][1], "int">>
    BY DEF JoinedKey, Normalize
  <2> HIDE DEF own
  <2>2. \A c \in DOMAIN join.on : own[c] = key[c] <=> table[n][join.on[c].new[2]][1] = key[c][1]
    <3> SUFFICES ASSUME NEW c \in DOMAIN join.on PROVE own[c] = key[c] <=> table[n][join.on[c].new[2]][1] = key[c][1]
      OBVIOUS
    <3>1. own[c] = <<m[join.on[c].new][1], "int">> /\ key[c] = <<row[join.on[c].old][1], "int">>
      BY <1>6, <2>1
    <3>2. ASSUME NEW x, NEW y PROVE <<x, "int">> = <<y, "int">> <=> x = y
      OBVIOUS
    <3>3. own[c] = key[c] <=> m[join.on[c].new][1] = row[join.on[c].old][1]
      BY <3>1, <3>2
    <3> QED
      BY <1>3, <1>6, <3>3
  <2>3. own = key <=> \A c \in DOMAIN join.on : own[c] = key[c]
    BY <1>7, <2>1
  <2> QED
    BY <2>2, <2>3 DEF HasThatKey, own
<1>9. (n \in RefPlaces(db, qry, row, join)) <=>
         /\ \A c \in DOMAIN join.on : join.on[c].old \in DOMAIN row /\ row[join.on[c].old][1] = w[join.on[c].new][1]
         /\ \A f \in Pushdown(qry, alias) : Evaluate(w, f)
  <2>1. n \in RefPlaces(db, qry, row, join) <=> HasKey(row, join) /\ HasThatKey(table[n], join, key) /\ AllHold(table[n], Pushdown(qry, alias))
    BY DEF RefPlaces, IsWanted, key, table
  <2>2. AllHold(table[n], Pushdown(qry, alias)) <=> \A f \in Pushdown(qry, alias) : Evaluate(w, f)
    BY <1>5 DEF AllHold
  <2>3. HasKey(row, join) /\ HasThatKey(table[n], join, key) <=>
           \A c \in DOMAIN join.on : join.on[c].old \in DOMAIN row /\ row[join.on[c].old][1] = w[join.on[c].new][1]
    BY <1>3, <1>6 DEF HasKey, HasThatKey
  <2> QED
    BY <2>1, <2>2, <2>3
<1>10. ShowsItsKey(join, row, m, table[n])
  BY <1>8 DEF ShowsItsKey, key
<1> QED
  BY <1>5, <1>9, <1>10 DEF m, w, table

\* Rows that agree have the same key.
LEMMA AlikeKeys ==
    ASSUME NEW qry \in Queries, NEW k, NEW join, IsJoin(qry, k, join), NEW row, NEW ref, Alike(Mentioned(qry), row, ref)
    PROVE  /\ HasKey(row, join) <=> HasKey(ref, join)
           /\ HasKey(row, join) => ComposeKey(row, join) = ComposeKey(ref, join)
<1>1. k \in DOMAIN qry.joins /\ join = qry.joins[k]
  <2>1. DOMAIN qry.joins = 1 .. Len(qry.joins)
    BY JoinFacts
  <2> QED
    BY <2>1 DEF IsJoin
<1>2. \A c \in DOMAIN join.on : join.on[c].old \in Mentioned(qry)
  BY <1>1, MentionedFacts
<1>3. \A c \in DOMAIN join.on : /\ join.on[c].old \in DOMAIN row <=> join.on[c].old \in DOMAIN ref
                                /\ join.on[c].old \in DOMAIN row => row[join.on[c].old] = ref[join.on[c].old]
  BY <1>2 DEF Alike
<1>4. HasKey(row, join) <=> HasKey(ref, join)
  BY <1>3 DEF HasKey
<1>5. ASSUME HasKey(row, join) PROVE ComposeKey(row, join) = ComposeKey(ref, join)
  <2>1. \A c \in DOMAIN join.on : Normalize(row[join.on[c].old]) = Normalize(ref[join.on[c].old])
    BY <1>3, <1>5 DEF HasKey
  <2> QED
    BY <2>1 DEF ComposeKey
<1> QED
  BY <1>4, <1>5

\* The matches of a row among what was fetched, and those it should have, by their
\* places.
MatchPlaces(db, qry, join, row, list, from) ==
    {m \in DOMAIN list : HasKey(row, join) /\ HasThatKey(db[join.alias][from[m]], join, ComposeKey(row, join))}
Placed(a, at, list, S) == IsList(a) /\ Listing(at, Len(a), S, Upward) /\ \A i \in 1 .. Len(a) : a[i] = list[at[i]]

\* Matches among what was fetched.
LEMMA MatchesArePlaced ==
    ASSUME NEW db \in Databases, NEW qry \in Queries, NEW k, NEW join, IsJoin(qry, k, join),
           NEW rows, NEW list, NEW from, FetchedFrom(db, qry, join, rows, list, from), NEW row
    PROVE  /\ MatchPlaces(db, qry, join, row, list, from) \in SUBSET Nat
           /\ \E ax : Placed(MatchesOf(row, list, join), ax, list, MatchPlaces(db, qry, join, row, list, from))
           /\ AreMatches(qry, join, MatchesOf(row, list, join))
<1> DEFINE table == db[join.alias]
           M == {m \in DOMAIN list : HasKey(row, join) /\ JoinedKey(list[m], join) = ComposeKey(row, join)}
           X == MatchesOf(row, list, join)
<1>1. IsList(list) /\ \A m \in DOMAIN list : from[m] \in DOMAIN table /\ list[m] = Flat(db, qry, join.alias, table[from[m]])
  BY DEF FetchedFrom
<1>2. X = PickAt(list, M)
  BY DEF MatchesOf
<1>3. \A m \in DOMAIN list : HasKey(row, join) =>
          (JoinedKey(list[m], join) = ComposeKey(row, join) <=> HasThatKey(table[from[m]], join, ComposeKey(row, join)))
  <2> SUFFICES ASSUME NEW m \in DOMAIN list
               PROVE  HasKey(row, join) =>
          (JoinedKey(list[m], join) = ComposeKey(row, join) <=> HasThatKey(table[from[m]], join, ComposeKey(row, join)))
    OBVIOUS
  <2> DEFINE n == from[m]
  <2>1. n \in DOMAIN db[join.alias] /\ list[m] = Flat(db, qry, join.alias, table[n])
    BY <1>1
  <2> HIDE DEF n
  <2>2. ShowsItsKey(join, row, Flat(db, qry, join.alias, table[n]), table[n])
    BY <2>1, KeysAreCompared
  <2> QED
    BY <2>1, <2>2 DEF n, ShowsItsKey
<1>4. M = MatchPlaces(db, qry, join, row, list, from)
  <2> DEFINE one(m) == HasKey(row, join) /\ JoinedKey(list[m], join) = ComposeKey(row, join)
             other(m) == HasKey(row, join) /\ HasThatKey(table[from[m]], join, ComposeKey(row, join))
  <2>1. \A m \in DOMAIN list : one(m) <=> other(m)
    BY <1>3
  <2>2. M = {m \in DOMAIN list : one(m)} /\ MatchPlaces(db, qry, join, row, list, from) = {m \in DOMAIN list : other(m)}
    BY DEF MatchPlaces
  <2> HIDE DEF one, other, M
  <2> QED
    BY <2>1, <2>2
<1>5. Len(list) \in Nat /\ DOMAIN list = 1 .. Len(list)
  BY <1>1, ListFacts
<1>6. M \in SUBSET (1 .. Len(list)) /\ M \in SUBSET Nat
  BY <1>5
<1> HIDE DEF M, X
<1>7. PICK ax, n : Shows(PickAt(list, M), ax, n, list, M, Upward)
  BY <1>5, <1>6, PickAtIs
<1>8. Placed(X, ax, list, M)
  BY <1>2, <1>7 DEF Shows, Placed
<1>9. AreMatches(qry, join, X)
  <2>1. ASSUME NEW i \in 1 .. Len(X) PROVE IsMatch(qry, join, X[i])
    <3>1. ax[i] \in M /\ X[i] = list[ax[i]]
      BY <1>8 DEF Placed, Listing
    <3>2. ax[i] \in DOMAIN list
      BY <1>5, <1>6, <3>1
    <3>3. from[ax[i]] \in DOMAIN table /\ X[i] = Flat(db, qry, join.alias, table[from[ax[i]]])
      BY <1>1, <3>1, <3>2
    <3> QED
      BY <3>3, FlatIsMatch
  <2> QED
    BY <1>8, <2>1 DEF AreMatches, Placed
<1> QED
  BY <1>4, <1>6, <1>8, <1>9 DEF X

\* The matches a row should have.
LEMMA RefMatchesArePlaced ==
    ASSUME NEW db \in Databases, NEW qry \in Queries, NEW k, NEW join, IsJoin(qry, k, join), NEW ref
    PROVE  /\ RefPlaces(db, qry, ref, join) \in SUBSET Nat
           /\ RefPlaces(db, qry, ref, join) \in SUBSET DOMAIN db[join.alias]
           /\ \E ay : Placed(RefMatches(db, qry, ref, join), ay, Whole(db, join.alias), RefPlaces(db, qry, ref, join))
           /\ AreMatches(qry, join, RefMatches(db, qry, ref, join))
<1> DEFINE table == db[join.alias]
           w == Whole(db, join.alias)
           meant(m) == /\ \A c \in DOMAIN join.on : join.on[c].old \in DOMAIN ref /\ ref[join.on[c].old][1] = m[join.on[c].new][1]
                       /\ \A f \in Pushdown(qry, join.alias) : Evaluate(m, f)
           W == {i \in DOMAIN w : meant(w[i])}
           Y == RefMatches(db, qry, ref, join)
<1>1. Y = PickAt(w, W)
  BY DEF RefMatches
<1>2. DOMAIN w = DOMAIN table
  BY DEF Whole
<1>3. \A n \in DOMAIN table : n \in RefPlaces(db, qry, ref, join) <=> meant(w[n])
  BY KeysAreCompared
<1> HIDE DEF w
<1>4. RefPlaces(db, qry, ref, join) \in SUBSET DOMAIN table
  BY DEF RefPlaces
<1>5. W = RefPlaces(db, qry, ref, join)
  BY <1>2, <1>3, <1>4
<1>6. Len(table) \in Nat /\ DOMAIN table = 1 .. Len(table)
  <2>1. join.alias \in Available(qry, Len(qry.joins))
    BY DEF Available, IsJoin
  <2>2. IsList(table)
    BY <2>1, SourceFacts
  <2> QED
    BY <2>2, ListFacts
<1> HIDE DEF W, Y
<1>7. W \in SUBSET (1 .. Len(table)) /\ W \in SUBSET Nat
  BY <1>4, <1>5, <1>6
<1>8. PICK ay, n : Shows(PickAt(w, W), ay, n, w, W, Upward)
  BY <1>6, <1>7, PickAtIs
<1>9. Placed(Y, ay, w, W)
  BY <1>1, <1>8 DEF Shows, Placed
<1>10. AreMatches(qry, join, Y)
  <2>1. ASSUME NEW i \in 1 .. Len(Y) PROVE IsMatch(qry, join, Y[i])
    <3>1. ay[i] \in W /\ Y[i] = w[ay[i]]
      BY <1>9 DEF Placed, Listing
    <3>2. ay[i] \in DOMAIN table
      BY <1>6, <1>7, <3>1
    <3> QED
      BY <3>1, <3>2, WholeIsMatch DEF w
  <2> QED
    BY <1>9, <2>1 DEF AreMatches, Placed
<1> QED
  BY <1>4, <1>5, <1>7, <1>9, <1>10 DEF Y, w

\* Where the matches of a row are ones that it should have.
FoundAt(db, qry, join, row, from, ax, X) == {x \in DOMAIN X : from[ax[x]] \in RefPlaces(db, qry, row, join)}

\* Those are all it should have; other matches fail a filter, if there are others.
LEMMA FoundFacts ==
    ASSUME NEW db \in Databases, NEW qry \in Queries, NEW k, NEW join, IsJoin(qry, k, join),
           NEW rows, NEW list, NEW from, FetchedFrom(db, qry, join, rows, list, from),
           NEW i \in DOMAIN rows, NEW row, row = rows[i], NEW X, NEW ax,
           Placed(X, ax, list, MatchPlaces(db, qry, join, row, list, from))
    PROVE  /\ DOMAIN X = 1 .. Len(X) /\ Len(X) \in Nat
           /\ \A x \in DOMAIN X : /\ ax[x] \in DOMAIN list /\ from[ax[x]] \in DOMAIN db[join.alias]
                                  /\ X[x] = Flat(db, qry, join.alias, db[join.alias][from[ax[x]]])
           /\ \A x \in DOMAIN X \ FoundAt(db, qry, join, row, from, ax, X) :
                 \E f \in Pushdown(qry, join.alias) : ~Evaluate(X[x], f)
           /\ LeftKeysFree(qry) /\ join.kind = "left" => FoundAt(db, qry, join, row, from, ax, X) = DOMAIN X
           /\ \A n \in RefPlaces(db, qry, row, join) : \E x \in FoundAt(db, qry, join, row, from, ax, X) :
                 X[x] = Flat(db, qry, join.alias, db[join.alias][n])
<1> DEFINE table == db[join.alias]
           flat(n) == Flat(db, qry, join.alias, table[n])
           fs == Pushdown(qry, join.alias)
           key == ComposeKey(row, join)
           W == RefPlaces(db, qry, row, join)
           M == MatchPlaces(db, qry, join, row, list, from)
           G == FoundAt(db, qry, join, row, from, ax, X)
<1>1. /\ DOMAIN X = 1 .. Len(X) /\ Len(X) \in Nat
      /\ \A x \in 1 .. Len(X) : ax[x] \in M /\ X[x] = list[ax[x]]
      /\ \A m \in M : \E x \in 1 .. Len(X) : ax[x] = m
  BY ListFacts DEF Placed, Listing
<1>2. \A y \in DOMAIN list : from[y] \in DOMAIN table /\ list[y] = flat(from[y]) /\ MostHold(table[from[y]], fs)
  BY DEF FetchedFrom
<1>3. \A m : m \in M <=> m \in DOMAIN list /\ HasKey(row, join) /\ HasThatKey(table[from[m]], join, key)
  BY DEF MatchPlaces
<1>4. \A n : n \in W <=> n \in DOMAIN table /\ HasKey(row, join) /\ HasThatKey(table[n], join, key) /\ AllHold(table[n], fs)
  BY DEF RefPlaces, IsWanted
<1>5. ASSUME NEW n \in DOMAIN table
      PROVE  /\ \A f \in fs : Evaluate(flat(n), f) <=> CellHolds(table[n][f.field[2]], f)
             /\ HasKey(row, join) => (JoinedKey(flat(n), join) = key <=> HasThatKey(table[n], join, key))
  <2>1. n \in DOMAIN db[join.alias]
    OBVIOUS
  <2>2. ShowsItsKey(join, row, Flat(db, qry, join.alias, db[join.alias][n]), db[join.alias][n])
    BY <2>1, KeysAreCompared
  <2>3. \A f \in Pushdown(qry, join.alias) :
          Evaluate(Flat(db, qry, join.alias, db[join.alias][n]), f) <=> CellHolds(db[join.alias][n][f.field[2]], f)
    BY <2>1, KeysAreCompared
  <2> QED
    BY <2>2, <2>3 DEF ShowsItsKey
<1> HIDE DEF M, W, flat, fs, key, table
<1>6. \A x \in DOMAIN X : /\ ax[x] \in DOMAIN list /\ from[ax[x]] \in DOMAIN table /\ X[x] = flat(from[ax[x]])
                          /\ HasKey(row, join) /\ HasThatKey(table[from[ax[x]]], join, key) /\ MostHold(table[from[ax[x]]], fs)
  BY <1>1, <1>2, <1>3
<1>7. \A x : x \in G <=> x \in DOMAIN X /\ from[ax[x]] \in W
  BY DEF FoundAt, W
<1> HIDE DEF G
<1>8. ASSUME NEW x \in DOMAIN X \ G PROVE \E f \in fs : ~Evaluate(X[x], f)
  <2>1. from[ax[x]] \in DOMAIN table /\ X[x] = flat(from[ax[x]]) /\ ~AllHold(table[from[ax[x]]], fs)
    BY <1>4, <1>6, <1>7
  <2>2. PICK f \in fs : ~CellHolds(table[from[ax[x]]][f.field[2]], f)
    BY <2>1 DEF AllHold
  <2> QED
    BY <1>5, <2>1, <2>2
<1>9. ASSUME LeftKeysFree(qry), join.kind = "left" PROVE G = DOMAIN X
  <2>1. join.alias \in LeftAliases(qry)
    BY <1>9, FiltersGrow
  <2>2. ASSUME NEW f \in fs PROVE ~(f.op = "Eq" /\ f.field[2] = Key)
    <3>1. f \in qry.filters /\ f.field[1] = join.alias
      BY FiltersAreMentioned DEF fs
    <3> QED
      BY <1>9, <2>1, <3>1 DEF LeftKeysFree
  <2>3. \A x \in DOMAIN X : AllHold(table[from[ax[x]]], fs)
    BY <1>6, <2>2 DEF MostHold, AllHold
  <2> QED
    BY <1>4, <1>6, <1>7, <2>3
<1>10. ASSUME NEW n \in W PROVE \E x \in G : X[x] = flat(n)
  <2>1. n \in DOMAIN table /\ HasKey(row, join) /\ HasThatKey(table[n], join, key) /\ AllHold(table[n], fs)
    BY <1>4
  <2>2. IsWanted(qry, join, table[n], key)
    BY <2>1 DEF IsWanted, fs
  <2>3. PICK y \in DOMAIN list : list[y] = flat(n)
    BY <2>1, <2>2 DEF FetchedFrom, table, key, flat
  <2>4. from[y] \in DOMAIN table /\ flat(from[y]) = flat(n)
    BY <1>2, <2>3
  <2>5. HasThatKey(table[from[y]], join, key)
    BY <1>5, <2>1, <2>4
  <2>6. AllHold(table[from[y]], fs)
    BY <1>5, <2>1, <2>4 DEF AllHold
  <2>7. from[y] \in W /\ y \in M
    BY <1>3, <1>4, <2>1, <2>4, <2>5, <2>6
  <2>8. PICK x \in 1 .. Len(X) : ax[x] = y
    BY <1>1, <2>7
  <2> QED
    BY <1>1, <1>7, <2>3, <2>7, <2>8
<1> QED
  BY <1>1, <1>6, <1>8, <1>9, <1>10 DEF G, W, fs, flat, table

\* The matches of a row and those that it should have, as sets.
FindsSome(qry, join, X, Y, G) ==
    /\ AreMatches(qry, join, X) /\ AreMatches(qry, join, Y) /\ G \in SUBSET DOMAIN X
    /\ \A x \in G : \E y \in DOMAIN Y : Alike(Mentioned(qry), X[x], Y[y])
    /\ \A y \in DOMAIN Y : \E x \in G : Alike(Mentioned(qry), X[x], Y[y])
    /\ \A x \in DOMAIN X \ G : \E f \in Pushdown(qry, join.alias) : ~Evaluate(X[x], f)

\* Whatever the tables hold, nothing is missed and nothing invented.
LEMMA MatchesAreFound ==
    ASSUME NEW db \in Databases, NEW qry \in Queries, NEW k, NEW join, IsJoin(qry, k, join),
           NEW rows, NEW list, NEW from, FetchedFrom(db, qry, join, rows, list, from),
           NEW i \in DOMAIN rows, NEW ref, Alike(Mentioned(qry), rows[i], ref)
    PROVE  \E G : /\ FindsSome(qry, join, MatchesOf(rows[i], list, join), RefMatches(db, qry, ref, join), G)
                  /\ LeftKeysFree(qry) /\ join.kind = "left" => G = DOMAIN MatchesOf(rows[i], list, join)
<1> DEFINE row == rows[i]
           X == MatchesOf(row, list, join)
           Y == RefMatches(db, qry, ref, join)
           table == db[join.alias]
           w == Whole(db, join.alias)
           W == RefPlaces(db, qry, row, join)
<1>1. PICK ax : Placed(X, ax, list, MatchPlaces(db, qry, join, row, list, from))
  BY MatchesArePlaced
<1>2. W = RefPlaces(db, qry, ref, join)
  <2>1. /\ HasKey(row, join) <=> HasKey(ref, join)
        /\ HasKey(row, join) => ComposeKey(row, join) = ComposeKey(ref, join)
    BY AlikeKeys
  <2> QED
    BY <2>1 DEF RefPlaces
<1>3. PICK ay : Placed(Y, ay, w, W)
  BY <1>2, RefMatchesArePlaced
<1>4. AreMatches(qry, join, X) /\ AreMatches(qry, join, Y) /\ W \in SUBSET DOMAIN table
  BY <1>2, MatchesArePlaced, RefMatchesArePlaced
<1> DEFINE G == FoundAt(db, qry, join, row, from, ax, X)
<1> HIDE DEF X, Y, W, w
<1>5. /\ DOMAIN X = 1 .. Len(X) /\ Len(X) \in Nat
      /\ \A x \in DOMAIN X : X[x] = Flat(db, qry, join.alias, table[from[ax[x]]])
      /\ \A x \in DOMAIN X \ G : \E f \in Pushdown(qry, join.alias) : ~Evaluate(X[x], f)
      /\ LeftKeysFree(qry) /\ join.kind = "left" => G = DOMAIN X
      /\ \A n \in W : \E x \in G : X[x] = Flat(db, qry, join.alias, table[n])
  BY <1>1, FoundFacts DEF W
<1>6. G \in SUBSET DOMAIN X /\ \A x \in G : from[ax[x]] \in W
  BY DEF FoundAt, W
<1> HIDE DEF G
<1>7. /\ DOMAIN Y = 1 .. Len(Y) /\ \A y \in 1 .. Len(Y) : ay[y] \in W /\ Y[y] = w[ay[y]]
      /\ \A n \in W : \E y \in 1 .. Len(Y) : ay[y] = n
  BY <1>3, ListFacts DEF Placed, Listing
<1>8. \A n \in W : Alike(Mentioned(qry), Flat(db, qry, join.alias, table[n]), w[n])
  <2>1. join.alias \in Available(qry, Len(qry.joins))
    BY DEF Available, IsJoin
  <2> QED
    BY <1>4, <2>1, TableRow DEF w
<1>9. \A x \in G : \E y \in DOMAIN Y : Alike(Mentioned(qry), X[x], Y[y])
  <2> SUFFICES ASSUME NEW x \in G PROVE \E y \in DOMAIN Y : Alike(Mentioned(qry), X[x], Y[y])
    OBVIOUS
  <2>1. from[ax[x]] \in W /\ X[x] = Flat(db, qry, join.alias, table[from[ax[x]]])
    BY <1>5, <1>6
  <2>2. PICK y \in 1 .. Len(Y) : ay[y] = from[ax[x]]
    BY <1>7, <2>1
  <2> QED
    BY <1>7, <1>8, <2>1, <2>2
<1>10. \A y \in DOMAIN Y : \E x \in G : Alike(Mentioned(qry), X[x], Y[y])
  <2> SUFFICES ASSUME NEW y \in DOMAIN Y PROVE \E x \in G : Alike(Mentioned(qry), X[x], Y[y])
    OBVIOUS
  <2>1. ay[y] \in W /\ Y[y] = w[ay[y]]
    BY <1>7
  <2>2. PICK x \in G : X[x] = Flat(db, qry, join.alias, table[ay[y]])
    BY <1>5, <2>1
  <2> QED
    BY <1>8, <2>1, <2>2
<1>11. FindsSome(qry, join, X, Y, G)
  BY <1>4, <1>5, <1>6, <1>9, <1>10 DEF FindsSome
<1> QED
  BY <1>5, <1>11 DEF X, Y

\* Rows that are told apart are found in their order.
LEMMA MatchesAreTold ==
    ASSUME NEW db \in Databases, NEW qry \in Queries, NEW k, NEW join, IsJoin(qry, k, join), RowsAreTold(db, qry),
           NEW rows, NEW list, NEW from, FetchedFrom(db, qry, join, rows, list, from),
           NEW i \in DOMAIN rows, NEW ref, Alike(Mentioned(qry), rows[i], ref)
    PROVE  \E G, g : /\ Finds(qry, join, MatchesOf(rows[i], list, join), RefMatches(db, qry, ref, join), G, g)
                     /\ LeftKeysFree(qry) /\ join.kind = "left" => G = DOMAIN MatchesOf(rows[i], list, join)
<1> DEFINE row == rows[i]
           X == MatchesOf(row, list, join)
           Y == RefMatches(db, qry, ref, join)
           table == db[join.alias]
           w == Whole(db, join.alias)
           W == RefPlaces(db, qry, row, join)
           M == MatchPlaces(db, qry, join, row, list, from)
           key == ComposeKey(row, join)
<1>1. PICK ax : Placed(X, ax, list, M)
  BY MatchesArePlaced
<1>2. W = RefPlaces(db, qry, ref, join)
  <2>1. /\ HasKey(row, join) <=> HasKey(ref, join)
        /\ HasKey(row, join) => ComposeKey(row, join) = ComposeKey(ref, join)
    BY AlikeKeys
  <2> QED
    BY <2>1 DEF RefPlaces
<1>3. PICK ay : Placed(Y, ay, w, W)
  BY <1>2, RefMatchesArePlaced
<1>4. /\ AreMatches(qry, join, X) /\ AreMatches(qry, join, Y) /\ W \in SUBSET DOMAIN table
      /\ W \in SUBSET Nat /\ M \in SUBSET Nat
  BY <1>2, MatchesArePlaced, RefMatchesArePlaced
<1> DEFINE G == FoundAt(db, qry, join, row, from, ax, X)
<1>5. \A n \in W : IsWanted(qry, join, table[n], key)
  BY DEF RefPlaces
<1> HIDE DEF X, Y, W, w, M, key
<1>6. /\ DOMAIN X = 1 .. Len(X) /\ Len(X) \in Nat
      /\ \A x \in DOMAIN X : ax[x] \in DOMAIN list /\ X[x] = Flat(db, qry, join.alias, table[from[ax[x]]])
      /\ \A x \in DOMAIN X \ G : \E f \in Pushdown(qry, join.alias) : ~Evaluate(X[x], f)
      /\ LeftKeysFree(qry) /\ join.kind = "left" => G = DOMAIN X
      /\ \A n \in W : \E x \in G : X[x] = Flat(db, qry, join.alias, table[n])
  BY <1>1, FoundFacts DEF W, M
<1>7. G \in SUBSET DOMAIN X /\ \A x \in G : from[ax[x]] \in W
  BY DEF FoundAt, W
<1> HIDE DEF G
<1>8. /\ DOMAIN Y = 1 .. Len(Y) /\ \A y \in 1 .. Len(Y) : ay[y] \in W /\ Y[y] = w[ay[y]]
      /\ \A n \in W : \E y \in 1 .. Len(Y) : ay[y] = n
  BY <1>3, ListFacts DEF Placed, Listing
<1>9. \A n \in W : Alike(Mentioned(qry), Flat(db, qry, join.alias, table[n]), w[n])
  <2>1. join.alias \in Available(qry, Len(qry.joins))
    BY DEF Available, IsJoin
  <2> QED
    BY <1>4, <2>1, TableRow DEF w
<1>10. \A n, m \in DOMAIN table : Flat(db, qry, join.alias, table[n]) = Flat(db, qry, join.alias, table[m]) => n = m
  <2>1. k \in DOMAIN qry.joins /\ join = qry.joins[k]
    BY JoinFacts DEF IsJoin
  <2> QED
    BY <2>1 DEF RowsAreTold
<1> DEFINE g == [x \in G |-> CHOOSE y \in 1 .. Len(Y) : ay[y] = from[ax[x]]]
<1>11. \A x \in G : g[x] \in DOMAIN Y /\ ay[g[x]] = from[ax[x]]
  BY <1>7, <1>8
<1>12. DOMAIN g = G /\ g = [x \in G |-> g[x]]
  OBVIOUS
<1> HIDE DEF g
<1>13. Listing(ay, Len(Y), W, Upward) /\ IsOrder(W, Upward)
  BY <1>3, <1>4, NumbersAreOrdered DEF Placed
<1>14. \A y, z \in DOMAIN Y : (ay[y] = ay[z] => y = z) /\ (<<ay[y], ay[z]>> \in Upward => y < z)
  BY <1>8, <1>13, ListingIsInjective
<1>15. ASSUME NEW y \in DOMAIN Y PROVE \E x \in G : g[x] = y
  <2>1. ay[y] \in W
    BY <1>8
  <2>2. PICK x \in G : X[x] = Flat(db, qry, join.alias, table[ay[y]])
    BY <1>6, <2>1
  <2>3. X[x] = Flat(db, qry, join.alias, table[from[ax[x]]]) /\ from[ax[x]] \in DOMAIN table /\ ay[y] \in DOMAIN table
    BY <1>4, <1>6, <1>7, <2>1
  <2>4. from[ax[x]] = ay[y]
    BY <1>10, <2>2, <2>3
  <2> QED
    BY <1>11, <1>14, <2>4
<1>16. ASSUME NEW x \in G, NEW z \in G, x < z PROVE g[x] < g[z]
  <2>1. x \in 1 .. Len(X) /\ z \in 1 .. Len(X)
    BY <1>6, <1>7
  <2>2. ax[x] \in Nat /\ ax[z] \in Nat /\ <<ax[x], ax[z]>> \in Upward
    BY <1>1, <1>4, <1>16, <2>1 DEF Placed, Listing
  <2>3. ax[x] < ax[z] /\ ax[x] \in DOMAIN list /\ ax[z] \in DOMAIN list
    BY <1>6, <2>1, <2>2, OrdersSay
  <2>4. IsWanted(qry, join, table[from[ax[x]]], key) /\ IsWanted(qry, join, table[from[ax[z]]], key)
    BY <1>5, <1>7
  <2>5. from[ax[x]] < from[ax[z]]
    BY <2>3, <2>4 DEF FetchedFrom
  <2>6. <<ay[g[x]], ay[g[z]]>> \in Upward
    BY <1>4, <1>7, <1>11, <2>5, OrdersSay
  <2> QED
    BY <1>11, <1>14, <2>6
<1>17. Climbs(g, G, DOMAIN Y)
  BY <1>11, <1>12, <1>15, <1>16 DEF Climbs
<1>18. \A x \in G : Alike(Mentioned(qry), X[x], Y[g[x]])
  <2> SUFFICES ASSUME NEW x \in G PROVE Alike(Mentioned(qry), X[x], Y[g[x]])
    OBVIOUS
  <2>1. from[ax[x]] \in W /\ X[x] = Flat(db, qry, join.alias, table[from[ax[x]]])
    BY <1>6, <1>7
  <2>2. Y[g[x]] = w[from[ax[x]]]
    BY <1>8, <1>11
  <2> QED
    BY <1>9, <2>1, <2>2
<1>19. Finds(qry, join, X, Y, G, g)
  BY <1>4, <1>6, <1>7, <1>17, <1>18 DEF Finds
<1> QED
  BY <1>6, <1>19 DEF X, Y

-----------------------------------------------------------------------------
(* The result, join after join *)

\* A chain has what its lists have.
LEMMA FlattenHas ==
    ASSUME NEW lists, IsList(lists), \A i \in DOMAIN lists : IsList(lists[i])
    PROVE  /\ IsList(FlattenSeq(lists))
           /\ \A x \in DOMAIN FlattenSeq(lists) :
                \E i \in DOMAIN lists : \E j \in DOMAIN lists[i] : FlattenSeq(lists)[x] = lists[i][j]
           /\ \A i \in DOMAIN lists : \A j \in DOMAIN lists[i] :
                \E x \in DOMAIN FlattenSeq(lists) : FlattenSeq(lists)[x] = lists[i][j]
<1> DEFINE a == FlattenSeq(lists)
           S == Spots(lists, Len(lists))
<1>1. PICK at : Chains(a, at, lists, Len(lists))
  BY FlattenIs
<1> HIDE DEF a
<1>2. IsList(a) /\ Listing(at, Len(a), S, PairOrder) /\ \A x \in 1 .. Len(a) : a[x] = lists[at[x][1]][at[x][2]]
  BY <1>1 DEF Chains
<1>3. DOMAIN a = 1 .. Len(a) /\ DOMAIN lists = 1 .. Len(lists) /\ Len(lists) \in Nat
  BY <1>2, ListFacts
<1>4. ASSUME NEW x \in DOMAIN a PROVE \E i \in DOMAIN lists : \E j \in DOMAIN lists[i] : a[x] = lists[i][j]
  <2>1. at[x] \in S
    BY <1>2, <1>3 DEF Listing
  <2>2. at[x][1] \in DOMAIN lists /\ at[x][2] \in DOMAIN lists[at[x][1]]
    BY <1>3, <2>1 DEF Spots
  <2> QED
    BY <1>2, <1>3, <2>2
<1>5. ASSUME NEW i \in DOMAIN lists, NEW j \in DOMAIN lists[i] PROVE \E x \in DOMAIN a : a[x] = lists[i][j]
  <2>1. i \in Nat /\ j \in Nat
    <3>1. DOMAIN lists[i] = 1 .. Len(lists[i])
      BY ListFacts
    <3> QED
      BY <1>3, <3>1
  <2>2. <<i, j>> \in S
    BY <1>3, <2>1 DEF Spots
  <2>3. PICK x \in 1 .. Len(a) : at[x] = <<i, j>>
    BY <1>2, <2>2 DEF Listing
  <2> QED
    BY <1>2, <1>3, <2>3
<1> QED
  BY <1>2, <1>4, <1>5 DEF a

\* Rows after k joins.
AreRows(qry, k, rows) == IsList(rows) /\ \A i \in DOMAIN rows : RowOk(qry, k, rows[i])

\* A chain of rows.
LEMMA ChainedRows ==
    ASSUME NEW qry, NEW k, NEW lists, IsList(lists), \A i \in DOMAIN lists : AreRows(qry, k, lists[i])
    PROVE  AreRows(qry, k, FlattenSeq(lists))
<1>1. \A i \in DOMAIN lists : IsList(lists[i])
  BY DEF AreRows
<1>2. IsList(FlattenSeq(lists)) /\ \A x \in DOMAIN FlattenSeq(lists) :
                \E i \in DOMAIN lists : \E j \in DOMAIN lists[i] : FlattenSeq(lists)[x] = lists[i][j]
  BY <1>1, FlattenHas
<1> QED
  BY <1>2 DEF AreRows

\* What one more join makes of them.
LEMMA JoinedRows ==
    ASSUME NEW qry \in Queries, NEW k, NEW join, IsJoin(qry, k, join), NEW rows, AreRows(qry, k - 1, rows),
           NEW matches, \A i \in DOMAIN rows : AreMatches(qry, join, matches[i]),
           NEW lists, lists = [i \in DOMAIN rows |-> Joined(rows[i], matches[i], join)]
    PROVE  /\ IsList(lists) /\ DOMAIN lists = DOMAIN rows
           /\ \A i \in DOMAIN lists : lists[i] = Joined(rows[i], matches[i], join) /\ IsList(lists[i])
           /\ AreRows(qry, k, FlattenSeq(lists))
<1>1. DOMAIN rows = 1 .. Len(rows) /\ Len(rows) \in Nat
  BY ListFacts DEF AreRows
<1>2. DOMAIN lists = 1 .. Len(rows) /\ \A i \in DOMAIN rows : lists[i] = Joined(rows[i], matches[i], join)
  BY <1>1
<1>3. lists = [i \in 1 .. Len(rows) |-> lists[i]]
  BY <1>1
<1>4. IsList(lists)
  BY <1>1, <1>2, <1>3, LenIs
<1>5. ASSUME NEW i \in DOMAIN rows
      PROVE  IsList(lists[i]) /\ \A j \in DOMAIN lists[i] : RowOk(qry, k, lists[i][j])
  <2> DEFINE l == Joined(rows[i], matches[i], join)
  <2>1. RowOk(qry, k - 1, rows[i])
    BY DEF AreRows
  <2>2. IsList(l) /\ \A j \in 1 .. Len(l) : RowOk(qry, k, l[j])
    BY <2>1, JoinedIs
  <2>3. l = lists[i]
    BY <1>2
  <2> HIDE DEF l
  <2>4. DOMAIN l = 1 .. Len(l)
    BY <2>2, ListFacts
  <2> QED
    BY <2>2, <2>3, <2>4
<1>6. \A i \in DOMAIN lists : IsList(lists[i])
  BY <1>1, <1>2, <1>5
<1>7. \A i \in DOMAIN lists : AreRows(qry, k, lists[i])
  BY <1>2, <1>5 DEF AreRows
<1>8. AreRows(qry, k, FlattenSeq(lists))
  BY <1>4, <1>7, ChainedRows
<1> QED
  BY <1>1, <1>2, <1>4, <1>6, <1>8

\* The loop of RefAfter, up to m joins.
RefLoop(after, db, qry, m) ==
    after = [n \in 0 .. m |-> IF n = 0 THEN Whole(db, Base) ELSE RefJoin(db, qry, after[n - 1], qry.joins[n])]

\* It has a result.
LEMMA RefLoopRuns ==
    ASSUME NEW db, NEW qry, NEW N \in Nat
    PROVE  \E after : RefLoop(after, db, qry, N)
<1> DEFINE Good == {k \in Nat : \E g : RefLoop(g, db, qry, k)}
           next(g, n) == IF n = 0 THEN Whole(db, Base) ELSE RefJoin(db, qry, g[n - 1], qry.joins[n])
<1>1. 0 \in Good
  <2> DEFINE g == [n \in 0 .. 0 |-> Whole(db, Base)]
  <2>1. g = [n \in 0 .. 0 |-> next(g, n)]
    OBVIOUS
  <2> QED
    BY <2>1 DEF RefLoop
<1>2. ASSUME NEW k \in 1 .. N, k - 1 \in Good PROVE k \in Good
  <2>1. PICK f : RefLoop(f, db, qry, k - 1)
    BY <1>2
  <2> DEFINE last == RefJoin(db, qry, f[k - 1], qry.joins[k])
             g == [n \in 0 .. k |-> IF n = k THEN last ELSE f[n]]
  <2>2. ASSUME NEW n \in 0 .. k PROVE g[n] = next(g, n)
    <3>1. CASE n = k
      <4>1. g[n] = last
        BY <3>1
      <4>2. g[k - 1] = f[k - 1] /\ k # 0
        OBVIOUS
      <4> HIDE DEF g
      <4> QED
        BY <3>1, <4>1, <4>2
    <3>2. CASE n # k
      <4>1. n \in 0 .. k - 1 /\ (n # 0 => n - 1 \in 0 .. k - 1 /\ n - 1 # k)
        BY <3>2
      <4>2. g[n] = f[n] /\ (n # 0 => g[n - 1] = f[n - 1])
        BY <3>2, <4>1
      <4>3. f[n] = next(f, n)
        BY <2>1, <4>1 DEF RefLoop
      <4> HIDE DEF g
      <4> QED
        BY <4>2, <4>3
    <3> QED
      BY <3>1, <3>2
  <2>3. g = [n \in 0 .. k |-> g[n]]
    OBVIOUS
  <2> HIDE DEF g
  <2>4. RefLoop(g, db, qry, k)
    BY <2>2, <2>3 DEF RefLoop
  <2> QED
    BY <2>4
<1>3. N \in Good
  <2> HIDE DEF Good
  <2>1. \A k \in 0 .. N : k \in Good
    BY <1>1, <1>2, UpTo
  <2> QED
    BY <2>1
<1> QED
  BY <1>3

\* The relational result, join after join.
LEMMA RefAfterIs ==
    ASSUME NEW db, NEW qry, Len(qry.joins) \in Nat
    PROVE  /\ RefAfter(db, qry, 0) = Whole(db, Base)
           /\ \A k \in 1 .. Len(qry.joins) : RefAfter(db, qry, k) = RefJoin(db, qry, RefAfter(db, qry, k - 1), qry.joins[k])
<1> DEFINE g == CHOOSE g : RefLoop(g, db, qry, Len(qry.joins))
<1>1. \A k : RefAfter(db, qry, k) = g[k]
  BY DEF RefAfter, RefLoop
<1>2. RefLoop(g, db, qry, Len(qry.joins))
  BY RefLoopRuns
<1> HIDE DEF g
<1>3. \A k \in 0 .. Len(qry.joins) :
         g[k] = IF k = 0 THEN Whole(db, Base) ELSE RefJoin(db, qry, g[k - 1], qry.joins[k])
  BY <1>2 DEF RefLoop
<1>4. \A k \in 1 .. Len(qry.joins) : k \in 0 .. Len(qry.joins) /\ k # 0
  OBVIOUS
<1> QED
  BY <1>1, <1>3, <1>4

\* Its rows.
LEMMA RefRowsAre ==
    ASSUME NEW db \in Databases, NEW qry \in Queries, NEW k \in 0 .. Len(qry.joins)
    PROVE  AreRows(qry, k, RefAfter(db, qry, k))
<1> DEFINE Good == {n \in Nat : AreRows(qry, n, RefAfter(db, qry, n))}
           N == Len(qry.joins)
<1>1. IsList(qry.joins)
  BY QueriesAreQueries DEF IsQuery
<1>2. N \in Nat
  BY <1>1, ListFacts
<1>3. 0 \in Good
  <2> DEFINE w == Whole(db, Base)
  <2>1. Base \in Available(qry, 0) /\ Base \in Available(qry, N)
    BY DEF Available
  <2>2. IsList(db[Base])
    BY <2>1, SourceFacts
  <2>3. DOMAIN db[Base] = 1 .. Len(db[Base]) /\ Len(db[Base]) \in Nat
    BY <2>2, ListFacts
  <2>4. \A n \in DOMAIN db[Base] : \A f \in DOMAIN w[n] : f[1] = Base /\ w[n][f][1] \in Nat
    BY <2>1, TableRow
  <2>5. DOMAIN w = 1 .. Len(db[Base]) /\ w = [i \in 1 .. Len(db[Base]) |-> w[i]]
    BY <2>3 DEF Whole
  <2> HIDE DEF w
  <2>6. IsList(w)
    BY <2>3, <2>5, LenIs
  <2>7. AreRows(qry, 0, w)
    BY <2>1, <2>3, <2>4, <2>5, <2>6 DEF AreRows, RowOk
  <2> QED
    BY <1>2, <2>7, RefAfterIs DEF w
<1>4. ASSUME NEW n \in 1 .. N, n - 1 \in Good PROVE n \in Good
  <2> DEFINE join == qry.joins[n]
             rows == RefAfter(db, qry, n - 1)
             matches == [i \in DOMAIN rows |-> RefMatches(db, qry, rows[i], join)]
             lists == [i \in DOMAIN rows |-> Joined(rows[i], matches[i], join)]
             plain == [i \in DOMAIN rows |-> Joined(rows[i], RefMatches(db, qry, rows[i], join), join)]
  <2>1. IsJoin(qry, n, join)
    BY DEF IsJoin
  <2>2. \A i \in DOMAIN rows : AreMatches(qry, join, matches[i])
    BY <2>1, RefMatchesArePlaced
  <2>3. lists = plain
    OBVIOUS
  <2>4. RefAfter(db, qry, n) = FlattenSeq(lists)
    <3>1. RefAfter(db, qry, n) = RefJoin(db, qry, rows, join)
      BY <1>2, RefAfterIs
    <3>2. RefJoin(db, qry, rows, join) = FlattenSeq(plain)
      BY DEF RefJoin
    <3> QED
      BY <2>3, <3>1, <3>2
  <2>5. AreRows(qry, n - 1, rows)
    BY <1>4
  <2> HIDE DEF rows, matches, join
  <2>6. AreRows(qry, n, FlattenSeq(lists))
    BY <2>1, <2>2, <2>5, JoinedRows
  <2> QED
    BY <1>2, <2>4, <2>6
<1>5. \A n \in 0 .. N : n \in Good
  <2> HIDE DEF Good
  <2> QED
    BY <1>2, <1>3, <1>4, UpTo
<1> QED
  BY <1>5

-----------------------------------------------------------------------------
(* Fetching the base table *)

\* The filters on the base table are among those that are tested for at the end.
LEMMA BaseFilters ==
    ASSUME NEW qry \in Queries
    PROVE  \A f \in Pushdown(qry, Base) : f \in FiltersAt(qry, 0)
<1>1. \A f \in Pushdown(qry, Base) : f \in qry.filters /\ f.field[1] = Base
  BY FiltersAreMentioned
<1>2. Base \notin LeftAliases(qry)
  <2>1. IsQuery(qry)
    BY QueriesAreQueries
  <2> QED
    BY <2>1 DEF IsQuery, LeftAliases
<1>3. Base \in Available(qry, 0)
  BY DEF Available
<1> QED
  BY <1>1, <1>2, <1>3 DEF FiltersAt, PostJoinFilters

\* What is read of the base table.
LEMMA BaseIs ==
    ASSUME NEW db \in Databases, NEW qry \in Queries, NEW found \in Answers(db, Base, {}, Pushdown(qry, Base)),
           NEW rows, rows = [i \in DOMAIN found |-> Flat(db, qry, Base, found[i])]
    PROVE  \E at, P : /\ IsAnswer(db[Base], {}, Pushdown(qry, Base), P)
                      /\ Listing(at, Len(rows), P, Upward) /\ AreRows(qry, 0, rows)
                      /\ \A x \in DOMAIN rows : /\ at[x] \in P /\ rows[x] = Flat(db, qry, Base, db[Base][at[x]])
                                                /\ Alike(Mentioned(qry), rows[x], Whole(db, Base)[at[x]])
<1> DEFINE table == db[Base]
           fs == Pushdown(qry, Base)
           w == Whole(db, Base)
<1>1. Base \in Available(qry, 0) /\ Base \in Available(qry, Len(qry.joins))
  BY DEF Available
<1>2. IsList(table)
  BY <1>1, SourceFacts
<1>3. PICK P, at, n : IsAnswer(table, {}, fs, P) /\ Shows(found, at, n, table, P, Upward)
  BY <1>2, AnswersAre
<1>4. /\ Listing(at, n, P, Upward) /\ IsList(found) /\ Len(found) = n /\ P \in SUBSET DOMAIN table
      /\ \A i \in 1 .. n : at[i] \in P /\ found[i] = table[at[i]]
  BY <1>3 DEF Shows, IsAnswer, Listing
<1>5. n \in Nat /\ DOMAIN found = 1 .. n
  BY <1>4, ListFacts
<1>6. DOMAIN rows = 1 .. n /\ rows = [i \in 1 .. n |-> rows[i]] /\ \A x \in 1 .. n : rows[x] = Flat(db, qry, Base, table[at[x]])
  BY <1>4, <1>5
<1>7. Len(rows) = n /\ IsList(rows)
  BY <1>5, <1>6, LenIs
<1>8. ASSUME NEW x \in DOMAIN rows
      PROVE  /\ at[x] \in P /\ Alike(Mentioned(qry), rows[x], w[at[x]])
             /\ RowOk(qry, 0, rows[x])
  <2>1. at[x] \in DOMAIN table /\ at[x] \in P /\ rows[x] = Flat(db, qry, Base, table[at[x]])
    BY <1>4, <1>6
  <2> DEFINE p == at[x]
             m == Flat(db, qry, Base, table[p])
  <2>2. p \in DOMAIN table
    BY <2>1
  <2> HIDE DEF p
  <2>3. Alike(Mentioned(qry), m, w[p]) /\ \A f \in DOMAIN m : f[1] = Base /\ m[f][1] \in Nat
    BY <1>1, <2>2, TableRow
  <2>4. m = rows[x]
    BY <2>1 DEF p
  <2> HIDE DEF m
  <2>5. RowOk(qry, 0, m)
    BY <1>1, <2>3 DEF RowOk
  <2> QED
    BY <2>1, <2>3, <2>4, <2>5 DEF p
<1>9. AreRows(qry, 0, rows)
  BY <1>7, <1>8 DEF AreRows
<1> QED
  BY <1>3, <1>4, <1>6, <1>7, <1>8, <1>9

\* The base rows that meet the filters are those of the table.
LEMMA BaseMatched ==
    ASSUME NEW db \in Databases, NEW qry \in Queries, NEW found \in Answers(db, Base, {}, Pushdown(qry, Base)),
           NEW rows, rows = [i \in DOMAIN found |-> Flat(db, qry, Base, found[i])]
    PROVE  AreRows(qry, 0, rows) /\ Matched(Mentioned(qry), rows, Whole(db, Base), FiltersAt(qry, 0))
<1> DEFINE table == db[Base]
           fs == FiltersAt(qry, 0)
           w == Whole(db, Base)
           A == Meeting(rows, fs)
           B == Meeting(w, fs)
<1>1. PICK at, P : /\ IsAnswer(table, {}, Pushdown(qry, Base), P)
                   /\ Listing(at, Len(rows), P, Upward) /\ AreRows(qry, 0, rows)
                   /\ \A x \in DOMAIN rows : at[x] \in P /\ Alike(Mentioned(qry), rows[x], w[at[x]])
  BY BaseIs
<1>2. Base \in Available(qry, Len(qry.joins))
  BY DEF Available
<1>3. DOMAIN table = 1 .. Len(table) /\ Len(table) \in Nat /\ DOMAIN w = DOMAIN table
  BY <1>2, SourceFacts, ListFacts DEF Whole
<1>4. DOMAIN rows = 1 .. Len(rows) /\ Len(rows) \in Nat /\ P \in SUBSET Nat /\ P \in SUBSET DOMAIN table
  BY <1>1, <1>3, ListFacts DEF AreRows, IsAnswer
<1>5. PICK h : Climbs(h, 1 .. Len(rows), P) /\ \A i \in 1 .. Len(rows) : h[i] = at[i]
  <2> DEFINE n == Len(rows)
  <2>1. Listing(at, n, P, Upward) /\ P \in SUBSET Nat
    BY <1>1, <1>4
  <2> HIDE DEF n
  <2>2. \E h : Climbs(h, 1 .. n, P) /\ n \in Nat /\ \A i \in 1 .. n : h[i] = at[i]
    BY <2>1, ListingClimbs
  <2> QED
    BY <2>2 DEF n
<1>6. \A f \in fs : f.field \in Mentioned(qry)
  BY FiltersAreMentioned
<1>7. \A x \in DOMAIN rows : h[x] \in P /\ Alike(Mentioned(qry), rows[x], w[h[x]])
  BY <1>1, <1>4, <1>5
<1>8. ASSUME NEW p \in B PROVE p \in P
  <2>1. p \in DOMAIN table /\ Meets(fs, w[p])
    BY <1>3 DEF Meeting
  <2>2. \A f \in Pushdown(qry, Base) : f \in fs
    BY BaseFilters
  <2>3. \A f \in DOMAIN w[p] : w[p][f] = table[p][f[2]]
    BY <1>2, <2>1, TableRow
  <2>4. AllHold(table[p], Pushdown(qry, Base))
    BY <2>1, <2>2, <2>3 DEF Meets, Evaluate, AllHold
  <2>5. Suits(table[p], {})
    BY DEF Suits
  <2> QED
    BY <1>1, <2>1, <2>4, <2>5 DEF IsAnswer
<1>9. ASSUME NEW x \in 1 .. Len(rows) PROVE x \in A <=> h[x] \in B
  <2>1. x \in DOMAIN rows /\ h[x] \in DOMAIN w /\ Alike(Mentioned(qry), rows[x], w[h[x]])
    BY <1>3, <1>4, <1>7
  <2> HIDE DEF fs, w
  <2>2. \A f \in fs : Evaluate(rows[x], f) <=> Evaluate(w[h[x]], f)
    BY <1>6, <2>1, AlikeReads
  <2> QED
    BY <2>1, <2>2 DEF Meeting, Meets
<1>10. A \subseteq 1 .. Len(rows)
  BY <1>4 DEF Meeting
<1>11. Parts(h, 1 .. Len(rows), P, A, B)
  BY <1>8, <1>9, <1>10 DEF Parts
<1> DEFINE g == [x \in A |-> h[x]]
<1> HIDE DEF A, B, fs, w
<1>12. Climbs(g, A, B)
  BY <1>5, <1>11, ClimbPart
<1>13. \A x \in A : Alike(Mentioned(qry), rows[x], w[g[x]])
  BY <1>4, <1>7, <1>10
<1> HIDE DEF g
<1>14. Match(Mentioned(qry), rows, w, fs, g)
  BY <1>12, <1>13 DEF Match, A, B
<1> QED
  BY <1>1, <1>14 DEF Matched, fs, w

-----------------------------------------------------------------------------
(* One more join *)

\* What the executor's join is, list by list.
ExecLists(rows, list, join) == [i \in DOMAIN rows |-> Joined(rows[i], MatchesOf(rows[i], list, join), join)]
RefLists(db, qry, rows, join) == [i \in DOMAIN rows |-> Joined(rows[i], RefMatches(db, qry, rows[i], join), join)]

\* A join of rows has rows.
LEMMA ExecStep ==
    ASSUME NEW db \in Databases, NEW qry \in Queries, NEW k, NEW join, IsJoin(qry, k, join),
           NEW rows, AreRows(qry, k - 1, rows), NEW list, NEW from, FetchedFrom(db, qry, join, rows, list, from)
    PROVE  /\ ApplyJoin(rows, list, join) = FlattenSeq(ExecLists(rows, list, join))
           /\ IsList(ExecLists(rows, list, join)) /\ DOMAIN ExecLists(rows, list, join) = DOMAIN rows
           /\ \A i \in DOMAIN rows : /\ ExecLists(rows, list, join)[i] = Joined(rows[i], MatchesOf(rows[i], list, join), join)
                                     /\ IsList(ExecLists(rows, list, join)[i])
                                     /\ AreMatches(qry, join, MatchesOf(rows[i], list, join))
           /\ AreRows(qry, k, ApplyJoin(rows, list, join))
<1> DEFINE matches == [i \in DOMAIN rows |-> MatchesOf(rows[i], list, join)]
           lists == ExecLists(rows, list, join)
<1>1. \A i \in DOMAIN rows : matches[i] = MatchesOf(rows[i], list, join)
  OBVIOUS
<1>2. lists = [i \in DOMAIN rows |-> Joined(rows[i], matches[i], join)]
  BY DEF ExecLists
<1>3. \A i \in DOMAIN rows : AreMatches(qry, join, MatchesOf(rows[i], list, join))
  BY MatchesArePlaced
<1>4. ApplyJoin(rows, list, join) = FlattenSeq(lists)
  BY DEF ApplyJoin, ExecLists
<1> HIDE DEF matches, lists
<1>5. \A i \in DOMAIN rows : AreMatches(qry, join, matches[i])
  BY <1>1, <1>3
<1>6. /\ IsList(lists) /\ DOMAIN lists = DOMAIN rows
      /\ \A i \in DOMAIN lists : lists[i] = Joined(rows[i], matches[i], join) /\ IsList(lists[i])
      /\ AreRows(qry, k, FlattenSeq(lists))
  BY <1>2, <1>5, JoinedRows
<1> QED
  BY <1>1, <1>3, <1>4, <1>6 DEF lists

\* So has the join it should be.
LEMMA RefStep ==
    ASSUME NEW db \in Databases, NEW qry \in Queries, NEW k, NEW join, IsJoin(qry, k, join),
           NEW rows, AreRows(qry, k - 1, rows)
    PROVE  /\ RefJoin(db, qry, rows, join) = FlattenSeq(RefLists(db, qry, rows, join))
           /\ IsList(RefLists(db, qry, rows, join)) /\ DOMAIN RefLists(db, qry, rows, join) = DOMAIN rows
           /\ \A i \in DOMAIN rows : /\ RefLists(db, qry, rows, join)[i] = Joined(rows[i], RefMatches(db, qry, rows[i], join), join)
                                     /\ IsList(RefLists(db, qry, rows, join)[i])
                                     /\ AreMatches(qry, join, RefMatches(db, qry, rows[i], join))
           /\ AreRows(qry, k, RefJoin(db, qry, rows, join))
<1> DEFINE matches == [i \in DOMAIN rows |-> RefMatches(db, qry, rows[i], join)]
           lists == RefLists(db, qry, rows, join)
<1>1. \A i \in DOMAIN rows : matches[i] = RefMatches(db, qry, rows[i], join)
  OBVIOUS
<1>2. lists = [i \in DOMAIN rows |-> Joined(rows[i], matches[i], join)]
  BY DEF RefLists
<1>3. \A i \in DOMAIN rows : AreMatches(qry, join, RefMatches(db, qry, rows[i], join))
  BY RefMatchesArePlaced
<1>4. RefJoin(db, qry, rows, join) = FlattenSeq(lists)
  BY DEF RefJoin, RefLists
<1> HIDE DEF matches, lists
<1>5. \A i \in DOMAIN rows : AreMatches(qry, join, matches[i])
  BY <1>1, <1>3
<1>6. /\ IsList(lists) /\ DOMAIN lists = DOMAIN rows
      /\ \A i \in DOMAIN lists : lists[i] = Joined(rows[i], matches[i], join) /\ IsList(lists[i])
      /\ AreRows(qry, k, FlattenSeq(lists))
  BY <1>2, <1>5, JoinedRows
<1> QED
  BY <1>1, <1>3, <1>4, <1>6 DEF lists

\* One more join, of rows that match, has rows that match.
LEMMA StepMatched ==
    ASSUME NEW db \in Databases, NEW qry \in Queries, RowsAreTold(db, qry), LeftKeysFree(qry),
           NEW k, NEW join, IsJoin(qry, k, join), NEW rows, AreRows(qry, k - 1, rows), NEW ref, AreRows(qry, k - 1, ref),
           Matched(Mentioned(qry), rows, ref, FiltersAt(qry, k - 1)),
           NEW list, NEW from, FetchedFrom(db, qry, join, rows, list, from)
    PROVE  Matched(Mentioned(qry), ApplyJoin(rows, list, join), RefJoin(db, qry, ref, join), FiltersAt(qry, k))
<1> DEFINE F == Mentioned(qry)
           gs == FiltersAt(qry, k - 1)
           fs == FiltersAt(qry, k)
           LX == ExecLists(rows, list, join)
           LY == RefLists(db, qry, ref, join)
           A == Meeting(rows, gs)
           B == Meeting(ref, gs)
           X(i) == MatchesOf(rows[i], list, join)
           Y(j) == RefMatches(db, qry, ref[j], join)
<1>1. PICK h : Match(F, rows, ref, gs, h)
  BY DEF Matched
<1>2. /\ ApplyJoin(rows, list, join) = FlattenSeq(LX) /\ IsList(LX) /\ DOMAIN LX = DOMAIN rows
      /\ \A i \in DOMAIN rows : LX[i] = Joined(rows[i], X(i), join) /\ IsList(LX[i]) /\ AreMatches(qry, join, X(i))
  BY ExecStep
<1>3. /\ RefJoin(db, qry, ref, join) = FlattenSeq(LY) /\ IsList(LY) /\ DOMAIN LY = DOMAIN ref
      /\ \A j \in DOMAIN ref : LY[j] = Joined(ref[j], Y(j), join) /\ IsList(LY[j]) /\ AreMatches(qry, join, Y(j))
  BY RefStep
<1>4. Climbs(h, A, B) /\ \A i \in A : Alike(F, rows[i], ref[h[i]])
  BY <1>1 DEF Match
<1>5. A \in SUBSET DOMAIN rows /\ B \in SUBSET DOMAIN ref /\ \A i \in A : h[i] \in B /\ Meets(gs, rows[i])
  BY <1>4 DEF Meeting, Climbs
<1> HIDE DEF LX, LY, X, Y
<1>6. ASSUME NEW i \in A PROVE Matched(F, LX[i], LY[h[i]], fs)
  <2> DEFINE row == rows[i]
             rel == ref[h[i]]
  <2>1. i \in DOMAIN rows /\ h[i] \in DOMAIN ref /\ Alike(F, row, rel) /\ Meets(gs, row)
    BY <1>4, <1>5
  <2>2. RowOk(qry, k - 1, row) /\ RowOk(qry, k - 1, rel)
    BY <2>1 DEF AreRows
  <2> HIDE DEF rel
  <2>3. \E G, g : /\ Finds(qry, join, MatchesOf(rows[i], list, join), RefMatches(db, qry, rel, join), G, g)
                  /\ LeftKeysFree(qry) /\ join.kind = "left" => G = DOMAIN MatchesOf(rows[i], list, join)
    BY <2>1, MatchesAreTold
  <2>4. PICK G, g : /\ Finds(qry, join, X(i), RefMatches(db, qry, rel, join), G, g)
                    /\ join.kind = "left" => G = DOMAIN X(i)
    BY <2>3 DEF X
  <2> HIDE DEF row
  <2>5. Matched(F, Joined(row, X(i), join), Joined(rel, RefMatches(db, qry, rel, join), join), fs)
    BY <2>1, <2>2, <2>4, JoinedMatched
  <2> QED
    BY <1>2, <1>3, <2>1, <2>5 DEF row, rel, Y
<1>7. ASSUME NEW i \in DOMAIN LX \ A PROVE Meeting(LX[i], fs) = {}
  <2>1. i \in DOMAIN rows /\ ~Meets(gs, rows[i]) /\ RowOk(qry, k - 1, rows[i])
    BY <1>2 DEF Meeting, AreRows
  <2>2. AreMatches(qry, join, X(i)) /\ LX[i] = Joined(rows[i], X(i), join)
    BY <1>2, <2>1
  <2> QED
    BY <2>1, <2>2, DoomedStays
<1>8. ASSUME NEW j \in DOMAIN LY \ B PROVE Meeting(LY[j], fs) = {}
  <2>1. j \in DOMAIN ref /\ ~Meets(gs, ref[j]) /\ RowOk(qry, k - 1, ref[j])
    BY <1>3 DEF Meeting, AreRows
  <2>2. AreMatches(qry, join, Y(j)) /\ LY[j] = Joined(ref[j], Y(j), join)
    BY <1>3, <2>1
  <2> QED
    BY <2>1, <2>2, DoomedStays
<1>9. (\A i \in DOMAIN LX : IsList(LX[i])) /\ (\A j \in DOMAIN LY : IsList(LY[j]))
  BY <1>2, <1>3
<1>10. A \in SUBSET DOMAIN LX /\ B \in SUBSET DOMAIN LY
  BY <1>2, <1>3, <1>5
<1> HIDE DEF A, B, F, fs, gs
<1>11. Matched(F, FlattenSeq(LX), FlattenSeq(LY), fs)
  BY <1>2, <1>3, <1>4, <1>6, <1>7, <1>8, <1>9, <1>10, FlattenMatched
<1> QED
  BY <1>2, <1>3, <1>11 DEF F, fs

-----------------------------------------------------------------------------
(* What is picked from lists that correspond *)

\* Two listings of places go together.
ListedAlike(at, m, bt, n, A, B, h) ==
    m = n /\ m \in Nat /\ \A i \in 1 .. m : at[i] \in A /\ bt[i] \in B /\ bt[i] = h[at[i]]

\* Places that correspond, upward, are listed alike.
LEMMA ClimbListing ==
    ASSUME NEW A \in SUBSET Nat, NEW B \in SUBSET Nat, NEW h, Climbs(h, A, B),
           NEW at, NEW m, Listing(at, m, A, Upward), NEW bt, NEW n, Listing(bt, n, B, Upward)
    PROVE  ListedAlike(at, m, bt, n, A, B, h)
<1> DEFINE ct == [i \in 1 .. m |-> h[at[i]]]
<1>1. m \in Nat /\ n \in Nat /\ \A i \in 1 .. m : at[i] \in A /\ ct[i] = h[at[i]] /\ ct[i] \in B
  BY DEF Listing, Climbs
<1>2. DOMAIN ct = 1 .. m
  OBVIOUS
<1> HIDE DEF ct
<1>3. ASSUME NEW y \in B PROVE \E i \in 1 .. m : ct[i] = y
  <2>1. PICK x \in A : h[x] = y
    BY DEF Climbs
  <2>2. PICK i \in 1 .. m : at[i] = x
    BY DEF Listing
  <2> QED
    BY <1>1, <2>1, <2>2
<1>4. ASSUME NEW i \in 1 .. m, NEW j \in 1 .. m, i < j PROVE <<ct[i], ct[j]>> \in Upward
  <2>1. at[i] \in Nat /\ at[j] \in Nat /\ <<at[i], at[j]>> \in Upward
    BY <1>1, <1>4 DEF Listing
  <2>2. at[i] < at[j]
    BY <2>1, OrdersSay
  <2>3. ct[i] < ct[j]
    BY <1>1, <2>2 DEF Climbs
  <2>4. ct[i] \in Nat /\ ct[j] \in Nat
    BY <1>1
  <2> QED
    BY <2>3, <2>4, OrdersSay
<1>5. Listing(ct, m, B, Upward)
  BY <1>1, <1>2, <1>3, <1>4 DEF Listing
<1>6. IsOrder(B, Upward) /\ B \subseteq B /\ \A x \in B, y \in B : <<y, x>> \in Upward => y \in B
  BY NumbersAreOrdered
<1>7. m <= n /\ \A i \in 1 .. m : ct[i] = bt[i]
  BY <1>5, <1>6, ListingsAgree
<1>8. n <= m
  BY <1>5, <1>6, ListingsAgree
<1>9. ASSUME NEW i \in 1 .. m PROVE at[i] \in A /\ bt[i] \in B /\ bt[i] = h[at[i]]
  <2>1. at[i] \in A /\ ct[i] \in B /\ ct[i] = h[at[i]]
    BY <1>1
  <2>2. ct[i] = bt[i]
    BY <1>7
  <2> QED
    BY <2>1, <2>2
<1>10. m \in Nat /\ n \in Nat /\ m <= n
  BY <1>1, <1>7
<1>11. m = n
  BY <1>8, <1>10
<1> QED
  BY <1>9, <1>10, <1>11 DEF ListedAlike

\* So what is picked from them agrees, if the rows do.
LEMMA PickedAlike ==
    ASSUME NEW F, NEW X, NEW Y, IsList(X), IsList(Y), NEW A \in SUBSET DOMAIN X, NEW B \in SUBSET DOMAIN Y,
           NEW h, Climbs(h, A, B), \A i \in A : Alike(F, X[i], Y[h[i]])
    PROVE  AlikeLists(F, PickAt(X, A), PickAt(Y, B))
<1> DEFINE P == PickAt(X, A)
           Q == PickAt(Y, B)
<1>1. DOMAIN X = 1 .. Len(X) /\ Len(X) \in Nat /\ DOMAIN Y = 1 .. Len(Y) /\ Len(Y) \in Nat
  BY ListFacts
<1>2. A \in SUBSET (1 .. Len(X)) /\ B \in SUBSET (1 .. Len(Y)) /\ A \in SUBSET Nat /\ B \in SUBSET Nat
  BY <1>1
<1>3. PICK at, m : Shows(P, at, m, X, A, Upward)
  BY <1>1, <1>2, PickAtIs
<1>4. PICK bt, n : Shows(Q, bt, n, Y, B, Upward)
  BY <1>1, <1>2, PickAtIs
<1> HIDE DEF P, Q
<1>5. /\ Listing(at, m, A, Upward) /\ IsList(P) /\ Len(P) = m /\ \A i \in 1 .. m : P[i] = X[at[i]]
      /\ Listing(bt, n, B, Upward) /\ IsList(Q) /\ Len(Q) = n /\ \A i \in 1 .. n : Q[i] = Y[bt[i]]
  BY <1>3, <1>4 DEF Shows
<1>6. m = n /\ m \in Nat /\ \A i \in 1 .. m : at[i] \in A /\ bt[i] \in B /\ bt[i] = h[at[i]]
  <2>1. A \in SUBSET Nat /\ B \in SUBSET Nat /\ Listing(at, m, A, Upward) /\ Listing(bt, n, B, Upward)
    BY <1>2, <1>5
  <2>2. ListedAlike(at, m, bt, n, A, B, h)
    BY <2>1, ClimbListing
  <2> QED
    BY <2>2 DEF ListedAlike
<1>7. \A i \in 1 .. m : Alike(F, P[i], Q[i])
  BY <1>5, <1>6
<1> QED
  BY <1>5, <1>6, <1>7 DEF AlikeLists, P, Q

\* Picking from what was picked.
LEMMA PickTwice ==
    ASSUME NEW X, IsList(X), NEW A \in SUBSET DOMAIN X, NEW Z, Z = PickAt(X, A), NEW Good
    PROVE  PickAt(Z, {i \in DOMAIN Z : Z[i] \in Good}) = PickAt(X, {i \in A : X[i] \in Good})
<1> DEFINE C == {i \in DOMAIN Z : Z[i] \in Good}
           D == {i \in A : X[i] \in Good}
           P == PickAt(Z, C)
           Q == PickAt(X, D)
<1>1. DOMAIN X = 1 .. Len(X) /\ Len(X) \in Nat
  BY ListFacts
<1>2. A \in SUBSET (1 .. Len(X)) /\ D \in SUBSET (1 .. Len(X)) /\ A \in SUBSET Nat /\ D \in SUBSET Nat
  BY <1>1
<1>3. PICK az, n : Shows(Z, az, n, X, A, Upward)
  BY <1>1, <1>2, PickAtIs
<1>4. Listing(az, n, A, Upward) /\ IsList(Z) /\ Len(Z) = n /\ \A i \in 1 .. n : Z[i] = X[az[i]] /\ az[i] \in A
  BY <1>3 DEF Shows, Listing
<1>5. DOMAIN Z = 1 .. n /\ n \in Nat
  BY <1>4, ListFacts
<1>6. PICK h : Climbs(h, 1 .. n, A) /\ \A i \in 1 .. n : h[i] = az[i]
  <2>1. Listing(az, n, A, Upward) /\ A \in SUBSET Nat
    BY <1>2, <1>4
  <2>2. \E h : Climbs(h, 1 .. n, A) /\ n \in Nat /\ \A i \in 1 .. n : h[i] = az[i]
    BY <2>1, ListingClimbs
  <2> QED
    BY <2>2
<1>7. C \subseteq 1 .. n /\ D \subseteq A /\ \A i \in 1 .. n : i \in C <=> h[i] \in D
  BY <1>4, <1>5, <1>6
<1>8. Parts(h, 1 .. n, A, C, D)
  BY <1>7 DEF Parts
<1> DEFINE g == [i \in C |-> h[i]]
<1>9. C \in SUBSET (1 .. n) /\ C \in SUBSET Nat
  BY <1>5
<1>10. PICK ct, l : Shows(P, ct, l, Z, C, Upward)
  BY <1>5, <1>9, PickAtIs
<1>11. PICK dt, m : Shows(Q, dt, m, X, D, Upward)
  BY <1>1, <1>2, PickAtIs
<1> HIDE DEF P, Q, C, D
<1>12. Climbs(g, C, D)
  BY <1>6, <1>8, ClimbPart
<1>13. \A i \in C : g[i] = h[i]
  OBVIOUS
<1> HIDE DEF g
<1>14. /\ Listing(ct, l, C, Upward) /\ IsList(P) /\ Len(P) = l /\ \A i \in 1 .. l : P[i] = Z[ct[i]]
       /\ Listing(dt, m, D, Upward) /\ IsList(Q) /\ Len(Q) = m /\ \A i \in 1 .. m : Q[i] = X[dt[i]]
  BY <1>10, <1>11 DEF Shows
<1>15. l = m /\ l \in Nat /\ \A i \in 1 .. l : ct[i] \in C /\ dt[i] \in D /\ dt[i] = g[ct[i]]
  <2>1. Listing(ct, l, C, Upward) /\ C \in SUBSET Nat
    BY <1>9, <1>14
  <2>2. Listing(dt, m, D, Upward) /\ D \in SUBSET Nat
    BY <1>2, <1>14
  <2>3. ListedAlike(ct, l, dt, m, C, D, g)
    BY <1>12, <2>1, <2>2, ClimbListing
  <2> QED
    BY <2>3 DEF ListedAlike
<1>16. \A i \in 1 .. l : P[i] = Q[i]
  <2> SUFFICES ASSUME NEW i \in 1 .. l PROVE P[i] = Q[i]
    OBVIOUS
  <2>1. ct[i] \in C /\ ct[i] \in 1 .. n /\ dt[i] = az[ct[i]]
    BY <1>6, <1>9, <1>13, <1>15
  <2> QED
    BY <1>4, <1>14, <1>15, <2>1
<1>17. P = Q
  BY <1>14, <1>15, <1>16, SameList
<1> QED
  BY <1>17 DEF P, Q, C, D

-----------------------------------------------------------------------------
(* What is left after the filters *)

\* The rows that pass.
Kept(qry, rows) == PickAt(rows, {i \in DOMAIN rows : RefPasses(qry, rows[i])})

\* Filters that all must hold.
LEMMA PassesIs ==
    ASSUME NEW fs, NEW row
    PROVE  Passes(row, fs, "And") <=> Meets(fs, row)
BY DEF Passes, Meets

\* The executor filters twice, by the list of filters and by their tree.
LEMMA LastFiltersAre ==
    ASSUME NEW qry, AllMustHold(qry), NEW rows, IsList(rows)
    PROVE  /\ LastFilters(qry, rows, FALSE) = Kept(qry, rows)
           /\ qry.tree = Absent => PassAt(rows, PostJoinFilters(qry), qry.op) = Kept(qry, rows)
<1> DEFINE fs == PostJoinFilters(qry)
           A == {i \in DOMAIN rows : Passes(rows[i], fs, qry.op)}
           C == {i \in DOMAIN rows : RefPasses(qry, rows[i])}
           Z == PickAt(rows, A)
<1>1. \A i \in DOMAIN rows : Passes(rows[i], fs, qry.op) <=> Meets(fs, rows[i])
  BY PassesIs DEF AllMustHold
<1>2. PassAt(rows, fs, qry.op) = Z
  BY DEF PassAt
<1>3. \A i \in DOMAIN rows : RefPasses(qry, rows[i]) <=> Meets(fs, rows[i]) /\ (qry.tree = Absent \/ PassesTree(rows[i], qry.tree))
  BY DEF RefPasses, Meets
<1>4. A \in SUBSET DOMAIN rows
  OBVIOUS
<1>5. Kept(qry, rows) = PickAt(rows, C)
  BY DEF Kept
<1>6. CASE qry.tree = Absent
  <2>1. A = C
    BY <1>1, <1>3, <1>6
  <2>2. LastFilters(qry, rows, FALSE) = Z
    BY <1>2, <1>6 DEF LastFilters
  <2> HIDE DEF A, C
  <2> QED
    BY <1>2, <1>5, <2>1, <2>2
<1>7. CASE qry.tree # Absent
  <2> DEFINE Good == {row \in Range(rows) \cup Range(Z) : PassesTree(row, qry.tree)}
  <2>1. LastFilters(qry, rows, FALSE) = PickAt(Z, {i \in DOMAIN Z : PassesTree(Z[i], qry.tree)})
    BY <1>2, <1>7 DEF LastFilters
  <2>2. \A i \in DOMAIN rows : rows[i] \in Good <=> PassesTree(rows[i], qry.tree)
    BY DEF Range
  <2>3. \A i \in DOMAIN Z : Z[i] \in Good <=> PassesTree(Z[i], qry.tree)
    BY DEF Range
  <2> HIDE DEF Z, Good, A, C
  <2>4. PickAt(Z, {i \in DOMAIN Z : Z[i] \in Good}) = PickAt(rows, {i \in A : rows[i] \in Good})
    <3>1. Z = PickAt(rows, A)
      BY DEF Z
    <3> QED
      BY <1>4, <3>1, PickTwice
  <2>5. {i \in DOMAIN Z : Z[i] \in Good} = {i \in DOMAIN Z : PassesTree(Z[i], qry.tree)}
    BY <2>3
  <2>6. {i \in A : rows[i] \in Good} = C
    BY <1>1, <1>3, <1>7, <2>2 DEF A, C
  <2> QED
    BY <1>5, <1>7, <2>1, <2>4, <2>5, <2>6
<1> QED
  BY <1>6, <1>7

\* Rows that agree pass alike.
LEMMA AlikePass ==
    ASSUME NEW qry \in Queries, NEW a, NEW b, Alike(Mentioned(qry), a, b)
    PROVE  RefPasses(qry, a) <=> RefPasses(qry, b)
<1>1. \A f \in PostJoinFilters(qry) : Evaluate(a, f) <=> Evaluate(b, f)
  BY FiltersAreMentioned, AlikeReads
<1>2. ASSUME qry.tree # Absent PROVE PassesTree(a, qry.tree) <=> PassesTree(b, qry.tree)
  <2>1. \A g \in qry.tree.groups : \A f \in g.filters : f.field \in Mentioned(qry)
    <3>1. \A g \in qry.tree.groups : \A f \in g.filters : f.field \in TreeFields(qry)
      BY <1>2 DEF TreeFields
    <3> QED
      BY <3>1, MentionedFacts
  <2>2. \A g \in qry.tree.groups : \A f \in g.filters : Evaluate(a, f) <=> Evaluate(b, f)
    BY <2>1, AlikeReads
  <2> QED
    BY <2>2 DEF PassesTree
<1>3. CASE qry.tree = Absent
  BY <1>1, <1>3 DEF RefPasses
<1>4. CASE qry.tree # Absent
  <2>1. PassesTree(a, qry.tree) <=> PassesTree(b, qry.tree)
    BY <1>2, <1>4
  <2> QED
    BY <1>1, <2>1 DEF RefPasses
<1> QED
  BY <1>3, <1>4

\* Of rows that match, those that pass agree.
LEMMA KeptAlike ==
    ASSUME NEW qry \in Queries, NEW k, NEW rows, NEW ref, IsList(rows), IsList(ref),
           Matched(Mentioned(qry), rows, ref, FiltersAt(qry, k))
    PROVE  AlikeLists(Mentioned(qry), Kept(qry, rows), Kept(qry, ref))
<1> DEFINE fs == FiltersAt(qry, k)
           A == Meeting(rows, fs)
           B == Meeting(ref, fs)
           C == {i \in DOMAIN rows : RefPasses(qry, rows[i])}
           D == {i \in DOMAIN ref : RefPasses(qry, ref[i])}
<1>1. PICK h : Match(Mentioned(qry), rows, ref, fs, h)
  BY DEF Matched
<1>2. Climbs(h, A, B) /\ \A i \in A : h[i] \in B /\ Alike(Mentioned(qry), rows[i], ref[h[i]])
  BY <1>1 DEF Match, Climbs
<1>3. \A row : RefPasses(qry, row) => Meets(fs, row)
  BY DEF RefPasses, Meets, FiltersAt
<1>4. C \subseteq A /\ D \subseteq B
  BY <1>3 DEF Meeting
<1>5. \A i \in A : i \in C <=> h[i] \in D
  <2> SUFFICES ASSUME NEW i \in A PROVE i \in C <=> h[i] \in D
    OBVIOUS
  <2>1. i \in DOMAIN rows /\ h[i] \in DOMAIN ref /\ Alike(Mentioned(qry), rows[i], ref[h[i]])
    BY <1>2 DEF Meeting
  <2>2. RefPasses(qry, rows[i]) <=> RefPasses(qry, ref[h[i]])
    BY <2>1, AlikePass
  <2> QED
    BY <2>1, <2>2
<1> HIDE DEF A, B, C, D
<1>6. Parts(h, A, B, C, D)
  BY <1>4, <1>5 DEF Parts
<1> DEFINE g == [i \in C |-> h[i]]
<1>7. Climbs(g, C, D)
  BY <1>2, <1>6, ClimbPart
<1>8. \A i \in C : g[i] = h[i] /\ Alike(Mentioned(qry), rows[i], ref[g[i]])
  BY <1>2, <1>4
<1>9. C \in SUBSET DOMAIN rows /\ D \in SUBSET DOMAIN ref
  BY DEF C, D
<1> HIDE DEF g
<1>10. AlikeLists(Mentioned(qry), PickAt(rows, C), PickAt(ref, D))
  BY <1>7, <1>8, <1>9, PickedAlike
<1> QED
  BY <1>10 DEF Kept, C, D

-----------------------------------------------------------------------------
(* The order of a page *)

\* What a row is sorted by, and which of two such goes first.
Mark(qry, row) == [k \in 1 .. Len(qry.order) |-> CellOr(row, qry.order[k].field)[1]]
Down(qry) == {k \in 1 .. Len(qry.order) : qry.order[k].desc}
FirstBy(a, b, k, down) == (k \in down /\ a[k] > b[k]) \/ (k \notin down /\ a[k] < b[k])
Ahead(a, b, n, down) == \E k \in 1 .. n : (\A j \in 1 .. k - 1 : a[j] = b[j]) /\ FirstBy(a, b, k, down)

\* Different marks differ first at some place.
LEMMA FirstDifference ==
    ASSUME NEW n \in Nat, NEW a \in [1 .. n -> Nat], NEW b \in [1 .. n -> Nat], a # b
    PROVE  \E k \in 1 .. n : a[k] # b[k] /\ \A j \in 1 .. k - 1 : a[j] = b[j]
<1> DEFINE S == {k \in 1 .. n : a[k] # b[k]}
<1>1. S \in SUBSET Nat /\ S # {}
  OBVIOUS
<1>2. PICK k \in S : \A j \in S : k <= j
  BY <1>1, LeastNat
<1>3. ASSUME NEW j \in 1 .. k - 1 PROVE a[j] = b[j]
  <2>1. k \in 1 .. n
    OBVIOUS
  <2>2. j \in 1 .. n /\ ~(k <= j)
    BY <2>1
  <2> QED
    BY <1>2, <2>2
<1> QED
  BY <1>3

\* It is an order of marks.
LEMMA AheadIs ==
    ASSUME NEW n \in Nat, NEW down, NEW a \in [1 .. n -> Nat], NEW b \in [1 .. n -> Nat], NEW c \in [1 .. n -> Nat]
    PROVE  /\ ~Ahead(a, a, n, down)
           /\ Ahead(a, b, n, down) => ~Ahead(b, a, n, down)
           /\ a # b => Ahead(a, b, n, down) \/ Ahead(b, a, n, down)
           /\ Ahead(a, b, n, down) /\ Ahead(b, c, n, down) => Ahead(a, c, n, down)
<1>1. \A k \in 1 .. n : a[k] \in Nat /\ b[k] \in Nat /\ c[k] \in Nat
  OBVIOUS
<1>2. ~Ahead(a, a, n, down)
  BY <1>1 DEF Ahead, FirstBy
<1>3. ASSUME Ahead(a, b, n, down), Ahead(b, a, n, down) PROVE FALSE
  <2>1. PICK k \in 1 .. n : (\A j \in 1 .. k - 1 : a[j] = b[j]) /\ FirstBy(a, b, k, down)
    BY <1>3 DEF Ahead
  <2>2. PICK l \in 1 .. n : (\A j \in 1 .. l - 1 : b[j] = a[j]) /\ FirstBy(b, a, l, down)
    BY <1>3 DEF Ahead
  <2>3. k < l => k \in 1 .. l - 1
    OBVIOUS
  <2>4. l < k => l \in 1 .. k - 1
    OBVIOUS
  <2>5. a[k] # b[k] /\ a[l] # b[l]
    BY <1>1, <2>1, <2>2 DEF FirstBy
  <2>6. k = l
    BY <2>1, <2>2, <2>3, <2>4, <2>5
  <2> QED
    BY <1>1, <2>1, <2>2, <2>6 DEF FirstBy
<1>4. ASSUME a # b PROVE Ahead(a, b, n, down) \/ Ahead(b, a, n, down)
  <2>1. PICK k \in 1 .. n : a[k] # b[k] /\ \A j \in 1 .. k - 1 : a[j] = b[j]
    BY <1>4, FirstDifference
  <2>2. FirstBy(a, b, k, down) \/ FirstBy(b, a, k, down)
    BY <1>1, <2>1 DEF FirstBy
  <2> QED
    BY <2>1, <2>2 DEF Ahead
<1>5. ASSUME Ahead(a, b, n, down), Ahead(b, c, n, down) PROVE Ahead(a, c, n, down)
  <2>1. PICK k \in 1 .. n : (\A j \in 1 .. k - 1 : a[j] = b[j]) /\ FirstBy(a, b, k, down)
    BY <1>5 DEF Ahead
  <2>2. PICK l \in 1 .. n : (\A j \in 1 .. l - 1 : b[j] = c[j]) /\ FirstBy(b, c, l, down)
    BY <1>5 DEF Ahead
  <2>3. CASE k < l
    <3>1. k \in 1 .. l - 1 /\ \A j \in 1 .. k - 1 : j \in 1 .. l - 1
      BY <2>3
    <3>2. (\A j \in 1 .. k - 1 : a[j] = c[j]) /\ FirstBy(a, c, k, down)
      BY <2>1, <2>2, <3>1 DEF FirstBy
    <3> QED
      BY <3>2 DEF Ahead
  <2>4. CASE l < k
    <3>1. l \in 1 .. k - 1 /\ \A j \in 1 .. l - 1 : j \in 1 .. k - 1
      BY <2>4
    <3>2. (\A j \in 1 .. l - 1 : a[j] = c[j]) /\ FirstBy(a, c, l, down)
      BY <2>1, <2>2, <3>1 DEF FirstBy
    <3> QED
      BY <3>2 DEF Ahead
  <2>5. CASE l = k
    <3>1. \A j \in 1 .. k - 1 : a[j] = c[j]
      BY <2>1, <2>2, <2>5
    <3>2. FirstBy(a, c, k, down)
      BY <1>1, <2>1, <2>2, <2>5 DEF FirstBy
    <3> QED
      BY <3>1, <3>2 DEF Ahead
  <2> QED
    BY <2>3, <2>4, <2>5
<1> QED
  BY <1>2, <1>3, <1>4, <1>5

\* Rows with marks: their cells are numbers.
LEMMA MarksAre ==
    ASSUME NEW qry \in Queries, NEW k, NEW row, RowOk(qry, k, row)
    PROVE  Mark(qry, row) \in [1 .. Len(qry.order) -> Nat]
<1>1. \A f : CellOr(row, f)[1] \in Nat
  BY DEF CellOr, EmptyCell, RowOk
<1> QED
  BY <1>1 DEF Mark

\* Which of two rows precedes the other is told by their marks.
LEMMA PrecedesIs ==
    ASSUME NEW qry \in Queries, NEW a, NEW b
    PROVE  Len(qry.order) \in Nat /\ (Precedes(qry, a, b) <=> Ahead(Mark(qry, a), Mark(qry, b), Len(qry.order), Down(qry)))
<1> DEFINE n == Len(qry.order)
           key(row, k) == CellOr(row, qry.order[k].field)[1]
           x == Mark(qry, a)
           y == Mark(qry, b)
<1>1. IsList(qry.order)
  BY QueriesAreQueries DEF IsQuery
<1>2. n \in Nat /\ DOMAIN qry.order = 1 .. n
  BY <1>1, ListFacts
<1>3. \A k \in 1 .. n : x[k] = key(a, k) /\ y[k] = key(b, k) /\ (k \in Down(qry) <=> qry.order[k].desc)
  BY DEF Mark, Down
<1>4. Precedes(qry, a, b) <=>
         \E k \in 1 .. n : /\ \A j \in 1 .. k - 1 : key(a, j) = key(b, j)
                           /\ IF qry.order[k].desc THEN key(a, k) > key(b, k) ELSE key(a, k) < key(b, k)
  BY <1>2 DEF Precedes
<1> HIDE DEF x, y, n, key
<1>5. ASSUME NEW k \in 1 .. n
      PROVE  ((\A j \in 1 .. k - 1 : key(a, j) = key(b, j)) <=> \A j \in 1 .. k - 1 : x[j] = y[j])
             /\ ((IF qry.order[k].desc THEN key(a, k) > key(b, k) ELSE key(a, k) < key(b, k)) <=> FirstBy(x, y, k, Down(qry)))
  <2>1. \A j \in 1 .. k - 1 : j \in 1 .. n
    BY <1>2
  <2>2. \A j \in 1 .. k - 1 : x[j] = key(a, j) /\ y[j] = key(b, j)
    BY <1>3, <2>1
  <2>3. (\A j \in 1 .. k - 1 : key(a, j) = key(b, j)) <=> \A j \in 1 .. k - 1 : x[j] = y[j]
    BY <2>2
  <2>4. x[k] = key(a, k) /\ y[k] = key(b, k) /\ (k \in Down(qry) <=> qry.order[k].desc)
    BY <1>3
  <2>5. (IF qry.order[k].desc THEN key(a, k) > key(b, k) ELSE key(a, k) < key(b, k)) <=> FirstBy(x, y, k, Down(qry))
    BY <2>4 DEF FirstBy
  <2> QED
    BY <2>3, <2>5
<1>6. Precedes(qry, a, b) <=> Ahead(x, y, n, Down(qry))
  BY <1>4, <1>5 DEF Ahead
<1> QED
  BY <1>2, <1>6 DEF x, y, n

\* Two listings of the same set in the same order.
SameListing(f, m, g, n) == m = n /\ m \in Nat /\ \A i \in 1 .. m : f[i] = g[i]

\* What is listed at each place is determined by the order.
LEMMA ListingIsUnique ==
    ASSUME NEW S, NEW order, IsOrder(S, order), NEW f, NEW m, Listing(f, m, S, order), NEW g, NEW n, Listing(g, n, S, order)
    PROVE  SameListing(f, m, g, n)
<1>1. S \subseteq S /\ \A x \in S, y \in S : <<y, x>> \in order => y \in S
  OBVIOUS
<1>2. m <= n /\ \A i \in 1 .. m : f[i] = g[i]
  BY <1>1, ListingsAgree
<1>3. n <= m
  BY <1>1, ListingsAgree
<1>4. m \in Nat /\ n \in Nat
  BY DEF Listing
<1>5. m = n
  BY <1>2, <1>3, <1>4
<1> QED
  BY <1>2, <1>4, <1>5 DEF SameListing

\* The order of a list of rows: by their marks, and by place among equals.
SortPairs(qry, rows) ==
    {p \in (DOMAIN rows) \X (DOMAIN rows) :
        \/ Precedes(qry, rows[p[1]], rows[p[2]])
        \/ ~Precedes(qry, rows[p[2]], rows[p[1]]) /\ p[1] < p[2]}

\* It compares marks, then places.
LEMMA SortPairsSay ==
    ASSUME NEW qry \in Queries, NEW k, NEW rows, AreRows(qry, k, rows), NEW p \in DOMAIN rows, NEW r \in DOMAIN rows
    PROVE  <<p, r>> \in SortPairs(qry, rows) <=>
              \/ Ahead(Mark(qry, rows[p]), Mark(qry, rows[r]), Len(qry.order), Down(qry))
              \/ Mark(qry, rows[p]) = Mark(qry, rows[r]) /\ p < r
<1> DEFINE n == Len(qry.order)
           a == Mark(qry, rows[p])
           b == Mark(qry, rows[r])
<1>1. RowOk(qry, k, rows[p]) /\ RowOk(qry, k, rows[r])
  BY DEF AreRows
<1>2. a \in [1 .. n -> Nat] /\ b \in [1 .. n -> Nat]
  BY <1>1, MarksAre
<1>3. /\ n \in Nat
      /\ Precedes(qry, rows[p], rows[r]) <=> Ahead(a, b, n, Down(qry))
      /\ Precedes(qry, rows[r], rows[p]) <=> Ahead(b, a, n, Down(qry))
  BY PrecedesIs
<1> HIDE DEF a, b, n
<1>4. /\ ~Ahead(a, a, n, Down(qry))
      /\ Ahead(a, b, n, Down(qry)) => ~Ahead(b, a, n, Down(qry))
      /\ a # b => Ahead(a, b, n, Down(qry)) \/ Ahead(b, a, n, Down(qry))
  BY <1>2, <1>3, AheadIs
<1>5. <<p, r>> \in SortPairs(qry, rows) <=>
         Precedes(qry, rows[p], rows[r]) \/ (~Precedes(qry, rows[r], rows[p]) /\ p < r)
  BY DEF SortPairs
<1>6. <<p, r>> \in SortPairs(qry, rows) <=> Ahead(a, b, n, Down(qry)) \/ (a = b /\ p < r)
  BY <1>3, <1>4, <1>5
<1> QED
  BY <1>6 DEF a, b, n

\* It is an order of the places.
LEMMA SortIsOrder ==
    ASSUME NEW qry \in Queries, NEW k, NEW rows, AreRows(qry, k, rows)
    PROVE  IsOrder(DOMAIN rows, SortPairs(qry, rows))
<1> DEFINE n == Len(qry.order)
           D == DOMAIN rows
           M(p) == Mark(qry, rows[p])
           R == SortPairs(qry, rows)
           less(p, r) == Ahead(M(p), M(r), n, Down(qry))
<1>1. D \in SUBSET Nat
  <2>1. D = 1 .. Len(rows)
    BY ListFacts DEF AreRows
  <2> QED
    BY <2>1
<1>2. \A p, r \in D : <<p, r>> \in R <=> less(p, r) \/ (M(p) = M(r) /\ p < r)
  BY SortPairsSay
<1>3. n \in Nat
  BY PrecedesIs
<1>4. \A p \in D : M(p) \in [1 .. n -> Nat]
  BY MarksAre DEF AreRows
<1>5. \A p, r, u \in D : /\ ~less(p, p) /\ (M(p) # M(r) => less(p, r) \/ less(r, p))
                         /\ less(p, r) /\ less(r, u) => less(p, u)
  <2> SUFFICES ASSUME NEW p \in D, NEW r \in D, NEW u \in D
               PROVE  /\ ~less(p, p) /\ (M(p) # M(r) => less(p, r) \/ less(r, p))
                      /\ less(p, r) /\ less(r, u) => less(p, u)
    OBVIOUS
  <2>1. M(p) \in [1 .. n -> Nat] /\ M(r) \in [1 .. n -> Nat] /\ M(u) \in [1 .. n -> Nat]
    BY <1>4
  <2> HIDE DEF M, n
  <2> QED
    BY <1>3, <2>1, AheadIs
<1>6. \A p, r, u \in D : /\ M(p) = M(r) /\ less(r, u) => less(p, u)
                         /\ less(p, r) /\ M(r) = M(u) => less(p, u)
  OBVIOUS
<1> HIDE DEF less, M, R
<1>7. \A p \in D : <<p, p>> \notin R
  BY <1>1, <1>2, <1>5
<1>8. \A p, r \in D : p # r => <<p, r>> \in R \/ <<r, p>> \in R
  BY <1>1, <1>2, <1>5
<1>9. ASSUME NEW p \in D, NEW r \in D, NEW u \in D, <<p, r>> \in R, <<r, u>> \in R PROVE <<p, u>> \in R
  <2>1. p \in Nat /\ r \in Nat /\ u \in Nat
    BY <1>1
  <2>2. (less(p, r) \/ (M(p) = M(r) /\ p < r)) /\ (less(r, u) \/ (M(r) = M(u) /\ r < u))
    BY <1>2, <1>9
  <2>3. less(p, u) \/ (M(p) = M(u) /\ p < u)
    BY <1>5, <1>6, <2>1, <2>2
  <2> QED
    BY <1>2, <2>3
<1> QED
  BY <1>7, <1>8, <1>9 DEF IsOrder, R

\* A sorted list shows the rows in that order.
LEMMA SortedIs ==
    ASSUME NEW qry \in Queries, NEW k, NEW rows, AreRows(qry, k, rows)
    PROVE  \E at : Shows(Sorted(qry, rows), at, Len(rows), rows, DOMAIN rows, SortPairs(qry, rows))
<1>1. Len(rows) \in Nat /\ DOMAIN rows = 1 .. Len(rows)
  BY ListFacts DEF AreRows
<1>2. IsFiniteSet(DOMAIN rows) /\ Cardinality(DOMAIN rows) = Len(rows)
  <2> DEFINE n == Len(rows)
  <2>1. n \in Nat
    BY <1>1
  <2> HIDE DEF n
  <2>2. IsFiniteSet(1 .. n) /\ Cardinality(1 .. n) = IF 1 > n THEN 0 ELSE n - 1 + 1
    BY <2>1, FS_Interval
  <2>3. Cardinality(1 .. n) = n
    BY <2>1, <2>2
  <2> QED
    BY <1>1, <2>2, <2>3 DEF n
<1>3. Sorted(qry, rows) = Arranged(rows, DOMAIN rows, SortPairs(qry, rows))
  BY DEF Sorted, SortPairs
<1>4. PICK at, n : Shows(Sorted(qry, rows), at, n, rows, DOMAIN rows, SortPairs(qry, rows))
  <2> DEFINE S == DOMAIN rows
             R == SortPairs(qry, rows)
  <2>1. IsFiniteSet(S) /\ IsOrder(S, R)
    BY <1>2, SortIsOrder
  <2> HIDE DEF S, R
  <2>2. \E at, n : Shows(Arranged(rows, S, R), at, n, rows, S, R)
    BY <2>1, ArrangedIs
  <2> QED
    BY <1>3, <2>2 DEF S, R
<1>5. n = Len(rows)
  BY <1>2, <1>4 DEF Shows
<1> QED
  BY <1>4, <1>5

\* A part of a list.
Slice(part, f, a, b) ==
    /\ IsList(part) /\ Len(part) = (IF a < b THEN b - a ELSE 0)
    /\ \A i \in 1 .. Len(part) : a + i \in 1 .. b /\ part[i] = f[a + i]

\* SubSeq cuts one.
LEMMA SliceIs ==
    ASSUME NEW f, IsList(f), NEW a \in Nat, NEW b \in Nat, b <= Len(f)
    PROVE  Slice(SubSeq(f, a + 1, b), f, a, b)
<1> DEFINE part == SubSeq(f, a + 1, b)
           n == IF a < b THEN b - a ELSE 0
<1>1. DOMAIN f = 1 .. Len(f) /\ Len(f) \in Nat
  BY ListFacts
<1>2. \A i \in a + 1 .. b : f[i] \in Range(f)
  <2> SUFFICES ASSUME NEW i \in a + 1 .. b PROVE f[i] \in Range(f)
    OBVIOUS
  <2>1. i \in DOMAIN f
    BY <1>1
  <2> QED
    BY <2>1 DEF Range
<1>3. a + 1 \in Int /\ b \in Int /\ n \in Nat
  OBVIOUS
<1>4. /\ part \in Seq(Range(f)) /\ Len(part) = (IF a + 1 <= b THEN b - (a + 1) + 1 ELSE 0)
      /\ \A i \in 1 .. b - (a + 1) + 1 : part[i] = f[a + 1 + i - 1]
  BY <1>2, <1>3, SubSeqProperties
<1> HIDE DEF part
<1>5. Len(part) = n
  BY <1>4
<1>6. \A i \in 1 .. n : a + i \in 1 .. b /\ a + 1 + i - 1 = a + i /\ i \in 1 .. b - (a + 1) + 1
  OBVIOUS
<1>7. DOMAIN part = 1 .. n /\ part = [i \in 1 .. n |-> part[i]]
  BY <1>4, <1>5
<1>8. IsList(part)
  BY <1>3, <1>7, LenIs
<1>9. \A i \in 1 .. n : part[i] = f[a + i]
  BY <1>4, <1>6
<1> QED
  BY <1>5, <1>6, <1>8, <1>9 DEF Slice, part

\* Rows that agree are sorted alike.
LEMMA SortedAlike ==
    ASSUME NEW qry \in Queries, NEW k, NEW X, NEW Y, AreRows(qry, k, X), AreRows(qry, k, Y),
           AlikeLists(Mentioned(qry), X, Y)
    PROVE  AlikeLists(Mentioned(qry), Sorted(qry, X), Sorted(qry, Y))
<1> DEFINE D == DOMAIN X
           R == SortPairs(qry, X)
<1>1. DOMAIN Y = D /\ Len(X) = Len(Y) /\ D = 1 .. Len(X)
  BY ListFacts DEF AlikeLists
<1>2. IsList(qry.order)
  BY QueriesAreQueries DEF IsQuery
<1>3. ASSUME NEW i \in D PROVE Mark(qry, X[i]) = Mark(qry, Y[i])
  <2>1. Alike(Mentioned(qry), X[i], Y[i])
    BY <1>1 DEF AlikeLists
  <2>2. \A l \in 1 .. Len(qry.order) : qry.order[l].field \in Mentioned(qry)
    <3>1. DOMAIN qry.order = 1 .. Len(qry.order)
      BY <1>2, ListFacts
    <3>2. \A l \in 1 .. Len(qry.order) : qry.order[l] \in Range(qry.order)
      BY <3>1 DEF Range
    <3> QED
      BY <3>2, MentionedFacts
  <2>3. \A l \in 1 .. Len(qry.order) : CellOr(X[i], qry.order[l].field)[1] = CellOr(Y[i], qry.order[l].field)[1]
    BY <2>1, <2>2, AlikeReads
  <2> QED
    BY <2>3 DEF Mark
<1>4. \A i, j \in D : Precedes(qry, X[i], X[j]) <=> Precedes(qry, Y[i], Y[j])
  BY <1>3, PrecedesIs
<1>5. SortPairs(qry, Y) = R
  BY <1>1, <1>4 DEF SortPairs
<1>6. PICK at : Shows(Sorted(qry, X), at, Len(X), X, D, R)
  BY SortedIs
<1>7. PICK bt : Shows(Sorted(qry, Y), bt, Len(X), Y, D, R)
  <2>1. \E bt : Shows(Sorted(qry, Y), bt, Len(Y), Y, DOMAIN Y, SortPairs(qry, Y))
    BY SortedIs
  <2> QED
    BY <1>1, <1>5, <2>1
<1>8. IsOrder(D, R)
  BY SortIsOrder
<1> HIDE DEF D, R
<1>9. SameListing(at, Len(X), bt, Len(X))
  BY <1>6, <1>7, <1>8, ListingIsUnique DEF Shows
<1>10. \A i \in 1 .. Len(X) : at[i] \in D /\ Alike(Mentioned(qry), X[at[i]], Y[at[i]])
  BY <1>1, <1>6 DEF Shows, Listing, AlikeLists
<1> QED
  BY <1>6, <1>7, <1>9, <1>10 DEF Shows, SameListing, AlikeLists

\* Lists that agree have pages that agree.
LEMMA PageAlike ==
    ASSUME NEW qry \in Queries, NEW F, NEW X, NEW Y, AlikeLists(F, X, Y)
    PROVE  AlikeLists(F, Page(qry, X), Page(qry, Y))
<1> DEFINE n == Len(X)
           a == Min({qry.offset, n})
           b == Min({qry.offset + qry.limit, n})
<1>1. qry.offset \in Nat /\ qry.limit \in Nat
  BY QueriesAreQueries DEF IsQuery
<1>2. n \in Nat /\ n = Len(Y) /\ IsList(X) /\ IsList(Y)
  BY ListFacts DEF AlikeLists
<1>3. a \in Nat /\ b \in Nat /\ b <= n
  <2> HIDE DEF n
  <2> DEFINE o == qry.offset
             e == qry.offset + qry.limit
  <2>1. o \in Nat /\ e \in Nat
    BY <1>1
  <2> HIDE DEF o, e
  <2>2. Min({o, n}) = (IF o <= n THEN o ELSE n) /\ Min({e, n}) = IF e <= n THEN e ELSE n
    BY <1>2, <2>1, MinOfTwo
  <2>3. Min({o, n}) \in Nat /\ Min({e, n}) \in Nat /\ Min({e, n}) <= n
    BY <1>2, <2>1, <2>2
  <2> QED
    BY <2>3 DEF o, e
<1>4. CASE qry.limit = 0
  <2>1. Page(qry, X) = <<>> /\ Page(qry, Y) = <<>>
    BY <1>4 DEF Page
  <2>2. IsList(<<>>) /\ Len(<<>>) = 0
    BY DEF IsList
  <2> QED
    BY <2>1, <2>2 DEF AlikeLists
<1>5. CASE qry.limit # 0
  <2>1. Page(qry, X) = SubSeq(X, a + 1, b) /\ Page(qry, Y) = SubSeq(Y, a + 1, b)
    BY <1>2, <1>5 DEF Page
  <2> HIDE DEF a, b
  <2>2. Slice(Page(qry, X), X, a, b) /\ Slice(Page(qry, Y), Y, a, b)
    BY <1>2, <1>3, <2>1, SliceIs
  <2>3. \A i \in 1 .. b : i \in 1 .. n
    BY <1>2, <1>3
  <2>4. \A i \in 1 .. n : Alike(F, X[i], Y[i])
    BY DEF AlikeLists
  <2>5. \A i \in 1 .. Len(Page(qry, X)) : Alike(F, Page(qry, X)[i], Page(qry, Y)[i])
    BY <2>2, <2>3, <2>4 DEF Slice
  <2> QED
    BY <2>2, <2>5 DEF AlikeLists, Slice
<1> QED
  BY <1>4, <1>5

\* They are shown and aggregated alike.
LEMMA ShownAlike ==
    ASSUME NEW qry \in Queries, NEW X, NEW Y, AlikeLists(Mentioned(qry), X, Y)
    PROVE  /\ Projected(qry, X) = Projected(qry, Y)
           /\ qry.agg # Absent => Aggregate(X, qry.agg) = Aggregate(Y, qry.agg)
<1>1. DOMAIN X = DOMAIN Y /\ DOMAIN X = 1 .. Len(X)
  BY ListFacts DEF AlikeLists
<1>2. \A i \in DOMAIN X : \A f \in Mentioned(qry) : CellOr(X[i], f) = CellOr(Y[i], f)
  BY <1>1, AlikeReads DEF AlikeLists
<1>3. Projected(qry, X) = Projected(qry, Y)
  <2>1. \A i \in DOMAIN X : [f \in qry.select |-> CellOr(X[i], f)] = [f \in qry.select |-> CellOr(Y[i], f)]
    BY <1>2, MentionedFacts
  <2> QED
    BY <1>1, <2>1 DEF Projected
<1>4. ASSUME qry.agg # Absent PROVE Aggregate(X, qry.agg) = Aggregate(Y, qry.agg)
  <2>1. qry.agg.field \in Mentioned(qry) /\ qry.agg.group \in Mentioned(qry)
    BY <1>4, MentionedFacts
  <2>2. CellsOf(X, qry.agg.group) = CellsOf(Y, qry.agg.group)
    BY <1>1, <1>2, <2>1 DEF CellsOf
  <2>3. CellsOf(X, qry.agg.field) = CellsOf(Y, qry.agg.field)
    BY <1>1, <1>2, <2>1 DEF CellsOf
  <2> QED
    BY <2>2, <2>3 DEF Aggregate
<1> QED
  BY <1>3, <1>4

-----------------------------------------------------------------------------
(* Arranging before and after a join *)

\* The places x of a chain that come of the lists S, and an order of them that is the
\* order of the lists and, within a list, its own.
ComesOf(X, bt, S) == {x \in DOMAIN X : bt[x][1] \in S}
OrderedBy(T, bt, order, wide) ==
    \A x, y \in T : <<x, y>> \in wide <=>
        <<bt[x][1], bt[y][1]>> \in order \/ (bt[x][1] = bt[y][1] /\ bt[x][2] < bt[y][2])

\* A chain of arranged lists is the arranged chain.
LEMMA ChainArranged ==
    ASSUME NEW L, IsList(L), \A i \in DOMAIN L : IsList(L[i]), NEW bt, Chains(FlattenSeq(L), bt, L, Len(L)),
           NEW S \in SUBSET DOMAIN L, NEW order, IsOrder(S, order), NEW at, NEW n, Listing(at, n, S, order),
           NEW wide, NEW T, T = ComesOf(FlattenSeq(L), bt, S), IsOrder(T, wide), OrderedBy(T, bt, order, wide),
           NEW a, NEW dt, NEW m, Shows(a, dt, m, FlattenSeq(L), T, wide),
           NEW V, IsList(V), Len(V) = n, \A i \in 1 .. n : V[i] = L[at[i]]
    PROVE  a = FlattenSeq(V)
<1> DEFINE X == FlattenSeq(L)
           Y == FlattenSeq(V)
<1>1. DOMAIN L = 1 .. Len(L) /\ Len(L) \in Nat /\ n \in Nat /\ DOMAIN V = 1 .. n
  BY ListFacts DEF Listing
<1>2. \A i \in 1 .. n : at[i] \in S /\ at[i] \in DOMAIN L /\ V[i] = L[at[i]]
  BY DEF Listing
<1>3. \A i \in DOMAIN V : IsList(V[i])
  BY <1>1, <1>2
<1>4. PICK ct : Chains(Y, ct, V, Len(V))
  BY <1>3, FlattenIs
<1>5. /\ IsList(X) /\ Listing(bt, Len(X), Spots(L, Len(L)), PairOrder)
      /\ \A x \in 1 .. Len(X) : X[x] = L[bt[x][1]][bt[x][2]]
  BY DEF Chains
<1> HIDE DEF Y
<1>6. /\ IsList(Y) /\ Listing(ct, Len(Y), Spots(V, n), PairOrder)
      /\ \A y \in 1 .. Len(Y) : Y[y] = V[ct[y][1]][ct[y][2]]
  BY <1>4 DEF Chains
<1>7. T = {x \in DOMAIN X : bt[x][1] \in S}
  BY DEF ComesOf
<1> HIDE DEF X
<1>8. DOMAIN X = 1 .. Len(X) /\ Len(X) \in Nat /\ DOMAIN Y = 1 .. Len(Y) /\ Len(Y) \in Nat
  BY <1>5, <1>6, ListFacts
<1> DEFINE spot(y) == <<at[ct[y][1]], ct[y][2]>>
<1>9. ASSUME NEW y \in 1 .. Len(Y)
      PROVE  /\ ct[y] \in Nat \X Nat /\ ct[y][1] \in 1 .. n /\ at[ct[y][1]] \in S
             /\ spot(y) \in Spots(L, Len(L)) /\ Y[y] = L[spot(y)[1]][spot(y)[2]]
  <2>1. ct[y] \in Spots(V, n)
    BY <1>6 DEF Listing
  <2>2. ct[y] \in Nat \X Nat /\ ct[y][1] \in 1 .. n /\ ct[y][2] \in DOMAIN V[ct[y][1]] /\ ct[y][2] \in Nat
    BY <2>1 DEF Spots
  <2>3. at[ct[y][1]] \in S /\ at[ct[y][1]] \in 1 .. Len(L) /\ V[ct[y][1]] = L[at[ct[y][1]]]
    BY <1>1, <1>2, <2>2
  <2>4. spot(y)[1] = at[ct[y][1]] /\ spot(y)[2] = ct[y][2] /\ spot(y) \in Nat \X Nat
    BY <2>2, <2>3
  <2> HIDE DEF spot
  <2>5. spot(y) \in Spots(L, Len(L))
    BY <2>2, <2>3, <2>4 DEF Spots
  <2> QED
    BY <1>6, <2>2, <2>3, <2>4, <2>5 DEF spot
<1>10. \A y \in 1 .. Len(Y) : spot(y)[1] = at[ct[y][1]] /\ spot(y)[2] = ct[y][2]
  OBVIOUS
<1> HIDE DEF spot
<1>11. \A y \in 1 .. Len(Y) : \E x \in 1 .. Len(X) : bt[x] = spot(y)
  BY <1>5, <1>9 DEF Listing
<1> DEFINE e == [y \in 1 .. Len(Y) |-> CHOOSE x \in 1 .. Len(X) : bt[x] = spot(y)]
<1>12. \A y \in 1 .. Len(Y) : e[y] \in 1 .. Len(X) /\ bt[e[y]] = spot(y)
  BY <1>11
<1>13. DOMAIN e = 1 .. Len(Y)
  OBVIOUS
<1> HIDE DEF e
<1>14. \A y \in 1 .. Len(Y) : e[y] \in T /\ X[e[y]] = Y[y]
  <2> SUFFICES ASSUME NEW y \in 1 .. Len(Y) PROVE e[y] \in T /\ X[e[y]] = Y[y]
    OBVIOUS
  <2>1. e[y] \in 1 .. Len(X) /\ bt[e[y]] = spot(y)
    BY <1>12
  <2>2. X[e[y]] = Y[y]
    BY <1>5, <1>9, <2>1
  <2>3. spot(y)[1] \in S
    BY <1>9, <1>10
  <2> QED
    BY <1>7, <1>8, <2>1, <2>2, <2>3
<1>15. IsOrder(Spots(L, Len(L)), PairOrder)
  <2>1. Spots(L, Len(L)) \in SUBSET (Nat \X Nat)
    BY DEF Spots
  <2> QED
    BY <2>1, PairsAreOrdered
<1>16. \A x, z \in 1 .. Len(X) : (bt[x] = bt[z] => x = z) /\ (<<bt[x], bt[z]>> \in PairOrder => x < z)
  BY <1>5, <1>15, ListingIsInjective
<1>17. ASSUME NEW x \in T PROVE \E y \in 1 .. Len(Y) : e[y] = x
  <2>1. x \in 1 .. Len(X) /\ bt[x][1] \in S
    BY <1>7, <1>8
  <2>2. bt[x] \in Spots(L, Len(L))
    BY <1>5, <2>1 DEF Listing
  <2>3. bt[x] = <<bt[x][1], bt[x][2]>> /\ bt[x][2] \in DOMAIN L[bt[x][1]] /\ bt[x][2] \in Nat
    BY <2>2 DEF Spots
  <2>4. PICK i \in 1 .. n : at[i] = bt[x][1]
    BY <2>1 DEF Listing
  <2>5. i \in Nat /\ bt[x][2] \in DOMAIN V[i]
    BY <1>1, <1>2, <2>3, <2>4
  <2>6. <<i, bt[x][2]>> \in Spots(V, n)
    BY <2>3, <2>5 DEF Spots
  <2>7. PICK y \in 1 .. Len(Y) : ct[y] = <<i, bt[x][2]>>
    BY <1>6, <2>6 DEF Listing
  <2>8. spot(y) = bt[x]
    BY <2>3, <2>4, <2>7 DEF spot
  <2>9. e[y] \in 1 .. Len(X) /\ bt[e[y]] = bt[x]
    BY <1>12, <2>8
  <2>10. e[y] = x
    BY <1>16, <2>1, <2>9
  <2> QED
    BY <2>10
<1>18. ASSUME NEW y \in 1 .. Len(Y), NEW z \in 1 .. Len(Y), y < z PROVE <<e[y], e[z]>> \in wide
  <2>1. <<ct[y], ct[z]>> \in PairOrder
    BY <1>6, <1>18 DEF Listing
  <2>2. ct[y] \in Nat \X Nat /\ ct[z] \in Nat \X Nat /\ ct[y][1] \in 1 .. n /\ ct[z][1] \in 1 .. n
    BY <1>9
  <2>3. ct[y][1] < ct[z][1] \/ (ct[y][1] = ct[z][1] /\ ct[y][2] < ct[z][2])
    BY <2>1, <2>2, OrdersSay
  <2>4. ct[y][1] < ct[z][1] => <<at[ct[y][1]], at[ct[z][1]]>> \in order
    BY <2>2 DEF Listing
  <2>5. /\ bt[e[y]][1] = at[ct[y][1]] /\ bt[e[y]][2] = ct[y][2] /\ bt[e[z]][1] = at[ct[z][1]] /\ bt[e[z]][2] = ct[z][2]
        /\ e[y] \in T /\ e[z] \in T
    BY <1>10, <1>12, <1>14
  <2>6. <<bt[e[y]][1], bt[e[z]][1]>> \in order \/ (bt[e[y]][1] = bt[e[z]][1] /\ bt[e[y]][2] < bt[e[z]][2])
    BY <2>3, <2>4, <2>5
  <2> QED
    BY <2>5, <2>6 DEF OrderedBy
<1>19. Listing(e, Len(Y), T, wide)
  BY <1>8, <1>13, <1>14, <1>17, <1>18 DEF Listing
<1>20. Listing(dt, m, T, wide) /\ IsList(a) /\ Len(a) = m /\ \A i \in 1 .. m : a[i] = X[dt[i]]
  BY DEF Shows, X
<1>21. SameListing(e, Len(Y), dt, m)
  BY <1>19, <1>20, ListingIsUnique
<1>22. Len(a) = Len(Y) /\ \A i \in 1 .. Len(a) : a[i] = Y[i]
  BY <1>14, <1>20, <1>21 DEF SameListing
<1>23. a = Y
  BY <1>6, <1>20, <1>22, SameList
<1> QED
  BY <1>23 DEF Y

\* The numbers up to n are n.
LEMMA CountTo ==
    ASSUME NEW n \in Nat
    PROVE  IsFiniteSet(1 .. n) /\ Cardinality(1 .. n) = n
<1>1. 1 \in Int /\ n \in Int
  OBVIOUS
<1>2. IsFiniteSet(1 .. n) /\ Cardinality(1 .. n) = (IF 1 > n THEN 0 ELSE n - 1 + 1)
  BY <1>1, FS_Interval
<1> QED
  BY <1>2

\* What is picked from rows is rows, each of them one of those.
LEMMA PickedRows ==
    ASSUME NEW qry, NEW k, NEW rows, AreRows(qry, k, rows), NEW A \in SUBSET DOMAIN rows
    PROVE  /\ AreRows(qry, k, PickAt(rows, A))
           /\ \A i \in DOMAIN PickAt(rows, A) : \E j \in A : PickAt(rows, A)[i] = rows[j]
           /\ \A j \in A : \E i \in DOMAIN PickAt(rows, A) : PickAt(rows, A)[i] = rows[j]
           /\ Len(PickAt(rows, A)) = Cardinality(A)
<1> DEFINE P == PickAt(rows, A)
<1>1. IsList(rows) /\ DOMAIN rows = 1 .. Len(rows) /\ Len(rows) \in Nat
  BY ListFacts DEF AreRows
<1>2. \E at, n : Shows(PickAt(rows, A), at, n, rows, A, Upward)
  BY <1>1, PickAtIs
<1>3. PICK at, n : Shows(P, at, n, rows, A, Upward)
  BY <1>2
<1> HIDE DEF P
<1>4. IsList(P) /\ Len(P) = n /\ n = Cardinality(A) /\ \A i \in 1 .. n : P[i] = rows[at[i]] /\ at[i] \in A
  BY <1>3 DEF Shows, Listing
<1>5. DOMAIN P = 1 .. n
  BY <1>4, ListFacts
<1>6. \A j \in A : \E i \in 1 .. n : at[i] = j
  BY <1>3 DEF Shows, Listing
<1>7. AreRows(qry, k, P)
  BY <1>4, <1>5 DEF AreRows
<1>8. \A j \in A : \E i \in DOMAIN P : P[i] = rows[j]
  BY <1>4, <1>5, <1>6
<1> QED
  BY <1>4, <1>5, <1>7, <1>8 DEF P

\* So is what is left of them after the filters ...
LEMMA KeptRows ==
    ASSUME NEW qry, NEW k, NEW rows, AreRows(qry, k, rows)
    PROVE  /\ AreRows(qry, k, Kept(qry, rows))
           /\ \A i \in DOMAIN Kept(qry, rows) : RefPasses(qry, Kept(qry, rows)[i])
           /\ \A i \in DOMAIN Kept(qry, rows) : Kept(qry, rows)[i] \in Range(rows)
           /\ \A j \in DOMAIN rows : RefPasses(qry, rows[j]) => rows[j] \in Range(Kept(qry, rows))
           /\ Len(Kept(qry, rows)) <= Len(rows)
<1> DEFINE A == {i \in DOMAIN rows : RefPasses(qry, rows[i])}
           P == Kept(qry, rows)
<1>1. A \in SUBSET DOMAIN rows
  OBVIOUS
<1>2. \A j \in A : RefPasses(qry, rows[j]) /\ rows[j] \in Range(rows)
  BY DEF Range
<1>3. P = PickAt(rows, A)
  BY DEF Kept
<1>4. \A j \in DOMAIN rows : RefPasses(qry, rows[j]) => j \in A
  OBVIOUS
<1> HIDE DEF A, P
<1>5. /\ AreRows(qry, k, P) /\ Len(P) = Cardinality(A)
      /\ \A i \in DOMAIN P : \E j \in A : P[i] = rows[j]
      /\ \A j \in A : \E i \in DOMAIN P : P[i] = rows[j]
  BY <1>1, <1>3, PickedRows
<1>6. \A j \in DOMAIN rows : RefPasses(qry, rows[j]) => rows[j] \in Range(P)
  BY <1>4, <1>5 DEF Range
<1>7. Cardinality(A) <= Len(rows)
  <2>1. DOMAIN rows = 1 .. Len(rows) /\ Len(rows) \in Nat
    BY ListFacts DEF AreRows
  <2>2. IsFiniteSet(1 .. Len(rows)) /\ Cardinality(1 .. Len(rows)) = Len(rows)
    BY <2>1, CountTo
  <2> QED
    BY <1>1, <2>1, <2>2, FS_Subset
<1> QED
  BY <1>2, <1>5, <1>6, <1>7 DEF P

\* ... and what is sorted, which has them all.
LEMMA SortedRows ==
    ASSUME NEW qry \in Queries, NEW k, NEW rows, AreRows(qry, k, rows)
    PROVE  /\ AreRows(qry, k, Sorted(qry, rows)) /\ Len(Sorted(qry, rows)) = Len(rows)
           /\ Range(Sorted(qry, rows)) = Range(rows)
<1> DEFINE Z == Sorted(qry, rows)
<1>1. \E at : Shows(Sorted(qry, rows), at, Len(rows), rows, DOMAIN rows, SortPairs(qry, rows))
  BY SortedIs
<1>2. PICK at : Shows(Z, at, Len(rows), rows, DOMAIN rows, SortPairs(qry, rows))
  BY <1>1
<1> HIDE DEF Z
<1>3. IsList(rows) /\ DOMAIN rows = 1 .. Len(rows)
  BY ListFacts DEF AreRows
<1>4. /\ IsList(Z) /\ Len(Z) = Len(rows)
      /\ \A i \in 1 .. Len(rows) : Z[i] = rows[at[i]] /\ at[i] \in DOMAIN rows
      /\ \A j \in DOMAIN rows : \E i \in 1 .. Len(rows) : at[i] = j
  BY <1>2 DEF Shows, Listing
<1>5. DOMAIN Z = 1 .. Len(rows)
  BY <1>4, ListFacts
<1>6. AreRows(qry, k, Z)
  BY <1>4, <1>5 DEF AreRows
<1>7. \A i \in DOMAIN Z : Z[i] \in Range(rows)
  BY <1>4, <1>5 DEF Range
<1>8. \A j \in DOMAIN rows : rows[j] \in Range(Z)
  <2>1. \A j \in DOMAIN rows : \E i \in DOMAIN Z : Z[i] = rows[j]
    BY <1>4, <1>5
  <2> QED
    BY <2>1 DEF Range
<1>9. Range(Z) = Range(rows)
  <2>1. Range(Z) \subseteq Range(rows)
    BY <1>7 DEF Range
  <2>2. Range(rows) \subseteq Range(Z)
    BY <1>8 DEF Range
  <2> QED
    BY <2>1, <2>2
<1> QED
  BY <1>4, <1>6, <1>9 DEF Z
-----------------------------------------------------------------------------
(* A join that only decorates the rows *)

\* Join k is a LEFT join, and what rows are filtered and sorted by is bound before.
Decorates(qry, k) ==
    /\ qry.joins[k].kind = "left" /\ qry.tree = Absent
    /\ \A f \in PostJoinFilters(qry) : f.field[1] \in Available(qry, k - 1)
    /\ \A o \in Range(qry.order) : o.field[1] \in Available(qry, k - 1)

\* After the early cut all joins do no more; it stays allowed.
LEMMA WindowDecorates ==
    ASSUME NEW qry \in Queries, NEW k \in 0 .. Len(qry.joins), CanApplyEarlyWindow(qry, k)
    PROVE  /\ qry.tree = Absent /\ qry.agg = Absent
           /\ \A j \in k + 1 .. Len(qry.joins) : Decorates(qry, j) /\ CanApplyEarlyWindow(qry, j)
           /\ FiltersAt(qry, k) = PostJoinFilters(qry)
<1>1. /\ qry.order # <<>> /\ qry.tree = Absent /\ qry.agg = Absent
      /\ \A f \in PostJoinFilters(qry) : f.field[1] \in Available(qry, k)
      /\ \A o \in Range(qry.order) : o.field[1] \in Available(qry, k)
      /\ \A j \in k + 1 .. Len(qry.joins) : qry.joins[j].kind = "left"
  BY DEF CanApplyEarlyWindow, Available
<1>2. Len(qry.joins) \in Nat
  BY QueriesAreQueries, ListFacts DEF IsQuery
<1>3. ASSUME NEW j \in Nat, k <= j PROVE Available(qry, k) \subseteq Available(qry, j)
  <2>1. 1 .. k \subseteq 1 .. j
    BY <1>3
  <2> QED
    BY <2>1 DEF Available
<1>4. ASSUME NEW j \in k + 1 .. Len(qry.joins) PROVE Decorates(qry, j) /\ CanApplyEarlyWindow(qry, j)
  <2>1. j - 1 \in Nat /\ k <= j - 1 /\ j \in Nat /\ k <= j
    BY <1>2, <1>4
  <2>2. Available(qry, k) \subseteq Available(qry, j - 1) /\ Available(qry, k) \subseteq Available(qry, j)
    BY <1>3, <2>1
  <2>3. Decorates(qry, j)
    BY <1>1, <2>2 DEF Decorates
  <2>4. /\ \A f \in PostJoinFilters(qry) : f.field[1] \in Available(qry, j)
        /\ \A o \in Range(qry.order) : o.field[1] \in Available(qry, j)
    BY <1>1, <2>2
  <2>5. \A i \in j + 1 .. Len(qry.joins) : i \in k + 1 .. Len(qry.joins)
    BY <1>2, <2>1
  <2>6. \A i \in j + 1 .. Len(qry.joins) : qry.joins[i].kind = "left"
    BY <1>1, <2>5
  <2>7. CanApplyEarlyWindow(qry, j)
    BY <1>1, <2>4, <2>6 DEF CanApplyEarlyWindow, Available
  <2> QED
    BY <2>3, <2>7
<1>5. FiltersAt(qry, k) = PostJoinFilters(qry)
  BY <1>1 DEF FiltersAt
<1> QED
  BY <1>1, <1>4, <1>5

\* Rows that come of a row of the joins before pass as it does and have its marks.
LEMMA DecoratedRow ==
    ASSUME NEW qry \in Queries, NEW k, NEW join, IsJoin(qry, k, join), Decorates(qry, k),
           NEW row, RowOk(qry, k - 1, row), NEW list, AreMatches(qry, join, list),
           NEW i \in 1 .. Len(Joined(row, list, join))
    PROVE  /\ RefPasses(qry, Joined(row, list, join)[i]) <=> RefPasses(qry, row)
           /\ Mark(qry, Joined(row, list, join)[i]) = Mark(qry, row)
<1> DEFINE new == Joined(row, list, join)[i]
<1>1. /\ \A f \in DOMAIN new \ DOMAIN row : f[1] = join.alias
      /\ \A f \in DOMAIN row : f \in DOMAIN new /\ new[f] = row[f]
  BY JoinedIs
<1>2. join.alias \notin Available(qry, k - 1)
  BY JoinFacts
<1> HIDE DEF new
<1>3. \A f : f[1] \in Available(qry, k - 1) => (f \in DOMAIN new <=> f \in DOMAIN row)
  BY <1>1, <1>2
<1>4. \A f \in PostJoinFilters(qry) : Evaluate(new, f) <=> Evaluate(row, f)
  <2> SUFFICES ASSUME NEW f \in PostJoinFilters(qry) PROVE Evaluate(new, f) <=> Evaluate(row, f)
    OBVIOUS
  <2>1. f.field \in DOMAIN new <=> f.field \in DOMAIN row
    BY <1>3 DEF Decorates
  <2>2. f.field \in DOMAIN row => new[f.field] = row[f.field]
    BY <1>1
  <2> QED
    BY <2>1, <2>2 DEF Evaluate
<1>5. RefPasses(qry, new) <=> RefPasses(qry, row)
  BY <1>4 DEF RefPasses, Decorates
<1>6. \A l \in 1 .. Len(qry.order) : CellOr(new, qry.order[l].field) = CellOr(row, qry.order[l].field)
  <2> SUFFICES ASSUME NEW l \in 1 .. Len(qry.order)
               PROVE  CellOr(new, qry.order[l].field) = CellOr(row, qry.order[l].field)
    OBVIOUS
  <2>1. IsList(qry.order)
    BY QueriesAreQueries DEF IsQuery
  <2>2. DOMAIN qry.order = 1 .. Len(qry.order)
    BY <2>1, ListFacts
  <2>3. qry.order[l] \in Range(qry.order)
    BY <2>2 DEF Range
  <2>4. qry.order[l].field[1] \in Available(qry, k - 1)
    BY <2>3 DEF Decorates
  <2>5. qry.order[l].field \in DOMAIN new <=> qry.order[l].field \in DOMAIN row
    BY <1>3, <2>4
  <2>6. qry.order[l].field \in DOMAIN row => new[qry.order[l].field] = row[qry.order[l].field]
    BY <1>1
  <2> QED
    BY <2>5, <2>6 DEF CellOr
<1>7. Mark(qry, new) = Mark(qry, row)
  BY <1>6 DEF Mark
<1> QED
  BY <1>5, <1>7 DEF new

\* Where the rows of a join come from.
LEMMA JoinPlaces ==
    ASSUME NEW db \in Databases, NEW qry \in Queries, NEW k, NEW join, IsJoin(qry, k, join),
           NEW rows, AreRows(qry, k - 1, rows), NEW L, L = RefLists(db, qry, rows, join),
           NEW X, X = RefJoin(db, qry, rows, join), NEW bt, Chains(X, bt, L, Len(L))
    PROVE  /\ \A x \in DOMAIN X : /\ bt[x][1] \in DOMAIN rows /\ bt[x][2] \in Nat
                                  /\ bt[x][2] \in 1 .. Len(Joined(rows[bt[x][1]], RefMatches(db, qry, rows[bt[x][1]], join), join))
                                  /\ X[x] = Joined(rows[bt[x][1]], RefMatches(db, qry, rows[bt[x][1]], join), join)[bt[x][2]]
           /\ \A x, y \in DOMAIN X :
                x < y <=> bt[x][1] < bt[y][1] \/ (bt[x][1] = bt[y][1] /\ bt[x][2] < bt[y][2])
<1> DEFINE M(i) == RefMatches(db, qry, rows[i], join)
<1>1. /\ IsList(L) /\ DOMAIN L = DOMAIN rows
      /\ \A i \in DOMAIN rows : L[i] = Joined(rows[i], M(i), join) /\ IsList(L[i])
  BY RefStep
<1> HIDE DEF M
<1>2. DOMAIN L = 1 .. Len(L) /\ Len(L) \in Nat
  BY <1>1, ListFacts
<1>3. IsList(X) /\ Listing(bt, Len(X), Spots(L, Len(L)), PairOrder) /\ \A x \in 1 .. Len(X) : X[x] = L[bt[x][1]][bt[x][2]]
  BY DEF Chains
<1>4. DOMAIN X = 1 .. Len(X) /\ Len(X) \in Nat
  BY <1>3, ListFacts
<1>5. \A x \in DOMAIN X : /\ bt[x] \in Nat \X Nat /\ bt[x][1] \in DOMAIN rows /\ bt[x][2] \in Nat
                          /\ bt[x][2] \in DOMAIN L[bt[x][1]]
  <2>1. \A x \in DOMAIN X : bt[x] \in Spots(L, Len(L))
    BY <1>3, <1>4 DEF Listing
  <2> QED
    BY <1>1, <1>2, <2>1 DEF Spots
<1>6. ASSUME NEW x \in DOMAIN X
      PROVE  /\ bt[x][2] \in 1 .. Len(Joined(rows[bt[x][1]], M(bt[x][1]), join))
             /\ X[x] = Joined(rows[bt[x][1]], M(bt[x][1]), join)[bt[x][2]]
  <2> DEFINE i == bt[x][1]
             l == bt[x][2]
  <2>1. i \in DOMAIN rows /\ l \in DOMAIN L[i] /\ X[x] = L[i][l]
    BY <1>3, <1>4, <1>5
  <2> HIDE DEF i, l
  <2>2. L[i] = Joined(rows[i], M(i), join) /\ DOMAIN L[i] = 1 .. Len(L[i])
    BY <1>1, <2>1, ListFacts
  <2> QED
    BY <2>1, <2>2 DEF i, l
<1>7. IsOrder(Spots(L, Len(L)), PairOrder)
  <2>1. Spots(L, Len(L)) \in SUBSET (Nat \X Nat)
    BY DEF Spots
  <2> QED
    BY <2>1, PairsAreOrdered
<1>8. \A x, y \in DOMAIN X : x < y <=> <<bt[x], bt[y]>> \in PairOrder
  <2>1. \A x, y \in 1 .. Len(X) : <<bt[x], bt[y]>> \in PairOrder => x < y
    BY <1>3, <1>7, ListingIsInjective
  <2>2. \A x, y \in 1 .. Len(X) : x < y => <<bt[x], bt[y]>> \in PairOrder
    BY <1>3 DEF Listing
  <2> QED
    BY <1>4, <2>1, <2>2
<1>9. \A x, y \in DOMAIN X : x < y <=> bt[x][1] < bt[y][1] \/ (bt[x][1] = bt[y][1] /\ bt[x][2] < bt[y][2])
  BY <1>5, <1>8, OrdersSay
<1> QED
  BY <1>5, <1>6, <1>9 DEF M

\* Such a join before the filters or after them: the same.
LEMMA KeptCommutes ==
    ASSUME NEW db \in Databases, NEW qry \in Queries, NEW k, NEW join, IsJoin(qry, k, join), Decorates(qry, k),
           NEW rows, AreRows(qry, k - 1, rows)
    PROVE  Kept(qry, RefJoin(db, qry, rows, join)) = RefJoin(db, qry, Kept(qry, rows), join)
<1> DEFINE L == RefLists(db, qry, rows, join)
           X == RefJoin(db, qry, rows, join)
           S == {i \in DOMAIN rows : RefPasses(qry, rows[i])}
           Z == Kept(qry, rows)
           V == RefLists(db, qry, Z, join)
           T == {x \in DOMAIN X : RefPasses(qry, X[x])}
           a == Kept(qry, X)
<1>1. /\ X = FlattenSeq(L) /\ IsList(L) /\ DOMAIN L = DOMAIN rows /\ AreRows(qry, k, X)
      /\ \A i \in DOMAIN rows : L[i] = Joined(rows[i], RefMatches(db, qry, rows[i], join), join) /\ IsList(L[i])
                                /\ AreMatches(qry, join, RefMatches(db, qry, rows[i], join))
  BY RefStep
<1>2. AreRows(qry, k - 1, Z)
  BY KeptRows
<1>3. /\ RefJoin(db, qry, Z, join) = FlattenSeq(V) /\ IsList(V) /\ DOMAIN V = DOMAIN Z
      /\ \A i \in DOMAIN Z : V[i] = Joined(Z[i], RefMatches(db, qry, Z[i], join), join)
  <2> HIDE DEF Z, V
  <2>1. V = RefLists(db, qry, Z, join)
    BY DEF V
  <2> QED
    BY <1>2, <2>1, RefStep
<1>4. S \in SUBSET DOMAIN rows /\ T \in SUBSET DOMAIN X /\ Z = PickAt(rows, S) /\ a = PickAt(X, T)
  BY DEF Kept
<1>5. DOMAIN rows = 1 .. Len(rows) /\ Len(rows) \in Nat /\ IsList(X) /\ DOMAIN X = 1 .. Len(X) /\ Len(X) \in Nat
  BY <1>1, ListFacts DEF AreRows
<1>6. \A i \in DOMAIN rows : i \in S <=> RefPasses(qry, rows[i])
  OBVIOUS
<1>7. \A x \in DOMAIN X : x \in T <=> RefPasses(qry, X[x])
  OBVIOUS
<1>8. L = RefLists(db, qry, rows, join) /\ X = RefJoin(db, qry, rows, join)
  OBVIOUS
<1> HIDE DEF L, X, S, Z, V, T, a
<1>9. PICK at, n : Shows(Z, at, n, rows, S, Upward)
  BY <1>4, <1>5, PickAtIs
<1>10. PICK dt, m : Shows(a, dt, m, X, T, Upward)
  BY <1>4, <1>5, PickAtIs
<1>11. \A i \in DOMAIN L : IsList(L[i])
  BY <1>1
<1>12. PICK bt : Chains(X, bt, L, Len(L))
  BY <1>1, <1>11, FlattenIs
<1>13. /\ \A x \in DOMAIN X : /\ bt[x][1] \in DOMAIN rows /\ bt[x][2] \in Nat
                              /\ bt[x][2] \in 1 .. Len(Joined(rows[bt[x][1]], RefMatches(db, qry, rows[bt[x][1]], join), join))
                              /\ X[x] = Joined(rows[bt[x][1]], RefMatches(db, qry, rows[bt[x][1]], join), join)[bt[x][2]]
       /\ \A x, y \in DOMAIN X :
            x < y <=> bt[x][1] < bt[y][1] \/ (bt[x][1] = bt[y][1] /\ bt[x][2] < bt[y][2])
  BY <1>8, <1>12, JoinPlaces
<1>14. \A x \in DOMAIN X : RefPasses(qry, X[x]) <=> RefPasses(qry, rows[bt[x][1]])
  <2> SUFFICES ASSUME NEW x \in DOMAIN X PROVE RefPasses(qry, X[x]) <=> RefPasses(qry, rows[bt[x][1]])
    OBVIOUS
  <2> DEFINE i == bt[x][1]
             row == rows[i]
             l == bt[x][2]
             list == RefMatches(db, qry, row, join)
  <2>1. i \in DOMAIN rows /\ l \in 1 .. Len(Joined(row, list, join)) /\ X[x] = Joined(row, list, join)[l]
    BY <1>13
  <2>2. AreMatches(qry, join, list) /\ RowOk(qry, k - 1, row)
    BY <1>1, <2>1 DEF AreRows
  <2> HIDE DEF l, list, row
  <2>3. RefPasses(qry, Joined(row, list, join)[l]) <=> RefPasses(qry, row)
    BY <2>1, <2>2, DecoratedRow
  <2> QED
    BY <2>1, <2>3 DEF row
<1>15. T = ComesOf(X, bt, S)
  <2>1. \A x \in DOMAIN X : x \in T <=> bt[x][1] \in S
    BY <1>6, <1>7, <1>13, <1>14
  <2> QED
    BY <1>4, <2>1 DEF ComesOf
<1>16. IsOrder(S, Upward) /\ IsOrder(T, Upward)
  <2>1. S \in SUBSET Nat /\ T \in SUBSET Nat
    BY <1>4, <1>5
  <2> QED
    BY <2>1, NumbersAreOrdered
<1>17. OrderedBy(T, bt, Upward, Upward)
  <2> SUFFICES ASSUME NEW x \in T, NEW y \in T
               PROVE  <<x, y>> \in Upward <=>
                        <<bt[x][1], bt[y][1]>> \in Upward \/ (bt[x][1] = bt[y][1] /\ bt[x][2] < bt[y][2])
    BY DEF OrderedBy
  <2>1. x \in DOMAIN X /\ y \in DOMAIN X /\ x \in Nat /\ y \in Nat
    BY <1>4, <1>5
  <2>2. bt[x][1] \in Nat /\ bt[y][1] \in Nat
    BY <1>5, <1>13, <2>1
  <2>3. (<<x, y>> \in Upward <=> x < y) /\ (<<bt[x][1], bt[y][1]>> \in Upward <=> bt[x][1] < bt[y][1])
    BY <2>1, <2>2, OrdersSay
  <2> QED
    BY <1>13, <2>1, <2>3
<1>18. Listing(at, n, S, Upward) /\ Len(Z) = n /\ IsList(Z) /\ \A i \in 1 .. n : Z[i] = rows[at[i]] /\ at[i] \in S
  BY <1>9 DEF Shows, Listing
<1>19. DOMAIN Z = 1 .. n /\ Len(V) = n /\ \A i \in 1 .. n : V[i] = L[at[i]]
  <2>1. DOMAIN Z = 1 .. n /\ n \in Nat
    BY <1>18, ListFacts
  <2>2. DOMAIN V = 1 .. Len(V) /\ Len(V) \in Nat
    BY <1>3, ListFacts
  <2>3. Len(V) = n
    BY <1>3, <2>1, <2>2
  <2>4. ASSUME NEW i \in 1 .. n PROVE V[i] = L[at[i]]
    <3>1. Z[i] = rows[at[i]] /\ at[i] \in DOMAIN rows
      BY <1>4, <1>18
    <3> QED
      BY <1>1, <1>3, <2>1, <3>1
  <2> QED
    BY <2>1, <2>3, <2>4
<1>20. S \in SUBSET DOMAIN L
  BY <1>1, <1>4
<1>21. a = FlattenSeq(V)
  <2>1. Chains(FlattenSeq(L), bt, L, Len(L)) /\ T = ComesOf(FlattenSeq(L), bt, S) /\ Shows(a, dt, m, FlattenSeq(L), T, Upward)
    BY <1>1, <1>10, <1>12, <1>15
  <2> QED
    BY <1>1, <1>3, <1>11, <1>16, <1>17, <1>18, <1>19, <1>20, <2>1, ChainArranged
<1> QED
  BY <1>3, <1>21 DEF a, X, Z

\* Such a join before the sort or after it: the same.
LEMMA SortCommutes ==
    ASSUME NEW db \in Databases, NEW qry \in Queries, NEW k, NEW join, IsJoin(qry, k, join), Decorates(qry, k),
           NEW rows, AreRows(qry, k - 1, rows)
    PROVE  Sorted(qry, RefJoin(db, qry, rows, join)) = RefJoin(db, qry, Sorted(qry, rows), join)
<1> DEFINE L == RefLists(db, qry, rows, join)
           X == RefJoin(db, qry, rows, join)
           S == DOMAIN rows
           Z == Sorted(qry, rows)
           V == RefLists(db, qry, Z, join)
           T == DOMAIN X
           a == Sorted(qry, X)
           order == SortPairs(qry, rows)
           wide == SortPairs(qry, X)
           n == Len(rows)
           m == Len(X)
<1>1. /\ X = FlattenSeq(L) /\ IsList(L) /\ DOMAIN L = DOMAIN rows /\ AreRows(qry, k, X)
      /\ \A i \in DOMAIN rows : L[i] = Joined(rows[i], RefMatches(db, qry, rows[i], join), join) /\ IsList(L[i])
                                /\ AreMatches(qry, join, RefMatches(db, qry, rows[i], join))
  BY RefStep
<1>2. AreRows(qry, k - 1, Z)
  BY SortedRows
<1>3. /\ RefJoin(db, qry, Z, join) = FlattenSeq(V) /\ IsList(V) /\ DOMAIN V = DOMAIN Z
      /\ \A i \in DOMAIN Z : V[i] = Joined(Z[i], RefMatches(db, qry, Z[i], join), join)
  <2> HIDE DEF Z, V
  <2>1. V = RefLists(db, qry, Z, join)
    BY DEF V
  <2> QED
    BY <1>2, <2>1, RefStep
<1>4. DOMAIN rows = 1 .. n /\ n \in Nat /\ IsList(X) /\ DOMAIN X = 1 .. m /\ m \in Nat
  BY <1>1, ListFacts DEF AreRows
<1>5. \E at : Shows(Sorted(qry, rows), at, Len(rows), rows, DOMAIN rows, SortPairs(qry, rows))
  BY SortedIs
<1>6. L = RefLists(db, qry, rows, join) /\ X = RefJoin(db, qry, rows, join)
  OBVIOUS
<1>7. PICK at : Shows(Z, at, n, rows, S, order)
  BY <1>5
<1>8. IsOrder(S, order)
  BY SortIsOrder
<1>9. S = DOMAIN rows /\ T = DOMAIN X /\ order = SortPairs(qry, rows) /\ wide = SortPairs(qry, X)
  OBVIOUS
<1> HIDE DEF L, X, S, Z, V, T, a, order, wide, n, m
<1>10. PICK dt : Shows(a, dt, m, X, T, wide)
  <2>1. \E dt : Shows(Sorted(qry, X), dt, Len(X), X, DOMAIN X, SortPairs(qry, X))
    BY <1>1, SortedIs
  <2> QED
    BY <2>1 DEF a, m, T, wide
<1>11. IsOrder(T, wide)
  BY <1>1, <1>9, SortIsOrder
<1>12. \A i \in DOMAIN L : IsList(L[i])
  BY <1>1
<1>13. PICK bt : Chains(X, bt, L, Len(L))
  BY <1>1, <1>12, FlattenIs
<1>14. /\ \A x \in DOMAIN X : /\ bt[x][1] \in DOMAIN rows /\ bt[x][2] \in Nat
                              /\ bt[x][2] \in 1 .. Len(Joined(rows[bt[x][1]], RefMatches(db, qry, rows[bt[x][1]], join), join))
                              /\ X[x] = Joined(rows[bt[x][1]], RefMatches(db, qry, rows[bt[x][1]], join), join)[bt[x][2]]
       /\ \A x, y \in DOMAIN X :
            x < y <=> bt[x][1] < bt[y][1] \/ (bt[x][1] = bt[y][1] /\ bt[x][2] < bt[y][2])
  BY <1>6, <1>13, JoinPlaces
<1>15. \A x \in DOMAIN X : Mark(qry, X[x]) = Mark(qry, rows[bt[x][1]])
  <2> SUFFICES ASSUME NEW x \in DOMAIN X PROVE Mark(qry, X[x]) = Mark(qry, rows[bt[x][1]])
    OBVIOUS
  <2> DEFINE i == bt[x][1]
             row == rows[i]
             l == bt[x][2]
             list == RefMatches(db, qry, row, join)
  <2>1. i \in DOMAIN rows /\ l \in 1 .. Len(Joined(row, list, join)) /\ X[x] = Joined(row, list, join)[l]
    BY <1>14
  <2>2. AreMatches(qry, join, list) /\ RowOk(qry, k - 1, row)
    BY <1>1, <2>1 DEF AreRows
  <2> HIDE DEF l, list, row
  <2>3. Mark(qry, Joined(row, list, join)[l]) = Mark(qry, row)
    BY <2>1, <2>2, DecoratedRow
  <2> QED
    BY <2>1, <2>3 DEF row
<1>16. T = ComesOf(X, bt, S)
  <2>1. \A x \in DOMAIN X : bt[x][1] \in S
    BY <1>9, <1>14
  <2> QED
    BY <1>9, <2>1 DEF ComesOf
<1>17. OrderedBy(T, bt, order, wide)
  <2> SUFFICES ASSUME NEW x \in T, NEW y \in T
               PROVE  <<x, y>> \in wide <=>
                        <<bt[x][1], bt[y][1]>> \in order \/ (bt[x][1] = bt[y][1] /\ bt[x][2] < bt[y][2])
    BY DEF OrderedBy
  <2> DEFINE i == bt[x][1]
             j == bt[y][1]
             mx == Mark(qry, X[x])
             my == Mark(qry, X[y])
             first(c, d) == Ahead(c, d, Len(qry.order), Down(qry))
  <2>1. x \in DOMAIN X /\ y \in DOMAIN X /\ i \in DOMAIN rows /\ j \in DOMAIN rows
    BY <1>9, <1>14
  <2>2. mx = Mark(qry, rows[i]) /\ my = Mark(qry, rows[j])
    BY <1>15, <2>1
  <2>3. <<x, y>> \in wide <=> first(mx, my) \/ (mx = my /\ x < y)
    BY <1>1, <1>9, <2>1, SortPairsSay
  <2>4. <<i, j>> \in order <=> first(mx, my) \/ (mx = my /\ i < j)
    <3>1. <<i, j>> \in SortPairs(qry, rows) <=>
              \/ Ahead(Mark(qry, rows[i]), Mark(qry, rows[j]), Len(qry.order), Down(qry))
              \/ Mark(qry, rows[i]) = Mark(qry, rows[j]) /\ i < j
      BY <2>1, SortPairsSay
    <3> QED
      BY <1>9, <2>2, <3>1
  <2>5. x < y <=> i < j \/ (i = j /\ bt[x][2] < bt[y][2])
    BY <1>14, <2>1
  <2>6. i = j => mx = my /\ ~first(mx, my)
    <3> SUFFICES ASSUME i = j PROVE mx = my /\ ~first(mx, my)
      OBVIOUS
    <3>1. mx = my
      BY <2>2
    <3>2. RowOk(qry, k, X[x])
      BY <1>1, <2>1 DEF AreRows
    <3>3. mx \in [1 .. Len(qry.order) -> Nat] /\ Len(qry.order) \in Nat
      BY <3>2, MarksAre, PrecedesIs
    <3> HIDE DEF mx, my
    <3>4. ~Ahead(mx, mx, Len(qry.order), Down(qry))
      BY <3>3, AheadIs
    <3> QED
      BY <3>1, <3>4
  <2> HIDE DEF i, j, mx, my, first
  <2>7. <<x, y>> \in wide <=> <<i, j>> \in order \/ (i = j /\ bt[x][2] < bt[y][2])
    BY <2>3, <2>4, <2>5, <2>6
  <2> QED
    BY <2>7 DEF i, j
<1>18. Listing(at, n, S, order) /\ Len(Z) = n /\ IsList(Z) /\ \A i \in 1 .. n : Z[i] = rows[at[i]] /\ at[i] \in S
  BY <1>7 DEF Shows, Listing
<1>19. DOMAIN Z = 1 .. n /\ Len(V) = n /\ \A i \in 1 .. n : V[i] = L[at[i]]
  <2>1. DOMAIN Z = 1 .. n /\ n \in Nat
    BY <1>18, ListFacts
  <2>2. DOMAIN V = 1 .. Len(V) /\ Len(V) \in Nat
    BY <1>3, ListFacts
  <2>3. Len(V) = n
    BY <1>3, <2>1, <2>2
  <2>4. ASSUME NEW i \in 1 .. n PROVE V[i] = L[at[i]]
    <3>1. Z[i] = rows[at[i]] /\ at[i] \in DOMAIN rows
      BY <1>9, <1>18
    <3> QED
      BY <1>1, <1>3, <2>1, <3>1
  <2> QED
    BY <2>1, <2>3, <2>4
<1>20. S \in SUBSET DOMAIN L
  BY <1>1, <1>9
<1>21. a = FlattenSeq(V)
  <2>1. Chains(FlattenSeq(L), bt, L, Len(L)) /\ T = ComesOf(FlattenSeq(L), bt, S) /\ Shows(a, dt, m, FlattenSeq(L), T, wide)
    BY <1>1, <1>10, <1>13, <1>16
  <2> QED
    BY <1>1, <1>3, <1>8, <1>11, <1>12, <1>17, <1>18, <1>19, <1>20, <2>1, ChainArranged
<1> QED
  BY <1>3, <1>21 DEF a, X, Z
-----------------------------------------------------------------------------
(* The first rows *)

\* X is like the first rows of Y.
Begins(F, X, Y) == IsList(X) /\ IsList(Y) /\ Len(X) <= Len(Y) /\ \A i \in 1 .. Len(X) : Alike(F, X[i], Y[i])

\* Numbers that rise from one on get no lower than their places.
Rises(e, n) == n \in Nat /\ (\A i \in 1 .. n : e[i] \in Nat \ {0}) /\ \A i, j \in 1 .. n : i < j => e[i] < e[j]

\* So they do.
LEMMA RisingIsHigh ==
    ASSUME NEW e, NEW n, Rises(e, n)
    PROVE  \A i \in 1 .. n : i <= e[i]
<1> DEFINE Good == {k \in Nat : k \in 1 .. n => k <= e[k]}
<1>1. n \in Nat /\ (\A i \in 1 .. n : e[i] \in Nat /\ 1 <= e[i]) /\ \A i, j \in 1 .. n : i < j => e[i] < e[j]
  BY DEF Rises
<1>2. 0 \in Good
  OBVIOUS
<1>3. ASSUME NEW k \in 1 .. n, k - 1 \in Good PROVE k \in Good
  <2>1. CASE k = 1
    BY <1>1, <2>1
  <2>2. CASE k # 1
    <3>1. k - 1 \in 1 .. n /\ k - 1 < k /\ k \in Nat /\ k - 1 \in Nat
      BY <1>1, <2>2
    <3>2. k - 1 <= e[k - 1] /\ e[k - 1] < e[k] /\ e[k - 1] \in Nat /\ e[k] \in Nat
      BY <1>1, <1>3, <3>1
    <3>3. k <= e[k]
      BY <3>1, <3>2
    <3> QED
      BY <3>1, <3>3
  <2> QED
    BY <2>1, <2>2
<1> HIDE DEF Good
<1>4. \A k \in 0 .. n : k \in Good
  BY <1>1, <1>2, <1>3, UpTo
<1>5. \A k \in 1 .. n : k \in 0 .. n /\ k \in Nat
  BY <1>1
<1> QED
  BY <1>4, <1>5 DEF Good

\* A chain of lists that all have something is no shorter than their number; of
\* lists of one it is as long.
LEMMA ChainLength ==
    ASSUME NEW L, IsList(L), \A i \in DOMAIN L : IsList(L[i]) /\ 1 <= Len(L[i])
    PROVE  /\ Len(L) <= Len(FlattenSeq(L))
           /\ (\A i \in DOMAIN L : Len(L[i]) <= 1) => Len(FlattenSeq(L)) = Len(L)
<1> DEFINE X == FlattenSeq(L)
           n == Len(L)
           m == Len(X)
<1>1. PICK bt : Chains(X, bt, L, n)
  BY FlattenIs
<1>2. DOMAIN L = 1 .. n /\ n \in Nat
  BY ListFacts
<1> HIDE DEF X, n
<1>3. IsList(X) /\ Listing(bt, m, Spots(L, n), PairOrder)
  BY <1>1 DEF Chains
<1>4. m \in Nat
  BY <1>3, ListFacts
<1> HIDE DEF m
<1>5. \A i \in DOMAIN L : DOMAIN L[i] = 1 .. Len(L[i]) /\ Len(L[i]) \in Nat
  BY ListFacts
<1>6. IsOrder(Spots(L, n), PairOrder)
  <2>1. Spots(L, n) \in SUBSET (Nat \X Nat)
    BY DEF Spots
  <2> QED
    BY <2>1, PairsAreOrdered
<1>7. \A x \in 1 .. m : bt[x] \in Nat \X Nat /\ bt[x][1] \in 1 .. n /\ bt[x][2] \in 1 .. Len(L[bt[x][1]])
  <2>1. \A x \in 1 .. m : bt[x] \in Spots(L, n)
    BY <1>3 DEF Listing
  <2> QED
    BY <1>2, <1>5, <2>1 DEF Spots
<1>8. \A x, y \in 1 .. m : <<bt[x], bt[y]>> \in PairOrder => x < y
  BY <1>3, <1>6, ListingIsInjective
<1>9. \A x, y \in 1 .. m : x < y => <<bt[x], bt[y]>> \in PairOrder
  BY <1>3 DEF Listing
<1>10. \A i \in 1 .. n : <<i, 1>> \in Spots(L, n)
  <2> SUFFICES ASSUME NEW i \in 1 .. n PROVE <<i, 1>> \in Spots(L, n)
    OBVIOUS
  <2>1. i \in Nat /\ 1 \in 1 .. Len(L[i])
    BY <1>2, <1>5
  <2>2. 1 \in DOMAIN L[i]
    BY <1>2, <1>5, <2>1
  <2> QED
    BY <2>1, <2>2 DEF Spots
<1> DEFINE e == [i \in 1 .. n |-> CHOOSE x \in 1 .. m : bt[x] = <<i, 1>>]
<1>11. \A i \in 1 .. n : \E x \in 1 .. m : bt[x] = <<i, 1>>
  BY <1>3, <1>10 DEF Listing
<1>12. \A i \in 1 .. n : e[i] \in 1 .. m /\ bt[e[i]] = <<i, 1>>
  BY <1>11
<1> HIDE DEF e
<1>13. Rises(e, n)
  <2>1. ASSUME NEW i \in 1 .. n, NEW j \in 1 .. n, i < j PROVE e[i] < e[j]
    <3>1. <<i, 1>> \in Nat \X Nat /\ <<j, 1>> \in Nat \X Nat /\ <<i, 1>>[1] = i /\ <<j, 1>>[1] = j
      BY <1>2
    <3>2. <<<<i, 1>>, <<j, 1>>>> \in PairOrder
      BY <2>1, <3>1, OrdersSay
    <3>3. <<bt[e[i]], bt[e[j]]>> \in PairOrder
      BY <1>12, <3>2
    <3> QED
      BY <1>8, <1>12, <3>3
  <2>2. \A i \in 1 .. n : e[i] \in Nat \ {0}
    BY <1>4, <1>12
  <2> QED
    BY <1>2, <2>1, <2>2 DEF Rises
<1>14. n <= m
  <2>1. CASE n = 0
    BY <1>4, <2>1
  <2>2. CASE n # 0
    <3>1. n \in 1 .. n
      BY <1>2, <2>2
    <3>2. n <= e[n] /\ e[n] \in 1 .. m
      BY <1>12, <1>13, <3>1, RisingIsHigh
    <3> QED
      BY <1>2, <1>4, <3>2
  <2> QED
    BY <2>1, <2>2
<1>15. ASSUME \A i \in DOMAIN L : Len(L[i]) <= 1 PROVE m = n
  <2> DEFINE d == [x \in 1 .. m |-> bt[x][1]]
  <2>1. \A x \in 1 .. m : d[x] \in 1 .. n /\ bt[x][2] = 1
    <3> SUFFICES ASSUME NEW x \in 1 .. m PROVE d[x] \in 1 .. n /\ bt[x][2] = 1
      OBVIOUS
    <3>1. bt[x][1] \in DOMAIN L /\ bt[x][2] \in 1 .. Len(L[bt[x][1]])
      BY <1>2, <1>7
    <3>2. Len(L[bt[x][1]]) \in Nat /\ Len(L[bt[x][1]]) <= 1
      BY <1>5, <1>15, <3>1
    <3> QED
      BY <1>2, <3>1, <3>2
  <2>2. ASSUME NEW x \in 1 .. m, NEW y \in 1 .. m, x < y PROVE d[x] < d[y]
    <3>1. <<bt[x], bt[y]>> \in PairOrder /\ bt[x] \in Nat \X Nat /\ bt[y] \in Nat \X Nat
      BY <1>7, <1>9, <2>2
    <3>2. bt[x][1] < bt[y][1] \/ (bt[x][1] = bt[y][1] /\ bt[x][2] < bt[y][2])
      BY <3>1, OrdersSay
    <3>3. bt[x][2] = 1 /\ bt[y][2] = 1
      BY <2>1
    <3> QED
      BY <3>2, <3>3
  <2>3. Rises(d, m)
    <3>1. \A x \in 1 .. m : d[x] \in Nat \ {0}
      BY <1>2, <2>1
    <3> HIDE DEF d
    <3> QED
      BY <1>4, <2>2, <3>1 DEF Rises
  <2> HIDE DEF d
  <2>4. m <= n
    <3>1. CASE m = 0
      BY <1>2, <3>1
    <3>2. CASE m # 0
      <4>1. m \in 1 .. m
        BY <1>4, <3>2
      <4>2. m <= d[m] /\ d[m] \in 1 .. n
        BY <2>1, <2>3, <4>1, RisingIsHigh
      <4> QED
        BY <1>2, <1>4, <4>2
    <3> QED
      BY <3>1, <3>2
  <2> QED
    BY <1>2, <1>4, <1>14, <2>4
<1> QED
  BY <1>14, <1>15 DEF n, m, X

\* Lists of lists of which each agrees with the one in its place.
BeginAlike(F, LX, LY) ==
    /\ IsList(LX) /\ IsList(LY) /\ Len(LX) <= Len(LY) /\ \A j \in DOMAIN LY : IsList(LY[j])
    /\ \A i \in 1 .. Len(LX) : AlikeLists(F, LX[i], LY[i])

\* A chain of lists that agree with the first lists begins the chain of all.
LEMMA ChainBegins ==
    ASSUME NEW F, NEW LX, NEW LY, BeginAlike(F, LX, LY)
    PROVE  /\ Begins(F, FlattenSeq(LX), FlattenSeq(LY))
           /\ Len(LX) = Len(LY) => Len(FlattenSeq(LX)) = Len(FlattenSeq(LY))
<1> DEFINE X == FlattenSeq(LX)
           Y == FlattenSeq(LY)
           m == Len(LX)
           n == Len(LY)
           S == Spots(LX, m)
           T == Spots(LY, n)
<1>1. /\ IsList(LX) /\ IsList(LY) /\ m <= n /\ \A j \in DOMAIN LY : IsList(LY[j])
      /\ \A i \in 1 .. m : AlikeLists(F, LX[i], LY[i])
  BY DEF BeginAlike
<1>2. DOMAIN LX = 1 .. m /\ m \in Nat /\ DOMAIN LY = 1 .. n /\ n \in Nat
  BY <1>1, ListFacts
<1>3. \A i \in DOMAIN LX : IsList(LX[i])
  BY <1>1, <1>2 DEF AlikeLists
<1>4. PICK ax : Chains(X, ax, LX, m)
  BY <1>1, <1>3, FlattenIs
<1>5. PICK ay : Chains(Y, ay, LY, n)
  BY <1>1, FlattenIs
<1> HIDE DEF X, Y
<1>6. /\ IsList(X) /\ Listing(ax, Len(X), S, PairOrder) /\ IsList(Y) /\ Listing(ay, Len(Y), T, PairOrder)
      /\ \A x \in 1 .. Len(X) : X[x] = LX[ax[x][1]][ax[x][2]]
      /\ \A y \in 1 .. Len(Y) : Y[y] = LY[ay[y][1]][ay[y][2]]
  BY <1>4, <1>5 DEF Chains
<1> HIDE DEF m, n
<1>7. \A i \in 1 .. m : i \in 1 .. n /\ DOMAIN LX[i] = DOMAIN LY[i] /\ DOMAIN LX[i] = 1 .. Len(LX[i])
  <2> SUFFICES ASSUME NEW i \in 1 .. m
               PROVE  i \in 1 .. n /\ DOMAIN LX[i] = DOMAIN LY[i] /\ DOMAIN LX[i] = 1 .. Len(LX[i])
    OBVIOUS
  <2>1. i \in 1 .. n
    BY <1>1, <1>2
  <2>2. IsList(LX[i]) /\ IsList(LY[i]) /\ Len(LX[i]) = Len(LY[i])
    BY <1>1 DEF AlikeLists
  <2> QED
    BY <2>1, <2>2, ListFacts
<1>8. \A p : p \in S <=> p \in T /\ p[1] \in 1 .. m
  BY <1>7 DEF Spots
<1> HIDE DEF S, T
<1>9. S \subseteq T
  BY <1>8
<1>10. T \in SUBSET (Nat \X Nat)
  BY DEF T, Spots
<1>11. IsOrder(T, PairOrder)
  BY <1>10, PairsAreOrdered
<1>12. \A x \in S, y \in T : <<y, x>> \in PairOrder => y \in S
  <2> SUFFICES ASSUME NEW x \in S, NEW y \in T, <<y, x>> \in PairOrder PROVE y \in S
    OBVIOUS
  <2>1. x \in Nat \X Nat /\ y \in Nat \X Nat /\ x[1] \in 1 .. m
    BY <1>8, <1>10
  <2>2. y[1] < x[1] \/ y[1] = x[1]
    BY <2>1, OrdersSay
  <2>3. y[1] \in 1 .. n
    BY DEF T, Spots
  <2>4. y[1] \in 1 .. m
    BY <1>2, <2>1, <2>2, <2>3
  <2> QED
    BY <1>8, <2>4
<1> DEFINE lx == Len(X)
           ly == Len(Y)
<1>13. lx <= ly /\ \A x \in 1 .. lx : ax[x] = ay[x]
  <2> HIDE DEF lx, ly
  <2>1. Listing(ax, lx, S, PairOrder) /\ Listing(ay, ly, T, PairOrder)
    BY <1>6 DEF lx, ly
  <2> QED
    BY <1>9, <1>11, <1>12, <2>1, ListingsAgree
<1>14. lx \in Nat /\ ly \in Nat
  BY <1>6, ListFacts
<1> HIDE DEF lx, ly
<1>15. ASSUME NEW x \in 1 .. lx PROVE Alike(F, X[x], Y[x])
  <2>1. x \in 1 .. ly
    BY <1>13, <1>14
  <2>2. X[x] = LX[ax[x][1]][ax[x][2]] /\ Y[x] = LY[ax[x][1]][ax[x][2]]
    BY <1>6, <1>13, <2>1 DEF lx, ly
  <2>3. ax[x] \in S
    BY <1>6 DEF Listing, lx
  <2>4. ax[x][1] \in 1 .. m /\ ax[x][2] \in DOMAIN LX[ax[x][1]]
    BY <2>3 DEF S, Spots
  <2>5. AlikeLists(F, LX[ax[x][1]], LY[ax[x][1]])
    BY <1>1, <2>4
  <2>6. ax[x][2] \in 1 .. Len(LX[ax[x][1]])
    BY <1>7, <2>4
  <2> QED
    BY <2>2, <2>5, <2>6 DEF AlikeLists
<1>16. Begins(F, X, Y)
  BY <1>6, <1>13, <1>15 DEF Begins, lx, ly
<1>17. ASSUME m = n PROVE Len(X) = Len(Y)
  <2>1. \A p \in T : p[1] \in 1 .. m
    BY <1>17 DEF T, Spots
  <2>2. S = T
    BY <1>8, <1>9, <2>1
  <2>3. Listing(ax, lx, T, PairOrder) /\ Listing(ay, ly, T, PairOrder)
    BY <1>6, <2>2 DEF lx, ly
  <2>4. SameListing(ax, lx, ay, ly)
    BY <1>11, <2>3, ListingIsUnique
  <2> QED
    BY <2>4 DEF SameListing, lx, ly
<1> QED
  BY <1>16, <1>17 DEF X, Y, m, n

\* A LEFT join of rows that are like the first rows of a list.
LEMMA LeftStep ==
    ASSUME NEW db \in Databases, NEW qry \in Queries, RowsAreTold(db, qry), LeftKeysFree(qry),
           NEW k, NEW join, IsJoin(qry, k, join), join.kind = "left",
           NEW rows, AreRows(qry, k - 1, rows), NEW ref, AreRows(qry, k - 1, ref), Begins(Mentioned(qry), rows, ref),
           NEW list, NEW from, FetchedFrom(db, qry, join, rows, list, from)
    PROVE  /\ Begins(Mentioned(qry), ApplyJoin(rows, list, join), RefJoin(db, qry, ref, join))
           /\ Len(rows) <= Len(ApplyJoin(rows, list, join))
           /\ Len(rows) = Len(ref) => Len(ApplyJoin(rows, list, join)) = Len(RefJoin(db, qry, ref, join))
<1> DEFINE F == Mentioned(qry)
           LX == ExecLists(rows, list, join)
           LY == RefLists(db, qry, ref, join)
           X(i) == MatchesOf(rows[i], list, join)
           Y(j) == RefMatches(db, qry, ref[j], join)
<1>1. /\ ApplyJoin(rows, list, join) = FlattenSeq(LX) /\ IsList(LX) /\ DOMAIN LX = DOMAIN rows
      /\ \A i \in DOMAIN rows : LX[i] = Joined(rows[i], X(i), join) /\ IsList(LX[i]) /\ AreMatches(qry, join, X(i))
  BY ExecStep
<1>2. /\ RefJoin(db, qry, ref, join) = FlattenSeq(LY) /\ IsList(LY) /\ DOMAIN LY = DOMAIN ref
      /\ \A j \in DOMAIN ref : LY[j] = Joined(ref[j], Y(j), join) /\ IsList(LY[j]) /\ AreMatches(qry, join, Y(j))
  BY RefStep
<1> HIDE DEF LX, LY, X, Y
<1>3. /\ DOMAIN rows = 1 .. Len(rows) /\ Len(rows) \in Nat /\ DOMAIN ref = 1 .. Len(ref) /\ Len(ref) \in Nat
      /\ DOMAIN LX = 1 .. Len(LX) /\ Len(LX) \in Nat /\ DOMAIN LY = 1 .. Len(LY) /\ Len(LY) \in Nat
      /\ Len(rows) <= Len(ref)
  BY <1>1, <1>2, ListFacts DEF AreRows, Begins
<1>4. Len(LX) = Len(rows) /\ Len(LY) = Len(ref)
  BY <1>1, <1>2, <1>3
<1>5. ASSUME NEW i \in DOMAIN rows PROVE AlikeLists(F, LX[i], LY[i])
  <2> DEFINE rel == ref[i]
  <2>1. i \in DOMAIN ref /\ Alike(F, rows[i], rel)
    BY <1>3 DEF Begins
  <2>2. RowOk(qry, k - 1, rows[i]) /\ RowOk(qry, k - 1, rel)
    BY <2>1 DEF AreRows
  <2> HIDE DEF rel
  <2>3. \E G, g : /\ Finds(qry, join, MatchesOf(rows[i], list, join), RefMatches(db, qry, rel, join), G, g)
                  /\ LeftKeysFree(qry) /\ join.kind = "left" => G = DOMAIN MatchesOf(rows[i], list, join)
    BY <2>1, MatchesAreTold
  <2> DEFINE M == MatchesOf(rows[i], list, join)
             N == RefMatches(db, qry, rel, join)
  <2>4. PICK G, g : Finds(qry, join, M, N, G, g) /\ G = DOMAIN M
    BY <2>3
  <2>5. AreMatches(qry, join, M) /\ AreMatches(qry, join, N)
    BY <2>4 DEF Finds
  <2>6. M = X(i) /\ N = Y(i)
    BY DEF X, Y, rel
  <2> HIDE DEF M, N, F
  <2>7. AlikeLists(Mentioned(qry), M, N)
    BY <2>4, AllFound
  <2>8. AlikeLists(Mentioned(qry), Joined(rows[i], M, join), Joined(rel, N, join))
    BY <2>1, <2>2, <2>5, <2>7, JoinedAlike DEF F
  <2> QED
    BY <1>1, <1>2, <2>1, <2>6, <2>8 DEF F, rel
<1> HIDE DEF F
<1>6. \A i \in 1 .. Len(LX) : AlikeLists(F, LX[i], LY[i])
  <2> SUFFICES ASSUME NEW i \in 1 .. Len(LX) PROVE AlikeLists(F, LX[i], LY[i])
    OBVIOUS
  <2>1. i \in DOMAIN rows
    BY <1>3, <1>4
  <2> QED
    BY <1>5, <2>1
<1>7. \A j \in DOMAIN LY : IsList(LY[j])
  BY <1>2
<1>8. /\ Begins(F, FlattenSeq(LX), FlattenSeq(LY))
      /\ Len(LX) = Len(LY) => Len(FlattenSeq(LX)) = Len(FlattenSeq(LY))
  <2>1. BeginAlike(F, LX, LY)
    BY <1>1, <1>2, <1>3, <1>4, <1>6, <1>7 DEF BeginAlike
  <2> QED
    BY <2>1, ChainBegins
<1>9. Len(LX) <= Len(FlattenSeq(LX))
  <2>1. ASSUME NEW i \in DOMAIN LX PROVE IsList(LX[i]) /\ 1 <= Len(LX[i])
    <3>1. i \in DOMAIN rows /\ AreMatches(qry, join, X(i)) /\ LX[i] = Joined(rows[i], X(i), join) /\ IsList(LX[i])
      BY <1>1
    <3>2. RowOk(qry, k - 1, rows[i])
      BY <3>1 DEF AreRows
    <3>3. Len(Joined(rows[i], X(i), join)) >= 1
      BY <3>1, <3>2, JoinedIs
    <3>4. Len(LX[i]) \in Nat
      BY <3>1, ListFacts
    <3> QED
      BY <3>1, <3>3, <3>4
  <2> QED
    BY <1>1, <2>1, ChainLength
<1> QED
  BY <1>1, <1>2, <1>4, <1>8, <1>9 DEF F

\* A LEFT join without a row that matches twice leaves the number of rows.
LEMMA LeftCount ==
    ASSUME NEW db \in Databases, NEW qry \in Queries, NEW k, NEW join, IsJoin(qry, k, join), join.kind = "left",
           NEW ref, AreRows(qry, k - 1, ref),
           \A row \in Range(ref) : ~IsAggregate(join) => Len(RefMatches(db, qry, row, join)) <= 1
    PROVE  Len(RefJoin(db, qry, ref, join)) = Len(ref)
<1> DEFINE L == RefLists(db, qry, ref, join)
           Y(j) == RefMatches(db, qry, ref[j], join)
<1>1. /\ RefJoin(db, qry, ref, join) = FlattenSeq(L) /\ IsList(L) /\ DOMAIN L = DOMAIN ref
      /\ \A j \in DOMAIN ref : L[j] = Joined(ref[j], Y(j), join) /\ IsList(L[j]) /\ AreMatches(qry, join, Y(j))
  BY RefStep
<1>2. \A j \in DOMAIN ref : ~IsAggregate(join) => Len(Y(j)) <= 1
  BY DEF Range
<1> HIDE DEF L, Y
<1>3. ASSUME NEW j \in DOMAIN L PROVE IsList(L[j]) /\ 1 <= Len(L[j]) /\ Len(L[j]) <= 1
  <2> DEFINE M == Y(j)
             row == ref[j]
  <2>1. j \in DOMAIN ref /\ L[j] = Joined(row, M, join) /\ IsList(L[j]) /\ AreMatches(qry, join, M)
    BY <1>1
  <2>2. RowOk(qry, k - 1, row) /\ (~IsAggregate(join) => Len(M) <= 1)
    BY <1>2, <2>1 DEF AreRows
  <2> HIDE DEF M, row
  <2>3. IsList(M) /\ Len(M) \in Nat /\ DOMAIN M = 1 .. Len(M) /\ (M = <<>> <=> Len(M) = 0)
    BY <2>1, ListFacts DEF AreMatches
  <2>4. Len(Joined(row, M, join)) >= 1 /\ Len(Joined(row, M, join)) \in Nat
    BY <2>1, <2>2, JoinedIs, ListFacts
  <2>5. Len(Joined(row, M, join)) <= 1
    <3>1. CASE IsAggregate(join)
      <4>1. Joined(row, M, join) = <<MergeRow(row, Synthetic(join, M))>>
        BY <3>1 DEF Joined
      <4> QED
        BY <4>1, OneRow
    <3>2. CASE ~IsAggregate(join) /\ M = <<>>
      <4>1. Joined(row, M, join) = <<row>>
        BY <3>2 DEF Joined
      <4> QED
        BY <4>1, OneRow
    <3>3. CASE ~IsAggregate(join) /\ M # <<>>
      <4> DEFINE J == [m \in DOMAIN M |-> MergeRow(row, M[m])]
      <4>1. Joined(row, M, join) = J
        BY <3>3 DEF Joined
      <4>2. DOMAIN J = 1 .. Len(M) /\ J = [m \in 1 .. Len(M) |-> J[m]]
        BY <2>3
      <4> HIDE DEF J
      <4>3. Len(J) = Len(M)
        BY <2>3, <4>2, LenIs
      <4> QED
        BY <2>2, <3>3, <4>1, <4>3
    <3> QED
      BY <3>1, <3>2, <3>3
  <2> QED
    BY <2>1, <2>4, <2>5
<1>4. Len(FlattenSeq(L)) = Len(L)
  BY <1>1, <1>3, ChainLength
<1>5. Len(L) = Len(ref)
  <2>1. DOMAIN ref = 1 .. Len(ref) /\ Len(ref) \in Nat /\ DOMAIN L = 1 .. Len(L) /\ Len(L) \in Nat
    BY <1>1, ListFacts DEF AreRows
  <2> QED
    BY <1>1, <2>1
<1> QED
  BY <1>1, <1>4, <1>5

\* The whole result after k joins, in the order in which it is shown.
Result(db, qry, k) == Sorted(qry, Kept(qry, RefAfter(db, qry, k)))

\* It is made of the relational result.
LEMMA ResultIs ==
    ASSUME NEW db \in Databases, NEW qry \in Queries, NEW k \in 0 .. Len(qry.joins)
    PROVE  /\ AreRows(qry, k, Result(db, qry, k)) /\ Range(Result(db, qry, k)) \subseteq Range(RefAfter(db, qry, k))
           /\ Len(Result(db, qry, k)) = Len(Kept(qry, RefAfter(db, qry, k)))
<1> DEFINE ref == RefAfter(db, qry, k)
           kept == Kept(qry, ref)
<1>1. AreRows(qry, k, ref)
  BY RefRowsAre
<1> HIDE DEF ref
<1>2. AreRows(qry, k, kept) /\ \A i \in DOMAIN kept : kept[i] \in Range(ref)
  BY <1>1, KeptRows
<1> HIDE DEF kept
<1>3. AreRows(qry, k, Sorted(qry, kept)) /\ Len(Sorted(qry, kept)) = Len(kept) /\ Range(Sorted(qry, kept)) = Range(kept)
  BY <1>2, SortedRows
<1>4. Range(kept) \subseteq Range(ref)
  BY <1>2 DEF Range
<1> QED
  BY <1>3, <1>4 DEF Result, kept, ref

\* A join that only decorates the rows can be done on it.
LEMMA ResultStep ==
    ASSUME NEW db \in Databases, NEW qry \in Queries, NEW k \in 1 .. Len(qry.joins), Decorates(qry, k)
    PROVE  Result(db, qry, k) = RefJoin(db, qry, Result(db, qry, k - 1), qry.joins[k])
<1> DEFINE join == qry.joins[k]
           ref == RefAfter(db, qry, k - 1)
           kept == Kept(qry, ref)
<1>1. Len(qry.joins) \in Nat
  BY QueriesAreQueries, ListFacts DEF IsQuery
<1>2. IsJoin(qry, k, join) /\ k - 1 \in 0 .. Len(qry.joins)
  BY <1>1 DEF IsJoin
<1>3. RefAfter(db, qry, k) = RefJoin(db, qry, ref, join)
  BY <1>1, RefAfterIs
<1>4. AreRows(qry, k - 1, ref)
  BY <1>2, RefRowsAre
<1> HIDE DEF join, ref
<1>5. AreRows(qry, k - 1, kept)
  BY <1>4, KeptRows
<1>6. Kept(qry, RefJoin(db, qry, ref, join)) = RefJoin(db, qry, kept, join)
  BY <1>2, <1>4, KeptCommutes
<1> HIDE DEF kept
<1>7. Sorted(qry, RefJoin(db, qry, kept, join)) = RefJoin(db, qry, Sorted(qry, kept), join)
  BY <1>2, <1>5, SortCommutes
<1> QED
  BY <1>3, <1>6, <1>7 DEF Result, kept, ref, join

\* X has what is needed of Y for the page.
Enough(qry, X, Y) == Len(X) = Len(Y) \/ qry.offset + qry.limit <= Len(X)

\* The early cut.
CutAt(qry, X) == IF qry.offset + qry.limit = 0 THEN Len(X) ELSE Min({qry.offset + qry.limit, Len(X)})

\* It keeps the first rows, as many as the page needs.
LEMMA WindowIs ==
    ASSUME NEW qry \in Queries, NEW X, IsList(X)
    PROVE  /\ IsList(Window(qry, X)) /\ Len(Window(qry, X)) = CutAt(qry, X)
           /\ CutAt(qry, X) \in Nat /\ CutAt(qry, X) <= Len(X)
           /\ CutAt(qry, X) = Len(X) \/ qry.offset + qry.limit = CutAt(qry, X)
           /\ \A i \in 1 .. CutAt(qry, X) : Window(qry, X)[i] = X[i]
<1> DEFINE n == Len(X)
           e == qry.offset + qry.limit
           c == CutAt(qry, X)
<1>1. qry.offset \in Nat /\ qry.limit \in Nat
  BY QueriesAreQueries DEF IsQuery
<1>2. n \in Nat /\ e \in Nat
  BY <1>1, ListFacts
<1>3. c = (IF e = 0 THEN n ELSE Min({e, n})) /\ Window(qry, X) = IF e = 0 THEN X ELSE SubSeq(X, 1, Min({e, n}))
  BY DEF CutAt, Window
<1> HIDE DEF n, e, c
<1>4. Min({e, n}) = IF e <= n THEN e ELSE n
  BY <1>2, MinOfTwo
<1>5. CASE e = 0
  <2>1. Window(qry, X) = X /\ c = n
    BY <1>3, <1>5
  <2>2. /\ IsList(Window(qry, X)) /\ Len(Window(qry, X)) = c /\ c \in Nat /\ c <= n /\ (c = n \/ e = c)
        /\ \A i \in 1 .. c : Window(qry, X)[i] = X[i]
    <3>1. Len(Window(qry, X)) = n
      BY <2>1 DEF n
    <3> QED
      BY <1>2, <2>1, <3>1
  <2> QED
    BY <2>2 DEF n, e, c
<1>6. CASE e # 0
  <2>1. c = Min({e, n}) /\ Window(qry, X) = SubSeq(X, 0 + 1, c)
    <3>1. c = Min({e, n}) /\ Window(qry, X) = SubSeq(X, 1, c)
      BY <1>3, <1>6
    <3>2. 0 + 1 = 1
      OBVIOUS
    <3> QED
      BY <3>1, <3>2
  <2>2. c \in Nat /\ c <= n /\ (c = n \/ e = c)
    BY <1>2, <1>4, <2>1
  <2>3. Slice(SubSeq(X, 0 + 1, c), X, 0, c)
    <3>1. 0 \in Nat /\ c <= Len(X)
      BY <2>2 DEF n
    <3> QED
      BY <2>2, <3>1, SliceIs
  <2>4. IsList(Window(qry, X)) /\ Len(Window(qry, X)) = c /\ \A i \in 1 .. c : Window(qry, X)[i] = X[i]
    <3> DEFINE W == Window(qry, X)
    <3>1. Slice(W, X, 0, c)
      BY <2>1, <2>3
    <3> HIDE DEF W
    <3>2. IsList(W) /\ Len(W) = (IF 0 < c THEN c - 0 ELSE 0) /\ \A i \in 1 .. Len(W) : W[i] = X[0 + i]
      BY <3>1 DEF Slice
    <3>3. Len(W) = c /\ \A i \in 1 .. c : 0 + i = i
      BY <2>2, <3>2
    <3> QED
      BY <3>2, <3>3 DEF W
  <2> QED
    BY <2>2, <2>4 DEF n, e, c
<1> QED
  BY <1>5, <1>6

\* So it begins what the whole is like.
LEMMA WindowBegins ==
    ASSUME NEW qry \in Queries, NEW F, NEW X, NEW Y, AlikeLists(F, X, Y)
    PROVE  Begins(F, Window(qry, X), Y) /\ Enough(qry, Window(qry, X), Y)
<1> DEFINE W == Window(qry, X)
           c == CutAt(qry, X)
<1>1. IsList(X) /\ IsList(Y) /\ Len(X) = Len(Y) /\ Len(X) \in Nat /\ \A i \in 1 .. Len(X) : Alike(F, X[i], Y[i])
  BY ListFacts DEF AlikeLists
<1>2. /\ IsList(W) /\ Len(W) = c /\ c \in Nat /\ c <= Len(X)
      /\ c = Len(X) \/ qry.offset + qry.limit = c
      /\ \A i \in 1 .. c : W[i] = X[i]
  BY <1>1, WindowIs
<1> HIDE DEF W, c
<1>3. \A i \in 1 .. c : Alike(F, W[i], Y[i])
  <2>1. \A i \in 1 .. c : i \in 1 .. Len(X)
    BY <1>1, <1>2
  <2> QED
    BY <1>1, <1>2, <2>1
<1>4. Begins(F, W, Y)
  BY <1>1, <1>2, <1>3 DEF Begins
<1>5. Enough(qry, W, Y)
  BY <1>1, <1>2 DEF Enough
<1> QED
  BY <1>4, <1>5 DEF W

\* A page of a beginning that is enough.
LEMMA PageBegins ==
    ASSUME NEW qry \in Queries, NEW F, NEW X, NEW Y, Begins(F, X, Y), Enough(qry, X, Y)
    PROVE  AlikeLists(F, Page(qry, X), Page(qry, Y))
<1>1. /\ IsList(X) /\ IsList(Y) /\ Len(X) \in Nat /\ Len(Y) \in Nat /\ Len(X) <= Len(Y)
      /\ \A i \in 1 .. Len(X) : Alike(F, X[i], Y[i])
  BY ListFacts DEF Begins
<1>2. qry.offset \in Nat /\ qry.limit \in Nat
  BY QueriesAreQueries DEF IsQuery
<1>3. CASE Len(X) = Len(Y)
  BY <1>1, <1>3, PageAlike DEF AlikeLists
<1>4. CASE Len(X) # Len(Y) /\ qry.limit = 0
  <2>1. Page(qry, X) = <<>> /\ Page(qry, Y) = <<>>
    BY <1>4 DEF Page
  <2>2. IsList(<<>>) /\ Len(<<>>) = 0
    BY DEF IsList
  <2> QED
    BY <2>1, <2>2 DEF AlikeLists
<1>5. CASE Len(X) # Len(Y) /\ qry.limit # 0
  <2> DEFINE a == qry.offset
             b == qry.offset + qry.limit
             m == Len(X)
             n == Len(Y)
  <2>1. a \in Nat /\ b \in Nat /\ a <= b /\ m \in Nat /\ n \in Nat /\ m <= n
    BY <1>1, <1>2
  <2>2. b <= m
    BY <1>5 DEF Enough
  <2>3. /\ Page(qry, X) = SubSeq(X, Min({a, m}) + 1, Min({b, m}))
        /\ Page(qry, Y) = SubSeq(Y, Min({a, n}) + 1, Min({b, n}))
    BY <1>5 DEF Page
  <2> HIDE DEF a, b, m, n
  <2>4. Min({a, m}) = a /\ Min({b, m}) = b /\ Min({a, n}) = a /\ Min({b, n}) = b
    <3>1. a <= m /\ b <= m /\ a <= n /\ b <= n
      BY <2>1, <2>2
    <3> QED
      BY <2>1, <3>1, MinOfTwo
  <2>5. b <= Len(X) /\ b <= Len(Y)
    BY <2>1, <2>2 DEF m, n
  <2>6. Slice(SubSeq(X, a + 1, b), X, a, b) /\ Slice(SubSeq(Y, a + 1, b), Y, a, b)
    BY <1>1, <2>1, <2>5, SliceIs
  <2>7. Slice(Page(qry, X), X, a, b) /\ Slice(Page(qry, Y), Y, a, b)
    BY <2>3, <2>4, <2>6
  <2>8. \A i \in 1 .. b : i \in 1 .. Len(X)
    BY <2>1, <2>2 DEF m
  <2>9. \A i \in 1 .. Len(Page(qry, X)) : Alike(F, Page(qry, X)[i], Page(qry, Y)[i])
    BY <1>1, <2>7, <2>8 DEF Slice
  <2> QED
    BY <2>7, <2>9 DEF AlikeLists, Slice
<1> QED
  BY <1>3, <1>4, <1>5 DEF Enough

\* The first rows of a sorted list are sorted.
LEMMA BeginsSorted ==
    ASSUME NEW qry \in Queries, NEW k, NEW all, AreRows(qry, k, all), NEW X, AreRows(qry, k, X),
           Begins(Mentioned(qry), X, Sorted(qry, all))
    PROVE  Sorted(qry, X) = X
<1> DEFINE Y == Sorted(qry, all)
           m == Len(X)
           first(c, d) == Ahead(c, d, Len(qry.order), Down(qry))
<1>1. IsList(X) /\ IsList(Y) /\ m <= Len(Y) /\ \A i \in 1 .. m : Alike(Mentioned(qry), X[i], Y[i])
  BY DEF Begins
<1>2. m \in Nat /\ DOMAIN X = 1 .. m /\ Len(Y) \in Nat
  BY <1>1, ListFacts
<1>3. \A i \in 1 .. m : Mark(qry, X[i]) = Mark(qry, Y[i])
  <2> SUFFICES ASSUME NEW i \in 1 .. m PROVE Mark(qry, X[i]) = Mark(qry, Y[i])
    OBVIOUS
  <2>1. Alike(Mentioned(qry), X[i], Y[i])
    BY <1>1
  <2> HIDE DEF Y
  <2>2. \A l \in 1 .. Len(qry.order) : qry.order[l].field \in Mentioned(qry)
    <3>1. IsList(qry.order)
      BY QueriesAreQueries DEF IsQuery
    <3>2. DOMAIN qry.order = 1 .. Len(qry.order)
      BY <3>1, ListFacts
    <3>3. \A l \in 1 .. Len(qry.order) : qry.order[l] \in Range(qry.order)
      BY <3>2 DEF Range
    <3> QED
      BY <3>3, MentionedFacts
  <2>3. \A l \in 1 .. Len(qry.order) : CellOr(X[i], qry.order[l].field)[1] = CellOr(Y[i], qry.order[l].field)[1]
    BY <2>1, <2>2, AlikeReads
  <2> QED
    BY <2>3 DEF Mark
<1>4. \E at : Shows(Sorted(qry, all), at, Len(all), all, DOMAIN all, SortPairs(qry, all))
  BY SortedIs
<1>5. PICK at : Shows(Y, at, Len(all), all, DOMAIN all, SortPairs(qry, all))
  BY <1>4
<1> HIDE DEF Y, m
<1>6. /\ Len(Y) = Len(all) /\ \A i \in 1 .. Len(Y) : Y[i] = all[at[i]] /\ at[i] \in DOMAIN all
      /\ \A i, j \in 1 .. Len(Y) : i < j => <<at[i], at[j]>> \in SortPairs(qry, all)
  BY <1>5 DEF Shows, Listing
<1>7. ASSUME NEW i \in 1 .. m, NEW j \in 1 .. m, i < j PROVE <<i, j>> \in SortPairs(qry, X)
  <2>1. i \in 1 .. Len(Y) /\ j \in 1 .. Len(Y)
    BY <1>1, <1>2
  <2>2. <<at[i], at[j]>> \in SortPairs(qry, all) /\ at[i] \in DOMAIN all /\ at[j] \in DOMAIN all
    BY <1>6, <1>7, <2>1
  <2>3. first(Mark(qry, all[at[i]]), Mark(qry, all[at[j]])) \/ Mark(qry, all[at[i]]) = Mark(qry, all[at[j]])
    BY <2>2, SortPairsSay
  <2>4. Mark(qry, all[at[i]]) = Mark(qry, X[i]) /\ Mark(qry, all[at[j]]) = Mark(qry, X[j])
    BY <1>3, <1>6, <2>1
  <2>5. first(Mark(qry, X[i]), Mark(qry, X[j])) \/ (Mark(qry, X[i]) = Mark(qry, X[j]) /\ i < j)
    BY <1>7, <2>3, <2>4
  <2>6. i \in DOMAIN X /\ j \in DOMAIN X
    BY <1>2
  <2> QED
    BY <2>5, <2>6, SortPairsSay
<1> DEFINE id == [i \in 1 .. m |-> i]
<1>8. Listing(id, m, DOMAIN X, SortPairs(qry, X))
  BY <1>2, <1>7 DEF Listing
<1>9. \E bt : Shows(Sorted(qry, X), bt, Len(X), X, DOMAIN X, SortPairs(qry, X))
  BY SortedIs
<1> DEFINE Z == Sorted(qry, X)
<1>10. PICK bt : Shows(Z, bt, m, X, DOMAIN X, SortPairs(qry, X))
  BY <1>9 DEF m
<1>11. IsOrder(DOMAIN X, SortPairs(qry, X))
  BY SortIsOrder
<1>12. \A i \in 1 .. m : id[i] = i
  OBVIOUS
<1> HIDE DEF Z, id
<1>13. SameListing(id, m, bt, m)
  BY <1>8, <1>10, <1>11, ListingIsUnique DEF Shows
<1>14. IsList(Z) /\ Len(Z) = m /\ \A i \in 1 .. m : Z[i] = X[bt[i]]
  BY <1>10 DEF Shows
<1>15. \A i \in 1 .. m : Z[i] = X[i]
  BY <1>12, <1>13, <1>14 DEF SameListing
<1>16. Z = X
  <2>1. Len(Z) = Len(X) /\ \A i \in 1 .. Len(Z) : Z[i] = X[i]
    BY <1>14, <1>15 DEF m
  <2> QED
    BY <1>1, <1>14, <2>1, SameList
<1> QED
  BY <1>16 DEF Z
-----------------------------------------------------------------------------
(* The same rows, as a set *)

\* Rows of X and of Y that meet the filters have one like them in the other.
SetAlike(F, X, Y, fs) ==
    /\ \A i \in Meeting(X, fs) : \E j \in Meeting(Y, fs) : Alike(F, X[i], Y[j])
    /\ \A j \in Meeting(Y, fs) : \E i \in Meeting(X, fs) : Alike(F, X[i], Y[j])

\* Rows that match do.
LEMMA MatchedIsSet ==
    ASSUME NEW F, NEW X, NEW Y, NEW fs, Matched(F, X, Y, fs)
    PROVE  SetAlike(F, X, Y, fs)
<1>1. PICK h : Match(F, X, Y, fs, h)
  BY DEF Matched
<1>2. /\ \A i \in Meeting(X, fs) : h[i] \in Meeting(Y, fs) /\ Alike(F, X[i], Y[h[i]])
      /\ \A j \in Meeting(Y, fs) : \E i \in Meeting(X, fs) : h[i] = j
  BY <1>1 DEF Match, Climbs
<1>3. ASSUME NEW j \in Meeting(Y, fs) PROVE \E i \in Meeting(X, fs) : Alike(F, X[i], Y[j])
  <2>1. PICK i \in Meeting(X, fs) : h[i] = j
    BY <1>2
  <2> QED
    BY <1>2, <2>1
<1> QED
  BY <1>2, <1>3 DEF SetAlike

\* Rows that agree meet the filters alike.
LEMMA AlikeMeets ==
    ASSUME NEW qry \in Queries, NEW k, NEW a, NEW b, Alike(Mentioned(qry), a, b)
    PROVE  Meets(FiltersAt(qry, k), a) <=> Meets(FiltersAt(qry, k), b)
<1>1. \A f \in FiltersAt(qry, k) : Evaluate(a, f) <=> Evaluate(b, f)
  BY FiltersAreMentioned, AlikeReads
<1> QED
  BY <1>1 DEF Meets

\* What a row becomes, merged with each of the rows X.
Merges(row, X, J) == DOMAIN J = DOMAIN X /\ \A m \in DOMAIN X : J[m] = MergeRow(row, X[m])

\* If two rows agree and so do the rows they are merged with, as sets, the results do.
LEMMA MergedSets ==
    ASSUME NEW qry \in Queries, NEW k, NEW join, IsJoin(qry, k, join),
           NEW row, NEW ref, RowOk(qry, k - 1, row), Alike(Mentioned(qry), row, ref), Meets(FiltersAt(qry, k - 1), row),
           NEW X, NEW Y, NEW G, FindsSome(qry, join, X, Y, G), join.kind = "left" => G = DOMAIN X,
           NEW J, Merges(row, X, J), NEW K, Merges(ref, Y, K)
    PROVE  SetAlike(Mentioned(qry), J, K, FiltersAt(qry, k))
<1> DEFINE F == Mentioned(qry)
           fs == FiltersAt(qry, k)
<1>1. /\ AreMatches(qry, join, X) /\ G \in SUBSET DOMAIN X
      /\ \A x \in G : \E y \in DOMAIN Y : Alike(F, X[x], Y[y])
      /\ \A y \in DOMAIN Y : \E x \in G : Alike(F, X[x], Y[y])
      /\ \A x \in DOMAIN X \ G : \E f \in Pushdown(qry, join.alias) : ~Evaluate(X[x], f)
  BY DEF FindsSome
<1>2. \A x \in DOMAIN X : J[x] = MergeRow(row, X[x]) /\ x \in DOMAIN J
  BY DEF Merges
<1>3. \A y \in DOMAIN Y : K[y] = MergeRow(ref, Y[y]) /\ y \in DOMAIN K
  BY DEF Merges
<1>4. \A x \in DOMAIN X, y \in DOMAIN Y : Alike(F, X[x], Y[y]) => Alike(F, J[x], K[y])
  BY <1>2, <1>3, AlikeMerge
<1>5. \A x \in DOMAIN X, y \in DOMAIN Y : Alike(F, X[x], Y[y]) => (Meets(fs, J[x]) <=> Meets(fs, K[y]))
  BY <1>4, AlikeMeets
<1>6. \A x \in DOMAIN X : Meets(fs, J[x]) => x \in G
  <2> SUFFICES ASSUME NEW x \in DOMAIN X, Meets(fs, J[x]) PROVE x \in G
    OBVIOUS
  <2>1. CASE join.kind = "left"
    BY <2>1
  <2>2. CASE join.kind # "left"
    <3>1. join.kind = "inner"
      BY <2>2, JoinFacts
    <3>2. IsMatch(qry, join, X[x])
      <4>1. x \in 1 .. Len(X)
        BY <1>1, ListFacts DEF AreMatches
      <4> QED
        BY <1>1, <4>1 DEF AreMatches
    <3> DEFINE m == X[x]
    <3>3. Meets(fs, MergeRow(row, m))
      BY <1>2
    <3> HIDE DEF m
    <3>4. \A f \in qry.filters : f.field[1] = join.alias => Evaluate(m, f)
      BY <3>1, <3>2, <3>3, MeetsMerged DEF m
    <3>5. \A f \in Pushdown(qry, join.alias) : Evaluate(m, f)
      BY <3>4, FiltersAreMentioned
    <3> QED
      BY <1>1, <3>5 DEF m
  <2> QED
    BY <2>1, <2>2
<1>7. \A x : x \in Meeting(J, fs) <=> x \in DOMAIN X /\ Meets(fs, J[x])
  BY DEF Meeting, Merges
<1>8. \A y : y \in Meeting(K, fs) <=> y \in DOMAIN Y /\ Meets(fs, K[y])
  BY DEF Meeting, Merges
<1> HIDE DEF F, fs
<1>9. \A x \in Meeting(J, fs) : \E y \in Meeting(K, fs) : Alike(F, J[x], K[y])
  BY <1>1, <1>4, <1>5, <1>6, <1>7, <1>8
<1>10. \A y \in Meeting(K, fs) : \E x \in Meeting(J, fs) : Alike(F, J[x], K[y])
  BY <1>1, <1>4, <1>5, <1>7, <1>8
<1> QED
  BY <1>9, <1>10 DEF SetAlike, F, fs

\* One row and its matches, as sets.
LEMMA JoinedSets ==
    ASSUME NEW qry \in Queries, NEW k, NEW join, IsJoin(qry, k, join), ~IsAggregate(join),
           NEW row, NEW ref, RowOk(qry, k - 1, row), Alike(Mentioned(qry), row, ref), Meets(FiltersAt(qry, k - 1), row),
           NEW X, NEW Y, NEW G, FindsSome(qry, join, X, Y, G), join.kind = "left" => G = DOMAIN X
    PROVE  SetAlike(Mentioned(qry), Joined(row, X, join), Joined(ref, Y, join), FiltersAt(qry, k))
<1>1. /\ IsList(X) /\ IsList(Y) /\ G \in SUBSET DOMAIN X
      /\ \A x \in G : \E y \in DOMAIN Y : Alike(Mentioned(qry), X[x], Y[y])
      /\ \A y \in DOMAIN Y : \E x \in G : Alike(Mentioned(qry), X[x], Y[y])
  BY DEF FindsSome, AreMatches
<1>2. /\ X = <<>> <=> DOMAIN X = {}
      /\ Y = <<>> <=> DOMAIN Y = {}
  <2>1. /\ DOMAIN X = 1 .. Len(X) /\ Len(X) \in Nat /\ (X = <<>> <=> Len(X) = 0)
        /\ DOMAIN Y = 1 .. Len(Y) /\ Len(Y) \in Nat /\ (Y = <<>> <=> Len(Y) = 0)
    BY <1>1, ListFacts
  <2>2. \A n \in Nat : n = 0 <=> 1 .. n = {}
    <3>1. \A n \in Nat : n # 0 => 1 \in 1 .. n
      OBVIOUS
    <3>2. 1 .. 0 = {}
      OBVIOUS
    <3> QED
      BY <3>1, <3>2
  <2> QED
    BY <2>1, <2>2
<1>3. join.kind = "left" => (X = <<>> <=> Y = <<>>)
  BY <1>1, <1>2
<1>4. CASE join.kind = "left" /\ X = <<>>
  <2>1. Joined(row, X, join) = <<row>> /\ Joined(ref, Y, join) = <<ref>>
    BY <1>3, <1>4 DEF Joined
  <2>2. Meets(FiltersAt(qry, k), row) <=> Meets(FiltersAt(qry, k), ref)
    BY AlikeMeets
  <2>3. /\ DOMAIN <<row>> = 1 .. 1 /\ <<row>>[1] = row /\ DOMAIN <<ref>> = 1 .. 1 /\ <<ref>>[1] = ref
        /\ \A i \in 1 .. 1 : i = 1
    BY OneRow
  <2>4. /\ \A i : i \in Meeting(<<row>>, FiltersAt(qry, k)) <=> i = 1 /\ Meets(FiltersAt(qry, k), row)
        /\ \A i : i \in Meeting(<<ref>>, FiltersAt(qry, k)) <=> i = 1 /\ Meets(FiltersAt(qry, k), row)
    BY <2>2, <2>3 DEF Meeting
  <2>5. SetAlike(Mentioned(qry), <<row>>, <<ref>>, FiltersAt(qry, k))
    BY <2>3, <2>4 DEF SetAlike
  <2> QED
    BY <2>1, <2>5
<1>5. CASE ~(join.kind = "left" /\ X = <<>>)
  <2>1. Merges(row, X, Joined(row, X, join)) /\ Merges(ref, Y, Joined(ref, Y, join))
    <3>1. CASE join.kind = "inner"
      BY <1>1, <3>1, InnerJoined DEF Merges
    <3>2. CASE join.kind # "inner"
      <4>1. join.kind = "left"
        BY <3>2, JoinFacts
      <4>2. X # <<>> /\ Y # <<>>
        BY <1>3, <1>5, <4>1
      <4>3. Joined(row, X, join) = [m \in DOMAIN X |-> MergeRow(row, X[m])]
        BY <3>2, <4>2 DEF Joined
      <4>4. Joined(ref, Y, join) = [m \in DOMAIN Y |-> MergeRow(ref, Y[m])]
        BY <3>2, <4>2 DEF Joined
      <4> QED
        BY <4>3, <4>4 DEF Merges
    <3> QED
      BY <3>1, <3>2
  <2> QED
    BY <2>1, MergedSets
<1> QED
  BY <1>4, <1>5

\* One more join, without aggregation, of rows that are the same has the same rows.
LEMMA StepSets ==
    ASSUME NEW db \in Databases, NEW qry \in Queries, LeftKeysFree(qry),
           NEW k, NEW join, IsJoin(qry, k, join), ~IsAggregate(join),
           NEW rows, AreRows(qry, k - 1, rows), NEW ref, AreRows(qry, k - 1, ref),
           SetAlike(Mentioned(qry), rows, ref, FiltersAt(qry, k - 1)),
           NEW list, NEW from, FetchedFrom(db, qry, join, rows, list, from)
    PROVE  SetAlike(Mentioned(qry), ApplyJoin(rows, list, join), RefJoin(db, qry, ref, join), FiltersAt(qry, k))
<1> DEFINE F == Mentioned(qry)
           gs == FiltersAt(qry, k - 1)
           fs == FiltersAt(qry, k)
           LX == ExecLists(rows, list, join)
           LY == RefLists(db, qry, ref, join)
           X(i) == MatchesOf(rows[i], list, join)
           Y(j) == RefMatches(db, qry, ref[j], join)
           U == ApplyJoin(rows, list, join)
           W == RefJoin(db, qry, ref, join)
<1>1. /\ U = FlattenSeq(LX) /\ IsList(LX) /\ DOMAIN LX = DOMAIN rows
      /\ \A i \in DOMAIN rows : LX[i] = Joined(rows[i], X(i), join) /\ IsList(LX[i]) /\ AreMatches(qry, join, X(i))
  BY ExecStep
<1>2. /\ W = FlattenSeq(LY) /\ IsList(LY) /\ DOMAIN LY = DOMAIN ref
      /\ \A j \in DOMAIN ref : LY[j] = Joined(ref[j], Y(j), join) /\ IsList(LY[j]) /\ AreMatches(qry, join, Y(j))
  BY RefStep
<1> HIDE DEF LX, LY, X, Y, U, W
<1>3. /\ \A x \in DOMAIN U : \E i \in DOMAIN LX : \E l \in DOMAIN LX[i] : U[x] = LX[i][l]
      /\ \A i \in DOMAIN LX : \A l \in DOMAIN LX[i] : \E x \in DOMAIN U : U[x] = LX[i][l]
  <2>1. \A i \in DOMAIN LX : IsList(LX[i])
    BY <1>1
  <2> QED
    BY <1>1, <2>1, FlattenHas
<1>4. /\ \A y \in DOMAIN W : \E j \in DOMAIN LY : \E l \in DOMAIN LY[j] : W[y] = LY[j][l]
      /\ \A j \in DOMAIN LY : \A l \in DOMAIN LY[j] : \E y \in DOMAIN W : W[y] = LY[j][l]
  <2>1. \A j \in DOMAIN LY : IsList(LY[j])
    BY <1>2
  <2> QED
    BY <1>2, <2>1, FlattenHas
<1>5. ASSUME NEW i \in DOMAIN rows, NEW j \in DOMAIN ref, Alike(F, rows[i], ref[j]), Meets(gs, rows[i])
      PROVE  SetAlike(F, LX[i], LY[j], fs)
  <2> DEFINE row == rows[i]
             rel == ref[j]
             M == MatchesOf(rows[i], list, join)
             N == RefMatches(db, qry, rel, join)
  <2>1. RowOk(qry, k - 1, row) /\ LX[i] = Joined(row, M, join) /\ LY[j] = Joined(rel, N, join)
    BY <1>1, <1>2 DEF AreRows, X, Y
  <2> HIDE DEF rel
  <2>2. Alike(Mentioned(qry), rows[i], rel)
    BY <1>5 DEF rel
  <2>3. \E G : /\ FindsSome(qry, join, MatchesOf(rows[i], list, join), RefMatches(db, qry, rel, join), G)
               /\ LeftKeysFree(qry) /\ join.kind = "left" => G = DOMAIN MatchesOf(rows[i], list, join)
    BY <2>2, MatchesAreFound
  <2>4. PICK G : FindsSome(qry, join, M, N, G) /\ (join.kind = "left" => G = DOMAIN M)
    BY <2>3
  <2> HIDE DEF row, M, N
  <2>5. Alike(Mentioned(qry), row, rel) /\ Meets(FiltersAt(qry, k - 1), row)
    BY <1>5, <2>2 DEF row
  <2>6. SetAlike(Mentioned(qry), Joined(row, M, join), Joined(rel, N, join), FiltersAt(qry, k))
    BY <2>1, <2>4, <2>5, JoinedSets
  <2> QED
    BY <2>1, <2>6
<1>6. ASSUME NEW i \in DOMAIN rows, NEW l \in DOMAIN LX[i], Meets(fs, LX[i][l]) PROVE Meets(gs, rows[i])
  <2> SUFFICES ASSUME ~Meets(gs, rows[i]) PROVE FALSE
    OBVIOUS
  <2>1. RowOk(qry, k - 1, rows[i]) /\ AreMatches(qry, join, X(i)) /\ LX[i] = Joined(rows[i], X(i), join)
    BY <1>1 DEF AreRows
  <2>2. Meeting(LX[i], fs) = {}
    BY <2>1, DoomedStays
  <2> QED
    BY <1>6, <2>2 DEF Meeting
<1>7. ASSUME NEW j \in DOMAIN ref, NEW l \in DOMAIN LY[j], Meets(fs, LY[j][l]) PROVE Meets(gs, ref[j])
  <2> SUFFICES ASSUME ~Meets(gs, ref[j]) PROVE FALSE
    OBVIOUS
  <2>1. RowOk(qry, k - 1, ref[j]) /\ AreMatches(qry, join, Y(j)) /\ LY[j] = Joined(ref[j], Y(j), join)
    BY <1>2 DEF AreRows
  <2>2. Meeting(LY[j], fs) = {}
    BY <2>1, DoomedStays
  <2> QED
    BY <1>7, <2>2 DEF Meeting
<1>8. /\ \A i \in DOMAIN rows : Meets(gs, rows[i]) => \E j \in DOMAIN ref : Meets(gs, ref[j]) /\ Alike(F, rows[i], ref[j])
      /\ \A j \in DOMAIN ref : Meets(gs, ref[j]) => \E i \in DOMAIN rows : Meets(gs, rows[i]) /\ Alike(F, rows[i], ref[j])
  BY DEF SetAlike, Meeting
<1> HIDE DEF F, fs, gs
<1>9. ASSUME NEW x \in DOMAIN U, Meets(fs, U[x]) PROVE \E y \in DOMAIN W : Meets(fs, W[y]) /\ Alike(F, U[x], W[y])
  <2>1. PICK i \in DOMAIN rows : \E l \in DOMAIN LX[i] : U[x] = LX[i][l]
    BY <1>1, <1>3
  <2>2. PICK l \in DOMAIN LX[i] : U[x] = LX[i][l]
    BY <2>1
  <2>3. Meets(gs, rows[i])
    BY <1>6, <1>9, <2>2
  <2>4. PICK j \in DOMAIN ref : Alike(F, rows[i], ref[j])
    BY <1>8, <2>3
  <2>5. SetAlike(F, LX[i], LY[j], fs)
    BY <1>5, <2>3, <2>4
  <2>6. l \in Meeting(LX[i], fs)
    BY <1>9, <2>2 DEF Meeting
  <2>7. PICK l2 \in Meeting(LY[j], fs) : Alike(F, LX[i][l], LY[j][l2])
    BY <2>5, <2>6 DEF SetAlike
  <2>8. l2 \in DOMAIN LY[j] /\ Meets(fs, LY[j][l2])
    BY <2>7 DEF Meeting
  <2>9. PICK y \in DOMAIN W : W[y] = LY[j][l2]
    BY <1>2, <1>4, <2>8
  <2> QED
    BY <2>2, <2>7, <2>8, <2>9
<1>10. ASSUME NEW y \in DOMAIN W, Meets(fs, W[y]) PROVE \E x \in DOMAIN U : Meets(fs, U[x]) /\ Alike(F, U[x], W[y])
  <2>1. PICK j \in DOMAIN ref : \E l \in DOMAIN LY[j] : W[y] = LY[j][l]
    BY <1>2, <1>4
  <2>2. PICK l \in DOMAIN LY[j] : W[y] = LY[j][l]
    BY <2>1
  <2>3. Meets(gs, ref[j])
    BY <1>7, <1>10, <2>2
  <2>4. PICK i \in DOMAIN rows : Meets(gs, rows[i]) /\ Alike(F, rows[i], ref[j])
    BY <1>8, <2>3
  <2>5. SetAlike(F, LX[i], LY[j], fs)
    BY <1>5, <2>4
  <2>6. l \in Meeting(LY[j], fs)
    BY <1>10, <2>2 DEF Meeting
  <2>7. PICK l2 \in Meeting(LX[i], fs) : Alike(F, LX[i][l2], LY[j][l])
    BY <2>5, <2>6 DEF SetAlike
  <2>8. l2 \in DOMAIN LX[i] /\ Meets(fs, LX[i][l2])
    BY <2>7 DEF Meeting
  <2>9. PICK x \in DOMAIN U : U[x] = LX[i][l2]
    BY <1>1, <1>3, <2>8
  <2> QED
    BY <2>2, <2>7, <2>8, <2>9
<1>11. SetAlike(F, U, W, fs)
  BY <1>9, <1>10 DEF SetAlike, Meeting
<1> QED
  BY <1>11 DEF F, fs, U, W

\* Sorting the rows that pass changes nothing of this.
LEMMA CutSets ==
    ASSUME NEW qry \in Queries, NEW k, FiltersAt(qry, k) = PostJoinFilters(qry), qry.tree = Absent,
           NEW rows, AreRows(qry, k, rows), NEW Y, SetAlike(Mentioned(qry), rows, Y, FiltersAt(qry, k))
    PROVE  SetAlike(Mentioned(qry), Sorted(qry, Kept(qry, rows)), Y, FiltersAt(qry, k))
<1> DEFINE F == Mentioned(qry)
           fs == FiltersAt(qry, k)
           kept == Kept(qry, rows)
           Z == Sorted(qry, kept)
<1>1. \A row : RefPasses(qry, row) <=> Meets(fs, row)
  BY DEF RefPasses, Meets
<1> HIDE DEF fs
<1>2. /\ AreRows(qry, k, kept)
      /\ \A i \in DOMAIN kept : kept[i] \in Range(rows)
      /\ \A j \in DOMAIN rows : RefPasses(qry, rows[j]) => rows[j] \in Range(kept)
  BY KeptRows
<1> HIDE DEF kept
<1>3. Range(Z) = Range(kept)
  BY <1>2, SortedRows
<1> HIDE DEF Z, F
<1>4. \A z \in DOMAIN Z : \E i \in DOMAIN rows : Z[z] = rows[i]
  <2> SUFFICES ASSUME NEW z \in DOMAIN Z PROVE \E i \in DOMAIN rows : Z[z] = rows[i]
    OBVIOUS
  <2>1. Z[z] \in Range(kept)
    BY <1>3 DEF Range
  <2>2. Z[z] \in Range(rows)
    BY <1>2, <2>1 DEF Range
  <2> QED
    BY <2>2 DEF Range
<1>5. \A i \in DOMAIN rows : Meets(fs, rows[i]) => \E z \in DOMAIN Z : Z[z] = rows[i]
  <2> SUFFICES ASSUME NEW i \in DOMAIN rows, Meets(fs, rows[i]) PROVE \E z \in DOMAIN Z : Z[z] = rows[i]
    OBVIOUS
  <2>1. rows[i] \in Range(Z)
    BY <1>1, <1>2, <1>3
  <2> QED
    BY <2>1 DEF Range
<1>6. SetAlike(F, rows, Y, fs)
  BY DEF F, fs
<1>7. \A i \in Meeting(Z, fs) : \E j \in Meeting(Y, fs) : Alike(F, Z[i], Y[j])
  BY <1>4, <1>6 DEF SetAlike, Meeting
<1>8. \A j \in Meeting(Y, fs) : \E i \in Meeting(Z, fs) : Alike(F, Z[i], Y[j])
  <2> SUFFICES ASSUME NEW j \in Meeting(Y, fs) PROVE \E i \in Meeting(Z, fs) : Alike(F, Z[i], Y[j])
    OBVIOUS
  <2>1. PICK i \in Meeting(rows, fs) : Alike(F, rows[i], Y[j])
    BY <1>6 DEF SetAlike
  <2>2. i \in DOMAIN rows /\ Meets(fs, rows[i])
    BY <2>1 DEF Meeting
  <2>3. PICK z \in DOMAIN Z : Z[z] = rows[i]
    BY <1>5, <2>2
  <2> QED
    BY <2>1, <2>2, <2>3 DEF Meeting
<1>9. SetAlike(F, Z, Y, fs)
  BY <1>7, <1>8 DEF SetAlike
<1> QED
  BY <1>9 DEF F, fs, Z, kept
-----------------------------------------------------------------------------
(* Groups *)

\* The groups of rows, and the places of each.
LEMMA GroupsAre ==
    ASSUME NEW qry, NEW k, NEW rows, AreRows(qry, k, rows), NEW field, NEW by, by = CellsOf(rows, field)
    PROVE  /\ DOMAIN by = 1 .. Len(rows) /\ DOMAIN rows = 1 .. Len(rows) /\ Len(rows) \in Nat
           /\ IsFiniteSet(DOMAIN rows) /\ Cardinality(DOMAIN rows) = Len(rows)
           /\ IsFiniteSet(Groups(by)) /\ \A i \in DOMAIN rows : by[i] \in Groups(by)
           /\ \A i \in DOMAIN rows : by[i][1] \in Nat
<1>1. DOMAIN rows = 1 .. Len(rows) /\ Len(rows) \in Nat
  BY ListFacts DEF AreRows
<1>2. DOMAIN by = DOMAIN rows /\ \A i \in DOMAIN rows : by[i] = CellOr(rows[i], field)
  BY DEF CellsOf
<1>3. IsFiniteSet(1 .. Len(rows)) /\ Cardinality(1 .. Len(rows)) = Len(rows)
  BY <1>1, CountTo
<1>4. Groups(by) = {by[i] : i \in DOMAIN rows}
  BY <1>2 DEF Groups, Range
<1>5. IsFiniteSet(Groups(by))
  <2> DEFINE cell(i) == by[i]
  <2>1. by \in Surjection(DOMAIN rows, Groups(by))
    <3> HIDE DEF cell
    <3>1. by = [i \in DOMAIN rows |-> by[i]]
      BY <1>2 DEF CellsOf
    <3>2. \A i \in DOMAIN rows : by[i] \in Groups(by)
      BY <1>4
    <3>3. by \in [DOMAIN rows -> Groups(by)]
      BY <3>1, <3>2
    <3>4. \A g \in Groups(by) : \E i \in DOMAIN rows : by[i] = g
      BY <1>4
    <3> QED
      BY <3>3, <3>4 DEF Surjection
  <2> QED
    BY <1>1, <1>3, <2>1, FS_Surjection
<1>6. \A i \in DOMAIN rows : by[i][1] \in Nat
  <2> SUFFICES ASSUME NEW i \in DOMAIN rows PROVE by[i][1] \in Nat
    OBVIOUS
  <2>1. by[i] = CellOr(rows[i], field) /\ RowOk(qry, k, rows[i])
    BY <1>2 DEF AreRows
  <2>2. EmptyCell[1] \in Nat
    BY DEF EmptyCell
  <2> QED
    BY <2>1, <2>2 DEF CellOr, RowOk
<1> QED
  BY <1>1, <1>2, <1>3, <1>4, <1>5, <1>6

\* The groups of a count or a sum, without HAVING, add up.
LEMMA GroupsSum ==
    ASSUME NEW qry, NEW k, NEW rows, AreRows(qry, k, rows), NEW agg, agg.kind \in {"GroupBy", "Sum"}, agg.having = 0
    PROVE  SumFunction(Aggregate(rows, agg).groups) =
           IF agg.kind = "GroupBy" THEN Len(rows)
           ELSE SumFunction([i \in DOMAIN rows |-> CellOr(rows[i], agg.field)[1]])
<1> DEFINE by == CellsOf(rows, agg.group)
           of == CellsOf(rows, agg.field)
           G == Groups(by)
           D == DOMAIN rows
           at(g) == {i \in D : by[i] = g}
           metric == [g \in G |-> Metric(of, {i \in DOMAIN by : by[i] = g}, agg)]
           vals == [i \in D |-> CellOr(rows[i], agg.field)[1]]
           ones == [i \in D |-> 1]
           f == IF agg.kind = "GroupBy" THEN ones ELSE vals
<1>1. /\ DOMAIN by = D /\ IsFiniteSet(D) /\ Cardinality(D) = Len(rows)
      /\ IsFiniteSet(G) /\ \A i \in D : by[i] \in G
  BY GroupsAre
<1>2. DOMAIN of = D /\ \A i \in D : of[i] = CellOr(rows[i], agg.field) /\ of[i][1] \in Nat
  <2>1. \A i \in D : of[i][1] \in Nat
    BY GroupsAre
  <2> QED
    BY <2>1 DEF CellsOf
<1>3. [i \in DOMAIN of |-> of[i][1]] = vals
  BY <1>2
<1>4. \A g \in G : at(g) \subseteq D /\ IsFiniteSet(at(g))
  BY <1>1, FS_Subset
<1>5. \A i \in D : f[i] \in Nat
  BY <1>2
<1>6. ASSUME NEW g \in G PROVE metric[g] = SumFunctionOnSet(f, at(g))
  <2>1. metric[g] = Metric(of, at(g), agg)
    BY <1>1
  <2>2. CASE agg.kind = "GroupBy"
    <3>1. Metric(of, at(g), agg) = Cardinality(at(g))
      BY <2>2 DEF Metric
    <3>2. \A i \in at(g) : f[i] = 1
      BY <2>2
    <3> HIDE DEF at, f
    <3>3. SumFunctionOnSet(f, at(g)) = Cardinality(at(g))
      BY <1>4, <3>2, SumOfOnes
    <3> QED
      BY <2>1, <3>1, <3>3
  <2>3. CASE agg.kind = "Sum"
    <3>1. Metric(of, at(g), agg) = SumFunctionOnSet([i \in DOMAIN of |-> of[i][1]], at(g))
      BY <2>3 DEF Metric
    <3>2. f = vals
      BY <2>3
    <3> QED
      BY <1>3, <2>1, <3>1, <3>2
  <2> QED
    BY <2>2, <2>3
<1> HIDE DEF f
<1>7. ASSUME NEW g \in G PROVE metric[g] \in Nat
  <2> HIDE DEF at
  <2>1. \A i \in at(g) : f[i] \in Nat
    BY <1>4, <1>5
  <2>2. SumFunctionOnSet(f, at(g)) \in Nat
    BY <1>4, <2>1, SumIsNat
  <2> QED
    BY <1>6, <2>2
<1>8. Aggregate(rows, agg).groups = metric
  <2> DEFINE kept == {h \in G : MeetsHaving(metric[h], agg)}
  <2>1. agg.kind # "TopN"
    OBVIOUS
  <2>2. Aggregate(rows, agg).groups = [g \in kept |-> metric[g]]
    BY <2>1 DEF Aggregate
  <2>3. \A g \in G : MeetsHaving(metric[g], agg)
    <3> HIDE DEF metric
    <3> QED
      BY <1>7 DEF MeetsHaving
  <2>4. kept = G
    BY <2>3
  <2> HIDE DEF kept
  <2> QED
    BY <2>2, <2>4
<1>9. DOMAIN metric = G
  OBVIOUS
<1> HIDE DEF metric, D, G, by
<1>10. SumFunctionOnSet(metric, G) = SumFunctionOnSet(f, D)
  <2>1. \A g \in G : metric[g] = SumFunctionOnSet(f, {i \in D : by[i] = g})
    BY <1>6
  <2>2. IsFiniteSet(D) /\ IsFiniteSet(G) /\ (\A i \in D : by[i] \in G) /\ (\A i \in D : f[i] \in Nat)
    BY <1>1, <1>5
  <2> HIDE DEF vals, ones, of, at
  <2> QED
    BY <2>1, <2>2, SumByParts
<1>11. SumFunction(Aggregate(rows, agg).groups) = SumFunctionOnSet(f, D)
  BY <1>8, <1>9, <1>10 DEF SumFunction
<1>12. CASE agg.kind = "GroupBy"
  <2>1. \A i \in D : f[i] = 1
    BY <1>12 DEF f
  <2>2. SumFunctionOnSet(f, D) = Cardinality(D)
    BY <1>1, <2>1, SumOfOnes
  <2>3. SumFunction(Aggregate(rows, agg).groups) = Len(rows)
    BY <1>1, <1>11, <2>2
  <2> QED
    BY <1>12, <2>3
<1>13. CASE agg.kind = "Sum"
  <2>1. f = vals /\ DOMAIN vals = D
    BY <1>13 DEF f
  <2>2. SumFunction(vals) = SumFunctionOnSet(f, D)
    BY <2>1 DEF SumFunction
  <2> QED
    BY <1>11, <1>13, <2>2 DEF D
<1> QED
  BY <1>12, <1>13
-----------------------------------------------------------------------------
(* The early cut and the joins after it *)

\* What is cut is rows, no more of them than before.
LEMMA CutRows ==
    ASSUME NEW qry \in Queries, NEW k, NEW joined, AreRows(qry, k, joined),
           NEW passed, passed = PassAt(joined, PostJoinFilters(qry), qry.op),
           NEW new, new = Window(qry, Sorted(qry, passed))
    PROVE  AreRows(qry, k, new) /\ Len(new) <= Len(joined) /\ Len(passed) \in Nat
<1> DEFINE A == {i \in DOMAIN joined : Passes(joined[i], PostJoinFilters(qry), qry.op)}
           Z == Sorted(qry, passed)
<1>1. A \in SUBSET DOMAIN joined /\ passed = PickAt(joined, A)
  BY DEF PassAt
<1> HIDE DEF A
<1>2. AreRows(qry, k, passed) /\ Len(passed) = Cardinality(A)
  <2>1. AreRows(qry, k, PickAt(joined, A)) /\ Len(PickAt(joined, A)) = Cardinality(A)
    BY <1>1, PickedRows
  <2> QED
    BY <1>1, <2>1
<1>3. DOMAIN joined = 1 .. Len(joined) /\ Len(joined) \in Nat /\ Len(passed) \in Nat
  BY <1>2, ListFacts DEF AreRows
<1>4. Cardinality(A) <= Len(joined)
  <2>1. IsFiniteSet(1 .. Len(joined)) /\ Cardinality(1 .. Len(joined)) = Len(joined)
    BY <1>3, CountTo
  <2> QED
    BY <1>1, <1>3, <2>1, FS_Subset
<1>5. AreRows(qry, k, Z) /\ Len(Z) = Len(passed)
  BY <1>2, SortedRows
<1> HIDE DEF Z
<1>6. IsList(Z) /\ DOMAIN Z = 1 .. Len(Z) /\ Len(Z) \in Nat
  BY <1>5, ListFacts DEF AreRows
<1>7. new = Window(qry, Z)
  BY DEF Z
<1> DEFINE c == CutAt(qry, Z)
<1>8. IsList(new) /\ Len(new) = c /\ c \in Nat /\ c <= Len(Z) /\ \A i \in 1 .. c : new[i] = Z[i]
  BY <1>6, <1>7, WindowIs
<1> HIDE DEF c
<1>9. DOMAIN new = 1 .. c
  BY <1>8, ListFacts
<1>10. \A i \in 1 .. c : i \in DOMAIN Z
  BY <1>6, <1>8
<1>11. AreRows(qry, k, new)
  BY <1>5, <1>8, <1>9, <1>10 DEF AreRows
<1> QED
  BY <1>2, <1>3, <1>4, <1>5, <1>8, <1>11

\* What is cut of rows that match begins the whole result.
LEMMA CutBegins ==
    ASSUME NEW db \in Databases, NEW qry \in Queries, AllMustHold(qry), qry.tree = Absent,
           NEW k \in 0 .. Len(qry.joins), NEW joined, AreRows(qry, k, joined),
           Matched(Mentioned(qry), joined, RefAfter(db, qry, k), FiltersAt(qry, k)),
           NEW passed, passed = PassAt(joined, PostJoinFilters(qry), qry.op),
           NEW new, new = Window(qry, Sorted(qry, passed))
    PROVE  /\ Begins(Mentioned(qry), new, Result(db, qry, k)) /\ Enough(qry, new, Result(db, qry, k))
           /\ Len(passed) = Len(Result(db, qry, k))
<1> DEFINE F == Mentioned(qry)
           ref == RefAfter(db, qry, k)
           kept == Kept(qry, ref)
<1>1. AreRows(qry, k, ref) /\ IsList(ref) /\ IsList(joined)
  BY RefRowsAre DEF AreRows
<1>2. passed = Kept(qry, joined)
  BY <1>1, LastFiltersAre
<1>3. Matched(Mentioned(qry), joined, ref, FiltersAt(qry, k))
  OBVIOUS
<1> HIDE DEF ref
<1>4. AlikeLists(Mentioned(qry), passed, kept)
  BY <1>1, <1>2, <1>3, KeptAlike
<1>5. AreRows(qry, k, passed) /\ AreRows(qry, k, kept)
  BY <1>1, <1>2, KeptRows
<1>6. Result(db, qry, k) = Sorted(qry, kept)
  BY DEF Result, ref
<1> HIDE DEF kept
<1>7. AlikeLists(Mentioned(qry), Sorted(qry, passed), Sorted(qry, kept))
  BY <1>4, <1>5, SortedAlike
<1>8. Begins(Mentioned(qry), new, Sorted(qry, kept)) /\ Enough(qry, new, Sorted(qry, kept))
  BY <1>7, WindowBegins
<1>9. Len(passed) = Len(Sorted(qry, kept))
  <2>1. Len(Sorted(qry, kept)) = Len(kept)
    BY <1>5, SortedRows
  <2> QED
    BY <1>4, <2>1 DEF AlikeLists
<1> QED
  BY <1>6, <1>8, <1>9

\* If the page has room for all rows nothing is cut.
LEMMA CutKeeps ==
    ASSUME NEW qry \in Queries, AllMustHold(qry), NEW k, FiltersAt(qry, k) = PostJoinFilters(qry), qry.tree = Absent,
           NEW joined, AreRows(qry, k, joined), Len(joined) <= qry.limit, qry.offset = 0,
           NEW Y, SetAlike(Mentioned(qry), joined, Y, FiltersAt(qry, k)),
           NEW passed, passed = PassAt(joined, PostJoinFilters(qry), qry.op),
           NEW new, new = Window(qry, Sorted(qry, passed))
    PROVE  /\ SetAlike(Mentioned(qry), new, Y, FiltersAt(qry, k))
           /\ \A i \in DOMAIN new : RefPasses(qry, new[i])
<1> DEFINE Z == Sorted(qry, passed)
<1>1. passed = Kept(qry, joined)
  BY LastFiltersAre DEF AreRows
<1>2. /\ AreRows(qry, k, passed) /\ Len(passed) <= Len(joined)
      /\ \A i \in DOMAIN passed : RefPasses(qry, passed[i])
  BY <1>1, KeptRows
<1>3. AreRows(qry, k, Z) /\ Len(Z) = Len(passed) /\ Range(Z) = Range(passed)
  BY <1>2, SortedRows
<1>4. SetAlike(Mentioned(qry), Z, Y, FiltersAt(qry, k))
  BY <1>1, CutSets
<1>5. Len(joined) \in Nat /\ qry.limit \in Nat
  BY ListFacts, QueriesAreQueries DEF AreRows, IsQuery
<1>6. new = Window(qry, Z)
  OBVIOUS
<1> HIDE DEF Z
<1>7. IsList(Z) /\ Len(Z) \in Nat
  BY <1>3, ListFacts DEF AreRows
<1>8. /\ IsList(new) /\ Len(new) = CutAt(qry, Z) /\ CutAt(qry, Z) \in Nat /\ CutAt(qry, Z) <= Len(Z)
      /\ CutAt(qry, Z) = Len(Z) \/ qry.offset + qry.limit = CutAt(qry, Z)
      /\ \A i \in 1 .. CutAt(qry, Z) : new[i] = Z[i]
  BY <1>6, <1>7, WindowIs
<1>9. CutAt(qry, Z) = Len(Z)
  <2>1. qry.offset + qry.limit = qry.limit /\ Len(Z) <= qry.limit
    BY <1>2, <1>3, <1>5, <1>7
  <2> QED
    BY <1>5, <1>7, <1>8, <2>1
<1>10. new = Z
  <2>1. Len(new) = Len(Z) /\ \A i \in 1 .. Len(new) : new[i] = Z[i]
    BY <1>8, <1>9
  <2> QED
    BY <1>7, <1>8, <2>1, SameList
<1>11. \A i \in DOMAIN Z : \E j \in DOMAIN passed : Z[i] = passed[j]
  <2>1. \A i \in DOMAIN Z : Z[i] \in Range(passed)
    BY <1>3 DEF Range
  <2> QED
    BY <2>1 DEF Range
<1> QED
  BY <1>2, <1>4, <1>10, <1>11

\* Rows that pass still do after a join that only decorates them.
LEMMA DecoratedPass ==
    ASSUME NEW db \in Databases, NEW qry \in Queries, NEW k, NEW join, IsJoin(qry, k, join), Decorates(qry, k),
           NEW rows, AreRows(qry, k - 1, rows), \A i \in DOMAIN rows : RefPasses(qry, rows[i]),
           NEW list, NEW from, FetchedFrom(db, qry, join, rows, list, from)
    PROVE  \A x \in DOMAIN ApplyJoin(rows, list, join) : RefPasses(qry, ApplyJoin(rows, list, join)[x])
<1> DEFINE L == ExecLists(rows, list, join)
           M(i) == MatchesOf(rows[i], list, join)
           U == ApplyJoin(rows, list, join)
<1>1. /\ U = FlattenSeq(L) /\ IsList(L) /\ DOMAIN L = DOMAIN rows
      /\ \A i \in DOMAIN rows : L[i] = Joined(rows[i], M(i), join) /\ IsList(L[i]) /\ AreMatches(qry, join, M(i))
  BY ExecStep
<1> HIDE DEF L, M, U
<1>2. \A x \in DOMAIN U : \E i \in DOMAIN L : \E l \in DOMAIN L[i] : U[x] = L[i][l]
  <2>1. \A i \in DOMAIN L : IsList(L[i])
    BY <1>1
  <2> QED
    BY <1>1, <2>1, FlattenHas
<1>3. ASSUME NEW x \in DOMAIN U PROVE RefPasses(qry, U[x])
  <2>1. PICK i \in DOMAIN rows : \E l \in DOMAIN L[i] : U[x] = L[i][l]
    BY <1>1, <1>2
  <2>2. PICK l \in DOMAIN L[i] : U[x] = L[i][l]
    BY <2>1
  <2> DEFINE row == rows[i]
             N == M(i)
  <2>3. RowOk(qry, k - 1, row) /\ RefPasses(qry, row)
    BY DEF AreRows
  <2>4. L[i] = Joined(row, N, join) /\ IsList(L[i]) /\ AreMatches(qry, join, N)
    BY <1>1
  <2> HIDE DEF row, N
  <2>5. l \in 1 .. Len(Joined(row, N, join))
    BY <2>2, <2>4, ListFacts
  <2>6. RefPasses(qry, Joined(row, N, join)[l]) <=> RefPasses(qry, row)
    BY <2>3, <2>4, <2>5, DecoratedRow
  <2> QED
    BY <2>2, <2>3, <2>4, <2>6
<1> QED
  BY <1>3 DEF U
-----------------------------------------------------------------------------
(* The end *)

\* A page that has room for everything shows everything.
LEMMA WholePage ==
    ASSUME NEW qry \in Queries, NEW X, IsList(X), qry.offset = 0, qry.limit # 0, Len(X) <= qry.limit
    PROVE  Page(qry, X) = X
<1> DEFINE n == Len(X)
           e == qry.limit
<1>1. n \in Nat /\ e \in Nat /\ e # 0 /\ n <= e
  BY ListFacts, QueriesAreQueries DEF IsQuery
<1>2. qry.offset = 0 /\ qry.offset + qry.limit = e
  BY <1>1
<1>3. Page(qry, X) = SubSeq(X, Min({0, n}) + 1, Min({e, n}))
  BY <1>2 DEF Page
<1>4. IsList(X) /\ n = Len(X)
  OBVIOUS
<1> HIDE DEF n, e
<1>5. Min({0, n}) = 0 /\ Min({e, n}) = n
  <2>1. Min({0, n}) = (IF 0 <= n THEN 0 ELSE n) /\ Min({e, n}) = (IF e <= n THEN e ELSE n)
    BY <1>1, MinOfTwo
  <2> QED
    BY <1>1, <2>1
<1>6. Slice(SubSeq(X, 0 + 1, n), X, 0, n)
  <2>1. 0 \in Nat /\ n <= Len(X)
    BY <1>1, <1>4
  <2> QED
    BY <1>1, <1>4, <2>1, SliceIs
<1> DEFINE P == Page(qry, X)
<1>7. Slice(P, X, 0, n)
  BY <1>3, <1>5, <1>6
<1> HIDE DEF P
<1>8. IsList(P) /\ Len(P) = (IF 0 < n THEN n - 0 ELSE 0) /\ \A i \in 1 .. Len(P) : P[i] = X[0 + i]
  BY <1>7 DEF Slice
<1>9. Len(P) = n
  BY <1>1, <1>8
<1>10. \A i \in 1 .. Len(P) : P[i] = X[i]
  <2>1. \A i \in 1 .. Len(P) : 0 + i = i
    BY <1>1, <1>9
  <2> QED
    BY <1>8, <2>1
<1>11. P = X
  BY <1>4, <1>8, <1>9, <1>10, SameList
<1> QED
  BY <1>11 DEF P

\* The relational result.
LEMMA RefRowsIs ==
    ASSUME NEW db \in Databases, NEW qry \in Queries
    PROVE  /\ Len(qry.joins) \in Nat /\ Len(qry.joins) # 0 /\ Len(qry.joins) \in 0 .. Len(qry.joins)
           /\ RefRows(db, qry) = Kept(qry, RefAfter(db, qry, Len(qry.joins)))
           /\ AreRows(qry, Len(qry.joins), RefAfter(db, qry, Len(qry.joins)))
           /\ AreRows(qry, Len(qry.joins), RefRows(db, qry))
           /\ Result(db, qry, Len(qry.joins)) = Sorted(qry, RefRows(db, qry))
           /\ Len(Sorted(qry, RefRows(db, qry))) = Len(RefRows(db, qry))
<1> DEFINE n == Len(qry.joins)
           ref == RefAfter(db, qry, n)
<1>1. n \in Nat /\ n # 0 /\ n \in 0 .. n
  <2>1. IsList(qry.joins) /\ qry.joins # <<>>
    BY QueriesAreQueries DEF IsQuery
  <2>2. n \in Nat /\ n # 0
    BY <2>1, ListFacts
  <2> QED
    BY <2>2
<1>2. RefRows(db, qry) = Kept(qry, ref)
  BY DEF RefRows, Kept
<1>3. AreRows(qry, n, ref)
  BY <1>1, RefRowsAre
<1> HIDE DEF ref
<1>4. AreRows(qry, n, RefRows(db, qry))
  BY <1>2, <1>3, KeptRows
<1>5. Len(Sorted(qry, RefRows(db, qry))) = Len(RefRows(db, qry))
  BY <1>4, SortedRows
<1> QED
  BY <1>1, <1>2, <1>3, <1>4, <1>5 DEF ref, Result

\* The response to rows that match the relational result.
LEMMA FinishLate ==
    ASSUME NEW db \in Databases, NEW qry \in Queries, AllMustHold(qry), NEW rows, AreRows(qry, Len(qry.joins), rows),
           Matched(Mentioned(qry), rows, RefAfter(db, qry, Len(qry.joins)), FiltersAt(qry, Len(qry.joins))),
           NEW kept, kept = LastFilters(qry, rows, FALSE)
    PROVE  /\ Projected(qry, Page(qry, Sorted(qry, kept))) = Projected(qry, Page(qry, Sorted(qry, RefRows(db, qry))))
           /\ qry.agg # Absent => Aggregate(kept, qry.agg) = Aggregate(RefRows(db, qry), qry.agg)
           /\ Len(kept) = Len(RefRows(db, qry))
<1> DEFINE n == Len(qry.joins)
           ref == RefAfter(db, qry, n)
           all == RefRows(db, qry)
<1>1. AreRows(qry, n, ref) /\ all = Kept(qry, ref) /\ AreRows(qry, n, all)
  BY RefRowsIs
<1>2. kept = Kept(qry, rows)
  BY LastFiltersAre DEF AreRows
<1>3. Matched(Mentioned(qry), rows, ref, FiltersAt(qry, n))
  OBVIOUS
<1>4. AreRows(qry, n, rows)
  OBVIOUS
<1> HIDE DEF ref, n, all
<1>5. AlikeLists(Mentioned(qry), kept, all)
  <2>1. IsList(rows) /\ IsList(ref)
    BY <1>1, <1>4 DEF AreRows
  <2>2. AlikeLists(Mentioned(qry), Kept(qry, rows), Kept(qry, ref))
    BY <1>3, <2>1, KeptAlike
  <2> QED
    BY <1>1, <1>2, <2>2
<1>6. AreRows(qry, n, kept)
  BY <1>2, <1>4, KeptRows
<1>7. AlikeLists(Mentioned(qry), Sorted(qry, kept), Sorted(qry, all))
  BY <1>1, <1>5, <1>6, SortedAlike
<1>8. AlikeLists(Mentioned(qry), Page(qry, Sorted(qry, kept)), Page(qry, Sorted(qry, all)))
  BY <1>7, PageAlike
<1>9. Projected(qry, Page(qry, Sorted(qry, kept))) = Projected(qry, Page(qry, Sorted(qry, all)))
  BY <1>8, ShownAlike
<1>10. qry.agg # Absent => Aggregate(kept, qry.agg) = Aggregate(all, qry.agg)
  BY <1>5, ShownAlike
<1>11. Len(kept) = Len(all)
  BY <1>5 DEF AlikeLists
<1> QED
  BY <1>9, <1>10, <1>11 DEF all

\* The response to the first rows of the result is the page of the result.
EarlyAnswer(db, qry, rows, kept) ==
    /\ Projected(qry, Page(qry, Sorted(qry, kept))) = Projected(qry, Page(qry, Sorted(qry, RefRows(db, qry))))
    /\ kept = rows /\ Len(rows) \in Nat /\ Len(rows) <= Len(RefRows(db, qry)) /\ Len(RefRows(db, qry)) \in Nat

\* The response to rows that begin it.
LEMMA FinishEarly ==
    ASSUME NEW db \in Databases, NEW qry \in Queries, qry.tree = Absent, NEW rows, AreRows(qry, Len(qry.joins), rows),
           Begins(Mentioned(qry), rows, Result(db, qry, Len(qry.joins))),
           Enough(qry, rows, Result(db, qry, Len(qry.joins))),
           NEW kept, kept = LastFilters(qry, rows, TRUE)
    PROVE  EarlyAnswer(db, qry, rows, kept)
<1> DEFINE n == Len(qry.joins)
           all == RefRows(db, qry)
           Z == Sorted(qry, all)
<1>1. AreRows(qry, n, all) /\ Result(db, qry, n) = Z /\ Len(Z) = Len(all)
  BY RefRowsIs
<1>2. kept = rows
  BY DEF LastFilters
<1>3. Begins(Mentioned(qry), rows, Z) /\ Enough(qry, rows, Z) /\ AreRows(qry, n, rows)
  BY <1>1
<1> HIDE DEF all, n
<1>4. Sorted(qry, rows) = rows
  BY <1>1, <1>3, BeginsSorted
<1> HIDE DEF Z
<1>5. AlikeLists(Mentioned(qry), Page(qry, rows), Page(qry, Z))
  BY <1>3, PageBegins
<1>6. Projected(qry, Page(qry, rows)) = Projected(qry, Page(qry, Z))
  BY <1>5, ShownAlike
<1>7. Len(rows) \in Nat /\ Len(all) \in Nat /\ Len(rows) <= Len(all)
  BY <1>1, <1>3, ListFacts DEF AreRows, Begins
<1> QED
  BY <1>2, <1>4, <1>6, <1>7 DEF EarlyAnswer, Z, all

\* The rows of X that pass are those of Z.
PassInto(qry, X, Z) ==
    /\ \A i \in DOMAIN X : RefPasses(qry, X[i]) => \E z \in DOMAIN Z : Z[z] = X[i]
    /\ \A z \in DOMAIN Z : \E i \in DOMAIN X : Z[z] = X[i] /\ RefPasses(qry, X[i])

\* What is left after the filters is, and so are all rows when all pass.
LEMMA KeptPass ==
    ASSUME NEW qry, NEW k, NEW rows, AreRows(qry, k, rows)
    PROVE  PassInto(qry, rows, Kept(qry, rows))
<1> DEFINE P == Kept(qry, rows)
<1>1. /\ \A i \in DOMAIN P : RefPasses(qry, P[i]) /\ P[i] \in Range(rows)
      /\ \A j \in DOMAIN rows : RefPasses(qry, rows[j]) => rows[j] \in Range(P)
  BY KeptRows
<1> HIDE DEF P
<1>2. \A i \in DOMAIN rows : RefPasses(qry, rows[i]) => \E z \in DOMAIN P : P[z] = rows[i]
  <2>1. \A i \in DOMAIN rows : rows[i] \in Range(P) => \E z \in DOMAIN P : P[z] = rows[i]
    BY DEF Range
  <2> QED
    BY <1>1, <2>1
<1>3. \A z \in DOMAIN P : \E i \in DOMAIN rows : P[z] = rows[i] /\ RefPasses(qry, rows[i])
  <2> SUFFICES ASSUME NEW z \in DOMAIN P PROVE \E i \in DOMAIN rows : P[z] = rows[i] /\ RefPasses(qry, rows[i])
    OBVIOUS
  <2>1. PICK i \in DOMAIN rows : P[z] = rows[i]
    BY <1>1 DEF Range
  <2>2. RefPasses(qry, P[z])
    BY <1>1
  <2> QED
    BY <2>1, <2>2
<1> QED
  BY <1>2, <1>3 DEF PassInto, P

\* The response to rows that are the same, as a set, if the page has room for all.
LEMMA FinishSets ==
    ASSUME NEW db \in Databases, NEW qry \in Queries, AllMustHold(qry), qry.offset = 0, qry.limit # 0,
           NEW rows, AreRows(qry, Len(qry.joins), rows), Len(rows) <= qry.limit,
           SetAlike(Mentioned(qry), rows, RefAfter(db, qry, Len(qry.joins)), FiltersAt(qry, Len(qry.joins))),
           NEW early \in BOOLEAN, early => qry.tree = Absent /\ \A i \in DOMAIN rows : RefPasses(qry, rows[i]),
           NEW kept, kept = LastFilters(qry, rows, early)
    PROVE  Range(Projected(qry, Page(qry, Sorted(qry, kept)))) = Range(Projected(qry, RefRows(db, qry)))
<1> DEFINE n == Len(qry.joins)
           ref == RefAfter(db, qry, n)
           all == RefRows(db, qry)
           fs == FiltersAt(qry, n)
           Z == Sorted(qry, kept)
<1>1. AreRows(qry, n, ref) /\ all = Kept(qry, ref)
  BY RefRowsIs
<1>2. AreRows(qry, n, rows) /\ SetAlike(Mentioned(qry), rows, ref, fs)
  OBVIOUS
<1>3. \A row : RefPasses(qry, row) => Meets(fs, row)
  BY DEF RefPasses, Meets, FiltersAt
<1> HIDE DEF ref, n, fs
<1>4. PassInto(qry, ref, all)
  BY <1>1, KeptPass
<1> HIDE DEF all
<1>5. AreRows(qry, n, kept) /\ Len(kept) <= Len(rows) /\ PassInto(qry, rows, kept)
  <2>1. CASE early
    <3>1. kept = rows
      BY <2>1 DEF LastFilters
    <3>2. Len(rows) \in Nat
      BY <1>2, ListFacts DEF AreRows
    <3>3. \A i \in DOMAIN rows : RefPasses(qry, rows[i])
      BY <2>1
    <3>4. PassInto(qry, rows, rows)
      BY <3>3 DEF PassInto
    <3> QED
      BY <1>2, <3>1, <3>2, <3>4
  <2>2. CASE ~early
    <3>1. early = FALSE
      BY <2>2
    <3>2. kept = LastFilters(qry, rows, FALSE)
      BY <3>1
    <3>3. kept = Kept(qry, rows)
      BY <1>2, <3>2, LastFiltersAre DEF AreRows
    <3> QED
      BY <1>2, <3>3, KeptRows, KeptPass
  <2> QED
    BY <2>1, <2>2
<1>6. AreRows(qry, n, Z) /\ Len(Z) = Len(kept) /\ Range(Z) = Range(kept)
  BY <1>5, SortedRows
<1> HIDE DEF Z
<1>7. Page(qry, Z) = Z
  <2>1. Len(rows) \in Nat /\ Len(kept) \in Nat /\ qry.limit \in Nat /\ IsList(Z)
    BY <1>2, <1>5, <1>6, ListFacts, QueriesAreQueries DEF AreRows, IsQuery
  <2>2. Len(Z) <= qry.limit
    BY <1>5, <1>6, <2>1
  <2> QED
    BY <2>1, <2>2, WholePage
<1>8. \A z \in DOMAIN Z : \E i \in DOMAIN kept : kept[i] = Z[z]
  <2>1. \A z \in DOMAIN Z : Z[z] \in Range(kept)
    BY <1>6 DEF Range
  <2> QED
    BY <2>1 DEF Range
<1>9. \A i \in DOMAIN kept : \E z \in DOMAIN Z : kept[i] = Z[z]
  <2>1. \A i \in DOMAIN kept : kept[i] \in Range(Z)
    BY <1>6 DEF Range
  <2> QED
    BY <2>1 DEF Range
<1> DEFINE show(row) == [f \in qry.select |-> CellOr(row, f)]
<1>10. \A a, b : Alike(Mentioned(qry), a, b) => show(a) = show(b)
  <2> SUFFICES ASSUME NEW a, NEW b, Alike(Mentioned(qry), a, b) PROVE show(a) = show(b)
    OBVIOUS
  <2>1. \A f \in qry.select : CellOr(a, f) = CellOr(b, f)
    BY AlikeReads, MentionedFacts
  <2> QED
    BY <2>1
<1>11. /\ \A X : DOMAIN Projected(qry, X) = DOMAIN X
       /\ \A X : \A i \in DOMAIN X : Projected(qry, X)[i] = show(X[i])
  BY DEF Projected
<1> HIDE DEF show
<1>12. ASSUME NEW z \in DOMAIN Z PROVE \E y \in DOMAIN all : show(Z[z]) = show(all[y])
  <2>1. PICK i \in DOMAIN rows : Z[z] = rows[i] /\ RefPasses(qry, rows[i])
    BY <1>5, <1>8 DEF PassInto
  <2>2. i \in Meeting(rows, fs)
    BY <1>3, <2>1 DEF Meeting
  <2>3. PICK j \in Meeting(ref, fs) : Alike(Mentioned(qry), rows[i], ref[j])
    BY <1>2, <2>2 DEF SetAlike
  <2>4. j \in DOMAIN ref
    BY <2>3 DEF Meeting
  <2>5. RefPasses(qry, ref[j])
    BY <2>1, <2>3, AlikePass
  <2>6. PICK y \in DOMAIN all : all[y] = ref[j]
    BY <1>4, <2>4, <2>5 DEF PassInto
  <2> QED
    BY <1>10, <2>1, <2>3, <2>6
<1>13. ASSUME NEW y \in DOMAIN all PROVE \E z \in DOMAIN Z : show(Z[z]) = show(all[y])
  <2>1. PICK j \in DOMAIN ref : all[y] = ref[j] /\ RefPasses(qry, ref[j])
    BY <1>4 DEF PassInto
  <2>2. j \in Meeting(ref, fs)
    BY <1>3, <2>1 DEF Meeting
  <2>3. PICK i \in Meeting(rows, fs) : Alike(Mentioned(qry), rows[i], ref[j])
    BY <1>2, <2>2 DEF SetAlike
  <2>4. i \in DOMAIN rows
    BY <2>3 DEF Meeting
  <2>5. RefPasses(qry, rows[i])
    BY <2>1, <2>3, AlikePass
  <2>6. PICK x \in DOMAIN kept : kept[x] = rows[i]
    BY <1>5, <2>4, <2>5 DEF PassInto
  <2>7. PICK z \in DOMAIN Z : kept[x] = Z[z]
    BY <1>9
  <2> QED
    BY <1>10, <2>1, <2>3, <2>6, <2>7
<1> DEFINE PZ == Projected(qry, Z)
           PA == Projected(qry, all)
<1>14. /\ DOMAIN PZ = DOMAIN Z /\ DOMAIN PA = DOMAIN all
       /\ (\A i \in DOMAIN Z : PZ[i] = show(Z[i])) /\ (\A i \in DOMAIN all : PA[i] = show(all[i]))
  BY <1>11
<1> HIDE DEF PZ, PA
<1>15. (\A z \in DOMAIN PZ : \E y \in DOMAIN PA : PZ[z] = PA[y]) /\ (\A y \in DOMAIN PA : \E z \in DOMAIN PZ : PZ[z] = PA[y])
  BY <1>12, <1>13, <1>14
<1>16. Range(PZ) = Range(PA)
  BY <1>15 DEF Range
<1> QED
  BY <1>7, <1>16 DEF PZ, PA, all, Z
-----------------------------------------------------------------------------
(* What the rows are after k joins *)

\* Before the early cut: of the rows that meet the filters so far, what they should be.
LateAt(db, qry, k, rows) ==
    RowsAreTold(db, qry) /\ LeftKeysFree(qry) => Matched(Mentioned(qry), rows, RefAfter(db, qry, k), FiltersAt(qry, k))

\* After it: the first rows of the whole result, as many as the page needs; total is
\* how many there are.
EarlyAt(db, qry, k, rows, total) ==
    Sound(db, qry) =>
        /\ Begins(Mentioned(qry), rows, Result(db, qry, k)) /\ Enough(qry, rows, Result(db, qry, k))
        /\ NoFanOut(db, qry) => total = Len(Result(db, qry, k))

\* The query that NothingIsInvented is about, and the rows while it runs.
ShowsAll(qry) ==
    /\ AllMustHold(qry) /\ LeftKeysFree(qry) /\ qry.offset = 0 /\ qry.limit >= JoinResultLimit
    /\ \A k \in DOMAIN qry.joins : ~IsAggregate(qry.joins[k])
SetsAt(db, qry, k, rows, early) ==
    ShowsAll(qry) =>
        /\ SetAlike(Mentioned(qry), rows, RefAfter(db, qry, k), FiltersAt(qry, k))
        /\ early => \A i \in DOMAIN rows : RefPasses(qry, rows[i])

\* A join and what it is done on.
JoinMakes(db, qry, k, rows, joined) ==
    /\ k \in 1 .. Len(qry.joins) /\ AreRows(qry, k - 1, rows)
    /\ \E list \in FetchedRows(db, qry, rows, qry.joins[k]) : joined = ApplyJoin(rows, list, qry.joins[k])

\* Its parts.
LEMMA JoinMakesIs ==
    ASSUME NEW db \in Databases, NEW qry \in Queries, NEW k, NEW rows, NEW joined, JoinMakes(db, qry, k, rows, joined)
    PROVE  /\ IsJoin(qry, k, qry.joins[k]) /\ Len(qry.joins) \in Nat /\ k \in 1 .. Len(qry.joins)
           /\ k - 1 \in 0 .. Len(qry.joins) /\ k \in 0 .. Len(qry.joins)
           /\ AreRows(qry, k - 1, rows) /\ AreRows(qry, k - 1, RefAfter(db, qry, k - 1)) /\ AreRows(qry, k, joined)
           /\ RefAfter(db, qry, k) = RefJoin(db, qry, RefAfter(db, qry, k - 1), qry.joins[k])
           /\ \E list, from : /\ FetchedFrom(db, qry, qry.joins[k], rows, list, from)
                              /\ joined = ApplyJoin(rows, list, qry.joins[k])
<1> DEFINE join == qry.joins[k]
<1>1. Len(qry.joins) \in Nat
  BY RefRowsIs
<1>2. k \in 1 .. Len(qry.joins) /\ AreRows(qry, k - 1, rows)
  BY DEF JoinMakes
<1>3. IsJoin(qry, k, join) /\ k - 1 \in 0 .. Len(qry.joins) /\ k \in 0 .. Len(qry.joins)
  BY <1>1, <1>2 DEF IsJoin
<1>4. PICK list \in FetchedRows(db, qry, rows, join) : joined = ApplyJoin(rows, list, join)
  BY DEF JoinMakes
<1> HIDE DEF join
<1>5. \E from : FetchedFrom(db, qry, join, rows, list, from)
  <2>1. IsList(rows) /\ IsList(join.on)
    BY <1>2, <1>3, JoinFacts DEF AreRows
  <2>2. join.alias \in Available(qry, Len(qry.joins))
    BY <1>2 DEF Available, join
  <2>3. IsList(db[join.alias])
    BY <2>2, SourceFacts
  <2> QED
    BY <2>1, <2>3, FetchIs
<1>6. PICK from : FetchedFrom(db, qry, join, rows, list, from)
  BY <1>5
<1>7. AreRows(qry, k, joined)
  BY <1>2, <1>3, <1>4, <1>6, ExecStep
<1>8. AreRows(qry, k - 1, RefAfter(db, qry, k - 1))
  BY <1>3, RefRowsAre
<1>9. RefAfter(db, qry, k) = RefJoin(db, qry, RefAfter(db, qry, k - 1), join)
  BY <1>1, <1>2, RefAfterIs DEF join
<1> QED
  BY <1>1, <1>2, <1>3, <1>4, <1>6, <1>7, <1>8, <1>9 DEF join

\* Before the early cut.
LEMMA NextLate ==
    ASSUME NEW db \in Databases, NEW qry \in Queries, NEW k, NEW rows, NEW joined, JoinMakes(db, qry, k, rows, joined),
           LateAt(db, qry, k - 1, rows)
    PROVE  LateAt(db, qry, k, joined)
<1> DEFINE join == qry.joins[k]
           ref == RefAfter(db, qry, k - 1)
<1>1. /\ IsJoin(qry, k, join) /\ AreRows(qry, k - 1, rows) /\ AreRows(qry, k - 1, ref)
      /\ RefAfter(db, qry, k) = RefJoin(db, qry, ref, join)
      /\ \E list, from : FetchedFrom(db, qry, join, rows, list, from) /\ joined = ApplyJoin(rows, list, join)
  BY JoinMakesIs
<1> SUFFICES ASSUME RowsAreTold(db, qry), LeftKeysFree(qry)
             PROVE  Matched(Mentioned(qry), joined, RefAfter(db, qry, k), FiltersAt(qry, k))
  BY DEF LateAt
<1>2. Matched(Mentioned(qry), rows, ref, FiltersAt(qry, k - 1))
  BY DEF LateAt
<1> HIDE DEF join, ref
<1>3. PICK list, from : FetchedFrom(db, qry, join, rows, list, from) /\ joined = ApplyJoin(rows, list, join)
  BY <1>1
<1>4. Matched(Mentioned(qry), ApplyJoin(rows, list, join), RefJoin(db, qry, ref, join), FiltersAt(qry, k))
  BY <1>1, <1>2, <1>3, StepMatched
<1> QED
  BY <1>1, <1>3, <1>4

\* The cut.
LEMMA NextCut ==
    ASSUME NEW db \in Databases, NEW qry \in Queries, NEW k \in 0 .. Len(qry.joins), NEW joined, AreRows(qry, k, joined),
           LateAt(db, qry, k, joined), CanApplyEarlyWindow(qry, k),
           NEW passed, passed = PassAt(joined, PostJoinFilters(qry), qry.op),
           NEW new, new = Window(qry, Sorted(qry, passed))
    PROVE  EarlyAt(db, qry, k, new, Len(passed))
<1> SUFFICES ASSUME Sound(db, qry)
             PROVE  /\ Begins(Mentioned(qry), new, Result(db, qry, k)) /\ Enough(qry, new, Result(db, qry, k))
                    /\ Len(passed) = Len(Result(db, qry, k))
  BY DEF EarlyAt
<1>1. qry.tree = Absent
  BY WindowDecorates
<1>2. AllMustHold(qry) /\ Matched(Mentioned(qry), joined, RefAfter(db, qry, k), FiltersAt(qry, k))
  BY DEF Sound, LateAt
<1> QED
  BY <1>1, <1>2, CutBegins

\* After it.
LEMMA NextEarly ==
    ASSUME NEW db \in Databases, NEW qry \in Queries, NEW k, NEW rows, NEW joined, JoinMakes(db, qry, k, rows, joined),
           NEW total, EarlyAt(db, qry, k - 1, rows, total), CanApplyEarlyWindow(qry, k - 1)
    PROVE  EarlyAt(db, qry, k, joined, total)
<1> DEFINE join == qry.joins[k]
           ref == Result(db, qry, k - 1)
           res == Result(db, qry, k)
<1>1. /\ IsJoin(qry, k, join) /\ AreRows(qry, k - 1, rows) /\ AreRows(qry, k, joined)
      /\ Len(qry.joins) \in Nat /\ k \in 1 .. Len(qry.joins) /\ k - 1 \in 0 .. Len(qry.joins) /\ k \in 0 .. Len(qry.joins)
      /\ \E list, from : FetchedFrom(db, qry, join, rows, list, from) /\ joined = ApplyJoin(rows, list, join)
  BY JoinMakesIs
<1>2. Decorates(qry, k)
  <2>1. k \in k - 1 + 1 .. Len(qry.joins)
    BY <1>1
  <2> QED
    BY <1>1, <2>1, WindowDecorates
<1>3. res = RefJoin(db, qry, ref, join)
  BY <1>1, <1>2, ResultStep
<1>4. join.kind = "left"
  BY <1>2 DEF Decorates
<1>5. AreRows(qry, k - 1, ref) /\ Range(ref) \subseteq Range(RefAfter(db, qry, k - 1)) /\ AreRows(qry, k, res)
  BY <1>1, ResultIs
<1> SUFFICES ASSUME Sound(db, qry)
             PROVE  Begins(Mentioned(qry), joined, res) /\ Enough(qry, joined, res) /\ (NoFanOut(db, qry) => total = Len(res))
  BY DEF EarlyAt
<1>6. /\ Begins(Mentioned(qry), rows, ref) /\ Enough(qry, rows, ref) /\ (NoFanOut(db, qry) => total = Len(ref))
      /\ RowsAreTold(db, qry) /\ LeftKeysFree(qry)
  BY DEF EarlyAt, Sound
<1>7. ASSUME NoFanOut(db, qry) PROVE \A row \in Range(ref) : ~IsAggregate(join) => Len(RefMatches(db, qry, row, join)) <= 1
  <2>1. k \in DOMAIN qry.joins
    BY <1>1, JoinFacts
  <2> QED
    BY <1>4, <1>5, <1>7, <2>1 DEF NoFanOut
<1> HIDE DEF join, ref, res
<1>8. PICK list, from : FetchedFrom(db, qry, join, rows, list, from) /\ joined = ApplyJoin(rows, list, join)
  BY <1>1
<1>9. /\ Begins(Mentioned(qry), ApplyJoin(rows, list, join), RefJoin(db, qry, ref, join))
      /\ Len(rows) <= Len(ApplyJoin(rows, list, join))
      /\ Len(rows) = Len(ref) => Len(ApplyJoin(rows, list, join)) = Len(RefJoin(db, qry, ref, join))
  BY <1>1, <1>4, <1>5, <1>6, <1>8, LeftStep
<1>10. Begins(Mentioned(qry), joined, res) /\ Len(rows) <= Len(joined) /\ (Len(rows) = Len(ref) => Len(joined) = Len(res))
  BY <1>3, <1>8, <1>9
<1>11. Enough(qry, joined, res)
  <2>1. Len(rows) \in Nat /\ Len(joined) \in Nat
    BY <1>1, ListFacts DEF AreRows
  <2>2. qry.offset \in Nat /\ qry.limit \in Nat
    BY QueriesAreQueries DEF IsQuery
  <2>3. CASE Len(rows) = Len(ref)
    BY <1>10, <2>3 DEF Enough
  <2>4. CASE Len(rows) # Len(ref)
    <3>1. qry.offset + qry.limit <= Len(rows)
      BY <1>6, <2>4 DEF Enough
    <3>2. qry.offset + qry.limit <= Len(joined)
      BY <1>10, <2>1, <2>2, <3>1
    <3> QED
      BY <3>2 DEF Enough
  <2> QED
    BY <2>3, <2>4
<1>12. ASSUME NoFanOut(db, qry) PROVE total = Len(res)
  <2>1. Len(RefJoin(db, qry, ref, join)) = Len(ref)
    BY <1>1, <1>4, <1>5, <1>7, <1>12, LeftCount
  <2> QED
    BY <1>3, <1>6, <1>12, <2>1
<1> QED
  BY <1>10, <1>11, <1>12

\* The rows as a set, in either case ...
LEMMA NextSets ==
    ASSUME NEW db \in Databases, NEW qry \in Queries, NEW k, NEW rows, NEW joined, JoinMakes(db, qry, k, rows, joined),
           NEW early, SetsAt(db, qry, k - 1, rows, early), early => CanApplyEarlyWindow(qry, k - 1)
    PROVE  SetsAt(db, qry, k, joined, early)
<1> DEFINE join == qry.joins[k]
           ref == RefAfter(db, qry, k - 1)
<1>1. /\ IsJoin(qry, k, join) /\ AreRows(qry, k - 1, rows) /\ AreRows(qry, k - 1, ref)
      /\ Len(qry.joins) \in Nat /\ k \in 1 .. Len(qry.joins) /\ k - 1 \in 0 .. Len(qry.joins)
      /\ RefAfter(db, qry, k) = RefJoin(db, qry, ref, join)
      /\ \E list, from : FetchedFrom(db, qry, join, rows, list, from) /\ joined = ApplyJoin(rows, list, join)
  BY JoinMakesIs
<1> SUFFICES ASSUME ShowsAll(qry)
             PROVE  /\ SetAlike(Mentioned(qry), joined, RefAfter(db, qry, k), FiltersAt(qry, k))
                    /\ early => \A i \in DOMAIN joined : RefPasses(qry, joined[i])
  BY DEF SetsAt
<1>2. /\ SetAlike(Mentioned(qry), rows, ref, FiltersAt(qry, k - 1))
      /\ early => \A i \in DOMAIN rows : RefPasses(qry, rows[i])
  BY DEF SetsAt
<1>3. LeftKeysFree(qry) /\ ~IsAggregate(join)
  <2>1. k \in DOMAIN qry.joins
    BY <1>1, JoinFacts
  <2> QED
    BY <2>1 DEF ShowsAll
<1>4. early => Decorates(qry, k)
  <2>1. k \in k - 1 + 1 .. Len(qry.joins)
    BY <1>1
  <2> QED
    BY <1>1, <2>1, WindowDecorates
<1> HIDE DEF join, ref
<1>5. PICK list, from : FetchedFrom(db, qry, join, rows, list, from) /\ joined = ApplyJoin(rows, list, join)
  BY <1>1
<1>6. SetAlike(Mentioned(qry), ApplyJoin(rows, list, join), RefJoin(db, qry, ref, join), FiltersAt(qry, k))
  BY <1>1, <1>2, <1>3, <1>5, StepSets
<1>7. ASSUME early PROVE \A x \in DOMAIN ApplyJoin(rows, list, join) : RefPasses(qry, ApplyJoin(rows, list, join)[x])
  BY <1>1, <1>2, <1>4, <1>5, <1>7, DecoratedPass
<1> QED
  BY <1>1, <1>5, <1>6, <1>7

\* ... and when they are cut.
LEMMA NextCutSets ==
    ASSUME NEW db \in Databases, NEW qry \in Queries, NEW k \in 0 .. Len(qry.joins), NEW joined, AreRows(qry, k, joined),
           SetsAt(db, qry, k, joined, FALSE), CanApplyEarlyWindow(qry, k), Len(joined) <= JoinResultLimit,
           NEW passed, passed = PassAt(joined, PostJoinFilters(qry), qry.op),
           NEW new, new = Window(qry, Sorted(qry, passed))
    PROVE  SetsAt(db, qry, k, new, TRUE)
<1> DEFINE ref == RefAfter(db, qry, k)
<1> SUFFICES ASSUME ShowsAll(qry)
             PROVE  /\ SetAlike(Mentioned(qry), new, ref, FiltersAt(qry, k))
                    /\ \A i \in DOMAIN new : RefPasses(qry, new[i])
  BY DEF SetsAt
<1>1. FiltersAt(qry, k) = PostJoinFilters(qry) /\ qry.tree = Absent
  BY WindowDecorates
<1>2. AllMustHold(qry) /\ qry.offset = 0 /\ SetAlike(Mentioned(qry), joined, ref, FiltersAt(qry, k))
  BY DEF SetsAt, ShowsAll
<1>3. Len(joined) <= qry.limit
  <2>1. Len(joined) \in Nat /\ qry.limit \in Nat /\ JoinResultLimit \in Nat
    BY ListFacts, QueriesAreQueries, LimitIsPositive DEF AreRows, IsQuery
  <2>2. JoinResultLimit <= qry.limit
    BY <2>1 DEF ShowsAll
  <2> QED
    BY <2>1, <2>2
<1> HIDE DEF ref
<1> QED
  BY <1>1, <1>2, <1>3, CutKeeps

-----------------------------------------------------------------------------
(* The executor keeps its invariant *)

\* The query, how far it is, and its rows.
JoinRowsInv ==
    /\ tables \in Databases /\ query \in Queries
    /\ stage \in {"base", "join", "failed", "done"}
    /\ joinsDone \in 0 .. Len(query.joins) /\ filteredEarly \in BOOLEAN
    /\ AreRows(query, joinsDone, currentRows)
    /\ stage = "base" => joinsDone = 0 /\ filteredEarly = FALSE /\ totalFound = 0
    /\ stage = "join" /\ filteredEarly = FALSE => totalFound = 0
    /\ filteredEarly = TRUE => CanApplyEarlyWindow(query, joinsDone)
    /\ joinsDone # 0 => Len(currentRows) <= JoinResultLimit

\* What the rows are, next to those of the relational reading.
JoiningInv ==
    stage = "join" =>
        /\ filteredEarly = FALSE => LateAt(tables, query, joinsDone, currentRows)
        /\ filteredEarly = TRUE => EarlyAt(tables, query, joinsDone, currentRows, totalFound)
        /\ SetsAt(tables, query, joinsDone, currentRows, filteredEarly)

\* The response.
AnswerInv ==
    /\ JoinIsRelational /\ NothingIsInvented /\ AggregatesSeeEveryRow /\ TotalIsExact
    /\ stage = "done" => response.agg = IF query.agg = Absent THEN Absent ELSE Aggregate(currentRows, query.agg)

JoinInv == JoinRowsInv /\ JoiningInv /\ AnswerInv

\* While there is no response nothing is said of it.
LEMMA NoAnswerYet ==
    ASSUME stage # "done"
    PROVE  AnswerInv
BY DEF AnswerInv, JoinIsRelational, NothingIsInvented, AggregatesSeeEveryRow, TotalIsExact

\* At the start there are no rows.
LEMMA JoinInvInit ==
    ASSUME JoinInit
    PROVE  JoinInv
<1>1. tables \in Databases /\ query \in Queries /\ stage = "base" /\ joinsDone = 0 /\ currentRows = <<>>
      /\ filteredEarly = FALSE /\ totalFound = 0
  BY DEF JoinInit
<1>2. AreRows(query, joinsDone, currentRows)
  <2>1. IsList(currentRows) /\ DOMAIN currentRows = {}
    BY <1>1 DEF IsList
  <2> QED
    BY <2>1 DEF AreRows
<1>3. joinsDone \in 0 .. Len(query.joins)
  BY <1>1, RefRowsIs
<1>4. JoinRowsInv
  BY <1>1, <1>2, <1>3 DEF JoinRowsInv
<1>5. JoiningInv /\ AnswerInv
  BY <1>1, NoAnswerYet DEF JoiningInv
<1> QED
  BY <1>4, <1>5 DEF JoinInv

\* The base rows are, of those that meet the filters on the base, all.
LEMMA FetchBaseKeeps ==
    ASSUME JoinInv, FetchBase
    PROVE  JoinInv'
<1>1. /\ tables \in Databases /\ query \in Queries /\ joinsDone = 0 /\ filteredEarly = FALSE /\ totalFound = 0
      /\ joinsDone \in 0 .. Len(query.joins)
  BY DEF JoinInv, JoinRowsInv, FetchBase
<1>2. /\ stage' = "join" /\ tables' = tables /\ query' = query /\ joinsDone' = joinsDone
      /\ filteredEarly' = filteredEarly /\ totalFound' = totalFound
  BY DEF FetchBase
<1>3. PICK found \in Answers(tables, Base, {}, Pushdown(query, Base)) :
         currentRows' = [i \in DOMAIN found |-> Flat(tables, query, Base, found[i])]
  BY DEF FetchBase
<1>4. AreRows(query, 0, currentRows') /\ Matched(Mentioned(query), currentRows', Whole(tables, Base), FiltersAt(query, 0))
  BY <1>1, <1>3, BaseMatched
<1>5. RefAfter(tables, query, 0) = Whole(tables, Base)
  <2>1. Len(query.joins) \in Nat
    BY <1>1, RefRowsIs
  <2> QED
    BY <1>1, <2>1, RefAfterIs
<1>6. LateAt(tables, query, 0, currentRows')
  BY <1>4, <1>5 DEF LateAt
<1>7. SetsAt(tables, query, 0, currentRows', FALSE)
  <2>1. SetAlike(Mentioned(query), currentRows', RefAfter(tables, query, 0), FiltersAt(query, 0))
    BY <1>4, <1>5, MatchedIsSet
  <2> QED
    BY <2>1 DEF SetsAt
<1>8. JoinRowsInv'
  BY <1>1, <1>2, <1>4 DEF JoinRowsInv
<1>9. JoiningInv'
  BY <1>1, <1>2, <1>6, <1>7 DEF JoiningInv
<1>10. AnswerInv'
  BY <1>2 DEF AnswerInv, JoinIsRelational, NothingIsInvented, AggregatesSeeEveryRow, TotalIsExact
<1> QED
  BY <1>8, <1>9, <1>10 DEF JoinInv

\* A join that is small enough, and the cut after it.
LEMMA ApplyNextJoinKeeps ==
    ASSUME JoinInv, ApplyNextJoin
    PROVE  JoinInv'
<1> DEFINE k == joinsDone + 1
<1>1. /\ tables \in Databases /\ query \in Queries /\ joinsDone \in 0 .. Len(query.joins) /\ stage = "join"
      /\ filteredEarly \in BOOLEAN /\ AreRows(query, joinsDone, currentRows) /\ joinsDone < Len(query.joins)
      /\ filteredEarly = FALSE => totalFound = 0 /\ LateAt(tables, query, joinsDone, currentRows)
      /\ filteredEarly = TRUE => /\ CanApplyEarlyWindow(query, joinsDone)
                                 /\ EarlyAt(tables, query, joinsDone, currentRows, totalFound)
      /\ SetsAt(tables, query, joinsDone, currentRows, filteredEarly)
      /\ joinsDone # 0 => Len(currentRows) <= JoinResultLimit
  BY DEF JoinInv, JoinRowsInv, JoiningInv, ApplyNextJoin
<1>2. Len(query.joins) \in Nat
  BY <1>1, RefRowsIs
<1>3. k \in 1 .. Len(query.joins) /\ k \in 0 .. Len(query.joins) /\ k - 1 = joinsDone /\ k # 0
  BY <1>1, <1>2
<1>4. tables' = tables /\ query' = query
  BY DEF ApplyNextJoin
<1>5. PICK list \in FetchedRows(tables, query, currentRows, query.joins[k]) :
        LET joined == ApplyJoin(currentRows, list, query.joins[k])
            window == ~filteredEarly /\ CanApplyEarlyWindow(query, k)
            passed == PassAt(joined, PostJoinFilters(query), query.op)
        IN IF Len(joined) > JoinResultLimit
           THEN stage' = "failed" /\ UNCHANGED <<joinsDone, currentRows, filteredEarly, totalFound>>
           ELSE /\ joinsDone' = k /\ stage' = stage
                /\ filteredEarly' = (filteredEarly \/ window)
                /\ totalFound' = IF window THEN Len(passed) ELSE totalFound
                /\ currentRows' = IF window THEN Window(query, Sorted(query, passed)) ELSE joined
  BY DEF ApplyNextJoin
<1> DEFINE joined == ApplyJoin(currentRows, list, query.joins[k])
           passed == PassAt(joined, PostJoinFilters(query), query.op)
           new == Window(query, Sorted(query, passed))
<1>6. JoinMakes(tables, query, k, currentRows, joined)
  BY <1>1, <1>3 DEF JoinMakes
<1>7. AreRows(query, k, joined) /\ Len(joined) \in Nat
  <2>1. AreRows(query, k, joined)
    BY <1>1, <1>6, JoinMakesIs
  <2> QED
    BY <2>1, ListFacts DEF AreRows
<1>8. Len(joined) > JoinResultLimit =>
         stage' = "failed" /\ UNCHANGED <<joinsDone, currentRows, filteredEarly, totalFound>>
  BY <1>5
<1>9. ~(Len(joined) > JoinResultLimit) =>
         /\ joinsDone' = k /\ stage' = stage
         /\ filteredEarly = TRUE => filteredEarly' = TRUE /\ totalFound' = totalFound /\ currentRows' = joined
         /\ filteredEarly = FALSE /\ CanApplyEarlyWindow(query, k) =>
              filteredEarly' = TRUE /\ totalFound' = Len(passed) /\ currentRows' = new
         /\ filteredEarly = FALSE /\ ~CanApplyEarlyWindow(query, k) =>
              filteredEarly' = FALSE /\ totalFound' = totalFound /\ currentRows' = joined
  BY <1>5
<1> HIDE DEF k, joined, passed, new
<1>10. CASE Len(joined) > JoinResultLimit
  <2>1. JoinRowsInv'
    BY <1>1, <1>4, <1>8, <1>10 DEF JoinRowsInv
  <2>2. JoiningInv'
    BY <1>8, <1>10 DEF JoiningInv
  <2>3. AnswerInv'
    BY <1>8, <1>10 DEF AnswerInv, JoinIsRelational, NothingIsInvented, AggregatesSeeEveryRow, TotalIsExact
  <2> QED
    BY <2>1, <2>2, <2>3 DEF JoinInv
<1>11. CASE ~(Len(joined) > JoinResultLimit)
  <2>1. Len(joined) <= JoinResultLimit
    BY <1>7, <1>11, LimitIsPositive
  <2>2. joinsDone' = k /\ stage' = "join"
    BY <1>1, <1>9, <1>11
  <2>3. AnswerInv'
    BY <2>2 DEF AnswerInv, JoinIsRelational, NothingIsInvented, AggregatesSeeEveryRow, TotalIsExact
  <2>4. CASE filteredEarly = TRUE
    <3>1. filteredEarly' = TRUE /\ totalFound' = totalFound /\ currentRows' = joined
      BY <1>9, <1>11, <2>4
    <3>2. CanApplyEarlyWindow(query, k)
      <4>1. k \in joinsDone + 1 .. Len(query.joins)
        BY <1>1, <1>2, <1>3
      <4> QED
        BY <1>1, <2>4, <4>1, WindowDecorates
    <3>3. EarlyAt(tables, query, k, joined, totalFound)
      BY <1>1, <1>3, <1>6, <2>4, NextEarly
    <3>4. SetsAt(tables, query, k, joined, TRUE)
      BY <1>1, <1>3, <1>6, <2>4, NextSets
    <3>5. JoinRowsInv'
      BY <1>1, <1>3, <1>4, <1>7, <2>1, <2>2, <3>1, <3>2 DEF JoinRowsInv
    <3>6. JoiningInv'
      BY <1>4, <2>2, <3>1, <3>3, <3>4 DEF JoiningInv
    <3> QED
      BY <2>3, <3>5, <3>6 DEF JoinInv
  <2>5. ASSUME filteredEarly = FALSE
        PROVE  LateAt(tables, query, k, joined) /\ SetsAt(tables, query, k, joined, FALSE)
    <3>1. LateAt(tables, query, k, joined)
      BY <1>1, <1>3, <1>6, <2>5, NextLate
    <3>2. SetsAt(tables, query, k, joined, FALSE)
      BY <1>1, <1>3, <1>6, <2>5, NextSets
    <3> QED
      BY <3>1, <3>2
  <2>6. CASE filteredEarly = FALSE /\ CanApplyEarlyWindow(query, k)
    <3>1. filteredEarly' = TRUE /\ totalFound' = Len(passed) /\ currentRows' = new
      BY <1>9, <1>11, <2>6
    <3>2. passed = PassAt(joined, PostJoinFilters(query), query.op) /\ new = Window(query, Sorted(query, passed))
      BY DEF passed, new
    <3>3. AreRows(query, k, new) /\ Len(new) <= Len(joined)
      BY <1>1, <1>7, <3>2, CutRows
    <3>4. Len(new) <= JoinResultLimit
      <4>1. Len(new) \in Nat
        BY <3>3, ListFacts DEF AreRows
      <4> QED
        BY <1>7, <2>1, <3>3, <4>1, LimitIsPositive
    <3>5. EarlyAt(tables, query, k, new, Len(passed))
      BY <1>1, <1>3, <1>7, <2>5, <2>6, <3>2, NextCut
    <3>6. SetsAt(tables, query, k, new, TRUE)
      BY <1>1, <1>3, <1>7, <2>1, <2>5, <2>6, <3>2, NextCutSets
    <3>7. JoinRowsInv'
      BY <1>1, <1>3, <1>4, <2>2, <2>6, <3>1, <3>3, <3>4 DEF JoinRowsInv
    <3>8. JoiningInv'
      BY <1>4, <2>2, <3>1, <3>5, <3>6 DEF JoiningInv
    <3> QED
      BY <2>3, <3>7, <3>8 DEF JoinInv
  <2>7. CASE filteredEarly = FALSE /\ ~CanApplyEarlyWindow(query, k)
    <3>1. filteredEarly' = FALSE /\ totalFound' = totalFound /\ currentRows' = joined
      BY <1>9, <1>11, <2>7
    <3>2. JoinRowsInv'
      BY <1>1, <1>3, <1>4, <1>7, <2>1, <2>2, <2>7, <3>1 DEF JoinRowsInv
    <3>3. JoiningInv'
      BY <1>4, <2>2, <2>5, <2>7, <3>1 DEF JoiningInv
    <3> QED
      BY <2>3, <3>2, <3>3 DEF JoinInv
  <2> QED
    BY <1>1, <2>4, <2>6, <2>7
<1> QED
  BY <1>10, <1>11

\* What passes is some of the rows.
LEMMA PassedRows ==
    ASSUME NEW qry, NEW k, NEW rows, AreRows(qry, k, rows), NEW A \in SUBSET DOMAIN rows
    PROVE  AreRows(qry, k, PickAt(rows, A)) /\ Len(PickAt(rows, A)) \in Nat /\ Len(PickAt(rows, A)) <= Len(rows)
<1>1. AreRows(qry, k, PickAt(rows, A)) /\ Len(PickAt(rows, A)) = Cardinality(A)
  BY PickedRows
<1>2. DOMAIN rows = 1 .. Len(rows) /\ Len(rows) \in Nat
  BY ListFacts DEF AreRows
<1>3. IsFiniteSet(DOMAIN rows) /\ Cardinality(DOMAIN rows) = Len(rows)
  BY <1>2, CountTo
<1>4. Cardinality(A) <= Cardinality(DOMAIN rows)
  BY <1>3, FS_Subset
<1>5. Len(PickAt(rows, A)) \in Nat
  BY <1>1, ListFacts DEF AreRows
<1> QED
  BY <1>1, <1>3, <1>4, <1>5

\* The last filters leave rows, no more of them than there were.
LEMMA LastRows ==
    ASSUME NEW qry, NEW k, NEW rows, AreRows(qry, k, rows), NEW early \in BOOLEAN,
           NEW kept, kept = LastFilters(qry, rows, early)
    PROVE  AreRows(qry, k, kept) /\ Len(kept) \in Nat /\ Len(kept) <= Len(rows)
<1> DEFINE passed == IF early THEN rows ELSE PassAt(rows, PostJoinFilters(qry), qry.op)
<1>1. Len(rows) \in Nat
  BY ListFacts DEF AreRows
<1>2. AreRows(qry, k, passed) /\ Len(passed) \in Nat /\ Len(passed) <= Len(rows)
  <2>1. CASE early
    BY <1>1, <2>1
  <2>2. CASE ~early
    <3> DEFINE A == {i \in DOMAIN rows : Passes(rows[i], PostJoinFilters(qry), qry.op)}
    <3>1. passed = PickAt(rows, A)
      BY <2>2 DEF PassAt
    <3>2. A \in SUBSET DOMAIN rows
      OBVIOUS
    <3> HIDE DEF A, passed
    <3> QED
      BY <3>1, <3>2, PassedRows
  <2> QED
    BY <2>1, <2>2
<1> DEFINE B == {i \in DOMAIN passed : PassesTree(passed[i], qry.tree)}
<1>3. kept = IF qry.tree = Absent THEN passed ELSE PickAt(passed, B)
  BY DEF LastFilters
<1>4. B \in SUBSET DOMAIN passed
  OBVIOUS
<1> HIDE DEF passed, B
<1>5. AreRows(qry, k, PickAt(passed, B)) /\ Len(PickAt(passed, B)) \in Nat /\ Len(PickAt(passed, B)) <= Len(passed)
  BY <1>2, <1>4, PassedRows
<1>6. Len(PickAt(passed, B)) <= Len(rows)
  BY <1>1, <1>2, <1>5
<1> QED
  BY <1>2, <1>3, <1>5, <1>6

\* The response to what the rows are.
LEMMA FinishKeeps ==
    ASSUME JoinInv, Finish
    PROVE  JoinInv'
<1> DEFINE n == Len(query.joins)
           kept == LastFilters(query, currentRows, filteredEarly)
           page == Projected(query, Page(query, Sorted(query, kept)))
           ref == RefRows(tables, query)
           refPage == Projected(query, Page(query, Sorted(query, ref)))
<1>1. /\ tables \in Databases /\ query \in Queries /\ stage = "join" /\ joinsDone = n
      /\ filteredEarly \in BOOLEAN /\ AreRows(query, n, currentRows)
      /\ filteredEarly = FALSE => totalFound = 0 /\ LateAt(tables, query, n, currentRows)
      /\ filteredEarly = TRUE => CanApplyEarlyWindow(query, n) /\ EarlyAt(tables, query, n, currentRows, totalFound)
      /\ SetsAt(tables, query, n, currentRows, filteredEarly)
      /\ joinsDone # 0 => Len(currentRows) <= JoinResultLimit
  BY DEF JoinInv, JoinRowsInv, JoiningInv, Finish
<1>2. /\ tables' = tables /\ query' = query /\ joinsDone' = joinsDone /\ filteredEarly' = filteredEarly /\ stage' = "done"
      /\ currentRows' = kept
      /\ totalFound' = IF totalFound = 0 THEN Len(kept) ELSE totalFound
      /\ response' = [rows |-> page, agg |-> IF query.agg = Absent THEN Absent ELSE Aggregate(kept, query.agg)]
  BY DEF Finish
<1>3. response'.rows = page /\ response'.agg = IF query.agg = Absent THEN Absent ELSE Aggregate(kept, query.agg)
  BY <1>2
<1>4. n \in Nat /\ n # 0 /\ n \in 0 .. n /\ Result(tables, query, n) = Sorted(query, ref)
      /\ Len(Sorted(query, ref)) = Len(ref) /\ AreRows(query, n, ref)
  BY <1>1, RefRowsIs
<1>5. Len(currentRows) <= JoinResultLimit /\ Len(currentRows) \in Nat /\ Len(ref) \in Nat
  BY <1>1, <1>4, ListFacts DEF AreRows
<1> USE DEF kept
<1>6. kept = LastFilters(query, currentRows, filteredEarly)
  OBVIOUS
<1> HIDE DEF n, kept, page, ref, refPage
<1>7. AreRows(query, n, kept) /\ Len(kept) \in Nat /\ Len(kept) <= Len(currentRows)
  BY <1>1, <1>6, LastRows
<1>8. filteredEarly = TRUE => query.tree = Absent /\ query.agg = Absent
  BY <1>1, <1>4, WindowDecorates DEF n
<1>9. ASSUME Sound(tables, query)
      PROVE  /\ page = refPage
             /\ query.agg # Absent => Aggregate(kept, query.agg) = Aggregate(ref, query.agg)
             /\ NoFanOut(tables, query) => totalFound' = Len(ref)
  <2>1. CASE filteredEarly = FALSE
    <3>1. /\ AllMustHold(query)
          /\ Matched(Mentioned(query), currentRows, RefAfter(tables, query, n), FiltersAt(query, n))
      BY <1>1, <1>9, <2>1 DEF Sound, LateAt
    <3>2. kept = LastFilters(query, currentRows, FALSE)
      BY <1>6, <2>1
    <3>3. page = refPage /\ (query.agg # Absent => Aggregate(kept, query.agg) = Aggregate(ref, query.agg))
          /\ Len(kept) = Len(ref)
      BY <1>1, <3>1, <3>2, FinishLate DEF n, page, ref, refPage
    <3> QED
      BY <1>1, <1>2, <2>1, <3>3
  <2>2. CASE filteredEarly = TRUE
    <3>1. /\ Begins(Mentioned(query), currentRows, Result(tables, query, n))
          /\ Enough(query, currentRows, Result(tables, query, n))
          /\ NoFanOut(tables, query) => totalFound = Len(Result(tables, query, n))
      BY <1>1, <1>9, <2>2 DEF EarlyAt
    <3>2. kept = LastFilters(query, currentRows, TRUE)
      BY <1>6, <2>2
    <3>3. query.tree = Absent
      BY <1>8, <2>2
    <3>4. page = refPage /\ kept = currentRows /\ Len(currentRows) <= Len(ref)
      <4>1. /\ AreRows(query, Len(query.joins), currentRows)
            /\ Begins(Mentioned(query), currentRows, Result(tables, query, Len(query.joins)))
            /\ Enough(query, currentRows, Result(tables, query, Len(query.joins)))
        BY <1>1, <3>1 DEF n
      <4>2. tables \in Databases /\ query \in Queries
        BY <1>1
      <4>3. EarlyAnswer(tables, query, currentRows, kept)
        BY <3>2, <3>3, <4>1, <4>2, FinishEarly
      <4> QED
        BY <4>3 DEF EarlyAnswer, page, ref, refPage
    <3>5. ASSUME NoFanOut(tables, query) PROVE totalFound' = Len(ref)
      <4>1. totalFound = Len(ref)
        BY <1>4, <3>1, <3>5
      <4> QED
        BY <1>2, <1>5, <3>4, <4>1
    <3> QED
      BY <1>8, <2>2, <3>4, <3>5
  <2> QED
    BY <1>1, <2>1, <2>2
<1>10. ASSUME ShowsAll(query)
       PROVE  Range(page) = Range(Projected(query, ref))
  <2>1. query.limit \in Nat /\ JoinResultLimit \in Nat \ {0}
    BY <1>1, QueriesAreQueries, LimitIsPositive DEF IsQuery
  <2>2. query.limit >= JoinResultLimit
    BY <1>10 DEF ShowsAll
  <2>3. query.limit # 0 /\ Len(currentRows) <= query.limit
    BY <1>5, <2>1, <2>2
  <2>4. AllMustHold(query) /\ query.offset = 0
    BY <1>10 DEF ShowsAll
  <2>5. /\ SetAlike(Mentioned(query), currentRows, RefAfter(tables, query, n), FiltersAt(query, n))
        /\ filteredEarly => \A i \in DOMAIN currentRows : RefPasses(query, currentRows[i])
    BY <1>1, <1>10 DEF SetsAt
  <2>6. filteredEarly => query.tree = Absent /\ \A i \in DOMAIN currentRows : RefPasses(query, currentRows[i])
    BY <1>8, <2>5
  <2> QED
    BY <1>1, <1>6, <2>3, <2>4, <2>5, <2>6, FinishSets DEF n, page, ref
<1>11. JoinRowsInv'
  <2>1. Len(kept) <= JoinResultLimit
    BY <1>5, <1>7, LimitIsPositive
  <2> QED
    BY <1>1, <1>2, <1>4, <1>7, <2>1 DEF JoinRowsInv, n
<1>12. JoiningInv'
  BY <1>2 DEF JoiningInv
<1>13. AnswerInv'
  <2>1. JoinIsRelational'
    BY <1>2, <1>3, <1>9 DEF JoinIsRelational, ref, refPage
  <2>2. NothingIsInvented'
    BY <1>2, <1>3, <1>10 DEF NothingIsInvented, ShowsAll, ref
  <2>3. AggregatesSeeEveryRow'
    BY <1>2, <1>3, <1>9 DEF AggregatesSeeEveryRow, ref
  <2>4. TotalIsExact'
    BY <1>2, <1>9 DEF TotalIsExact, ref
  <2>5. response'.agg = IF query'.agg = Absent THEN Absent ELSE Aggregate(currentRows', query'.agg)
    BY <1>2, <1>3
  <2> QED
    BY <2>1, <2>2, <2>3, <2>4, <2>5 DEF AnswerInv
<1> QED
  BY <1>11, <1>12, <1>13 DEF JoinInv

\* The rows of execute_join_query are, join after join, those of the relational
\* reading that can still matter, whatever the tables and the query.
THEOREM JoinInvHolds == JoinSpec => []JoinInv
<1>1. JoinInit => JoinInv
  BY JoinInvInit
<1>2. JoinInv /\ [JoinNext]_joinVars => JoinInv'
  <2> SUFFICES ASSUME JoinInv, [JoinNext]_joinVars
               PROVE  JoinInv'
    OBVIOUS
  <2>1. CASE FetchBase
    BY <2>1, FetchBaseKeeps
  <2>2. CASE ApplyNextJoin
    BY <2>2, ApplyNextJoinKeeps
  <2>3. CASE Finish
    BY <2>3, FinishKeeps
  <2>4. CASE UNCHANGED joinVars
    <3> USE <2>4 DEF joinVars
    <3>1. JoinRowsInv'
      BY DEF JoinInv, JoinRowsInv
    <3>2. JoiningInv'
      BY DEF JoinInv, JoiningInv
    <3>3. AnswerInv'
      BY DEF JoinInv, AnswerInv, JoinIsRelational, NothingIsInvented, AggregatesSeeEveryRow, TotalIsExact
    <3> QED
      BY <3>1, <3>2, <3>3 DEF JoinInv
  <2> QED
    BY <2>1, <2>2, <2>3, <2>4 DEF JoinNext
<1> QED
  BY <1>1, <1>2, PTL DEF JoinSpec

\* The response to a query is the page it asks for of the relational result: what
\* fetch_join_rows leaves out, and what the early cut drops, is never missed.
THEOREM JoinIsRelationalHolds == JoinSpec => []JoinIsRelational
<1>1. JoinInv => JoinIsRelational
  BY DEF JoinInv, AnswerInv
<1> QED
  BY <1>1, JoinInvHolds, PTL

\* Rows with the same fingerprint may be shown once instead of twice, but each is a
\* row of the relational result, and each row of it is shown.
THEOREM NothingIsInventedHolds == JoinSpec => []NothingIsInvented
<1>1. JoinInv => NothingIsInvented
  BY DEF JoinInv, AnswerInv
<1> QED
  BY <1>1, JoinInvHolds, PTL

\* run_aggregations is given the rows of the whole result.
THEOREM AggregatesSeeEveryRowHolds == JoinSpec => []AggregatesSeeEveryRow
<1>1. JoinInv => AggregatesSeeEveryRow
  BY DEF JoinInv, AnswerInv
<1> QED
  BY <1>1, JoinInvHolds, PTL

\* The groups of an aggregation part its rows: none is in two, none in no group.
THEOREM GroupsAddUpHolds == JoinSpec => []GroupsAddUp
<1>1. JoinInv => GroupsAddUp
  <2> SUFFICES ASSUME JoinInv, stage = "done", query.agg # Absent, query.agg.kind \in {"GroupBy", "Sum"}, query.agg.having = 0
               PROVE  SumFunction(response.agg.groups) =
                      IF query.agg.kind = "GroupBy" THEN Len(currentRows)
                      ELSE SumFunction([i \in DOMAIN currentRows |-> CellOr(currentRows[i], query.agg.field)[1]])
    BY DEF GroupsAddUp
  <2>1. AreRows(query, joinsDone, currentRows) /\ response.agg = Aggregate(currentRows, query.agg)
    BY DEF JoinInv, JoinRowsInv, AnswerInv
  <2>2. SumFunction(Aggregate(currentRows, query.agg).groups) =
           IF query.agg.kind = "GroupBy" THEN Len(currentRows)
           ELSE SumFunction([i \in DOMAIN currentRows |-> CellOr(currentRows[i], query.agg.field)[1]])
    BY <2>1, GroupsSum
  <2> QED
    BY <2>1, <2>2
<1> QED
  BY <1>1, JoinInvHolds, PTL

\* total_found is the length of the whole result, whether it is counted at the end or
\* before the LEFT joins that were left.
THEOREM TotalIsExactHolds == JoinSpec => []TotalIsExact
<1>1. JoinInv => TotalIsExact
  BY DEF JoinInv, AnswerInv
<1> QED
  BY <1>1, JoinInvHolds, PTL

=============================================================================
