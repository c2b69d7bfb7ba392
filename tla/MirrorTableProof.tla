-------------------------- MODULE MirrorTableProof --------------------------
(***************************************************************************)
(* Proofs about MirrorTable, for every set of keys and values, every       *)
(* rotation and index-save setting and any number of rows and crashes:     *)
(* type correctness, that no stored row changes, that a deleted key shows  *)
(* no row again, and that a flushed row survives every crash.  The last    *)
(* two are about opens that do not skip the recovery work.                 *)
(***************************************************************************)
EXTENDS MirrorTable, TableOpsProof

\* What a crash leaves behind is a table whose log has exactly w entries.
LEMMA SurvivingIsTable ==
    ASSUME WellFormed(t), NEW n \in Nat, NEW w \in 0 .. Len(t.wal)
    PROVE  WellFormed(Surviving(n, w)) /\ Len(Surviving(n, w).wal) = w
<1> DEFINE new == Surviving(n, w)
           left == {l \in DOMAIN t.rows : l[1] # t.active \/ l[2] <= n}
<1>1. /\ DOMAIN new = DOMAIN t
      /\ new.active = t.active /\ new.count = n /\ new.flushed = n
      /\ new.rows = [l \in left |-> t.rows[l]] /\ new.deleted = t.deleted
      /\ new.index = NoIndex /\ new.wal = SubSeq(t.wal, 1, w)
  BY DEF Surviving, WellFormed, IsTable
<1>2. NoIndex \in Index
  BY DEF NoIndex, Index
<1>3. t.wal \in Seq(WalOp) /\ Len(t.wal) \in Nat /\ w \in Nat /\ w <= Len(t.wal)
  BY DEF WellFormed, IsTable
<1>4. SubSeq(t.wal, 1, w) \in Seq(WalOp) /\ Len(SubSeq(t.wal, 1, w)) = w
  BY <1>3
<1>5. IsTable(new) /\ Bounded(new)
  <2> HIDE DEF new
  <2> QED
    BY <1>1, <1>2, <1>4 DEF WellFormed, IsTable, Bounded
<1> QED
  BY <1>1, <1>4, <1>5 DEF WellFormed

-----------------------------------------------------------------------------
(* Type correctness *)

\* The inductive form of TypeOK: the rows are bounded as well, without which
\* reconcile_orphan_rows might have no newest row to keep.
TypeInv == TypeOK /\ Bounded(t)

\* A fresh table directory.
LEMMA TypeInit == Init => TypeInv
<1> SUFFICES ASSUME Init PROVE TypeInv
  OBVIOUS
<1>1. NoIndex \in Index
  BY DEF NoIndex, Index
<1>2. IsTable(t) /\ Bounded(t)
  BY <1>1 DEF Init, EmptyTable, IsTable, Bounded
<1>3. Len(t.wal) = 0 /\ walFile \in 0 .. Len(t.wal)
  BY DEF Init, EmptyTable
<1>4. ev \in [kind : {"none", "write", "update", "delete"}, pk : PK \cup {NoVal}, val : Val \cup {NoVal}]
  BY DEF Init, NoEvent
<1>5. torn \in BOOLEAN
  BY DEF Init
<1>6. pc = "down" /\ saves = 0 /\ ops = 0 /\ crashes = 0 /\ base = 0
      /\ exposure = {} /\ todo \in Seq(WalOp) /\ idxFile \in Index
      /\ content \in [PK -> Val \cup {NoVal, Unknown}]
      /\ kept \in [PK -> Val \cup {NoVal, Unknown}]
  BY <1>1 DEF Init
<1> QED
  BY <1>2, <1>3, <1>4, <1>5, <1>6, BoundsAreNat DEF TypeInv, TypeOK

\* A step that only applies operations to the open table keeps the log file's
\* length within the log.
LEMMA GrownLog ==
    ASSUME WellFormed(t), walFile \in 0 .. Len(t.wal), Grown(t, t')
    PROVE  walFile \in 0 .. Len(t'.wal)
<1>1. Len(t.wal) \in Nat /\ Len(t'.wal) \in Nat
  BY DEF Grown, WellFormed, IsTable
<1> QED
  BY <1>1 DEF Grown

\* The rows of a row event.
LEMMA TypeRowStep == TypeInv /\ RowStep => TypeInv'
<1> SUFFICES ASSUME TypeInv, RowStep PROVE TypeInv'
  OBVIOUS
<1> USE DEF TypeInv, TypeOK, disk, recovery, bounds
<1>0. WellFormed(t)
  BY DEF WellFormed
<1>1. ASSUME NEW p \in PK, DeleteRow(p) PROVE TypeInv'
  <2>1. Grown(t, t')
    BY <1>0, <1>1, DeleteGrown DEF DeleteRow
  <2>2. walFile' \in 0 .. Len(t'.wal)
    BY <1>0, <1>1, <2>1, GrownLog DEF DeleteRow
  <2>3. content' \in [PK -> Val \cup {NoVal, Unknown}] /\ kept' \in [PK -> Val \cup {NoVal, Unknown}]
    BY <1>1 DEF DeleteRow, Touch, NowReads
  <2> QED
    BY <1>1, <2>1, <2>2, <2>3, BoundsAreNat DEF DeleteRow, Grown, WellFormed
<1>2. ASSUME NEW p \in PK, NEW v \in Val, WriteRow(p, v) PROVE TypeInv'
  <2>1. Grown(t, GetRow(t, p)) /\ WellFormed(GetRow(t, p))
    BY <1>0, GetRowGrown DEF Grown
  <2>2. Grown(GetRow(t, p), t')
    BY <1>2, <2>1, InsertGrown DEF WriteRow
  <2>3. Grown(t, t')
    BY <1>0, <2>1, <2>2 DEF Grown, WellFormed, IsTable
  <2>4. walFile' \in 0 .. Len(t'.wal)
    BY <1>0, <1>2, <2>3, GrownLog DEF WriteRow
  <2>5. content' \in [PK -> Val \cup {NoVal, Unknown}] /\ kept' \in [PK -> Val \cup {NoVal, Unknown}]
    BY <1>2 DEF WriteRow, Touch, NowReads
  <2> QED
    BY <1>2, <2>3, <2>4, <2>5, BoundsAreNat DEF WriteRow, Grown, WellFormed
<1>3. ASSUME NEW p \in PK, NEW v \in Val, NEW k \in {"write", "update"}, UpdateDelete(k, p, v)
      PROVE  TypeInv'
  <2>1. Grown(t, GetRow(t, p)) /\ WellFormed(GetRow(t, p))
    BY <1>0, GetRowGrown DEF Grown
  <2>2. Grown(GetRow(t, p), t')
    BY <1>3, <2>1, DeleteGrown DEF UpdateDelete
  <2>3. Grown(t, t')
    BY <1>0, <2>1, <2>2 DEF Grown, WellFormed, IsTable
  <2>4. walFile' \in 0 .. Len(t'.wal)
    BY <1>0, <1>3, <2>3, GrownLog DEF UpdateDelete
  <2>5. content' \in [PK -> Val \cup {NoVal, Unknown}] /\ kept' \in [PK -> Val \cup {NoVal, Unknown}]
    BY <1>3 DEF UpdateDelete, Touch, NowReads
  <2> QED
    BY <1>3, <2>3, <2>4, <2>5, BoundsAreNat DEF UpdateDelete, Grown, WellFormed
<1> QED
  BY <1>1, <1>2, <1>3 DEF RowStep

\* The calls a thread finishes once it holds the table.
LEMMA TypeContinue == TypeInv /\ Continue => TypeInv'
<1> SUFFICES ASSUME TypeInv, Continue PROVE TypeInv'
  OBVIOUS
<1> USE DEF TypeInv, TypeOK, disk, recovery, bounds, history
<1>0. WellFormed(t) /\ Len(t.wal) \in Nat /\ t.wal \in Seq(WalOp)
  BY DEF WellFormed, IsTable
<1>1. CASE UpdateInsert
  <2>1. Grown(t, t')
    BY <1>0, <1>1, InsertGrown DEF UpdateInsert
  <2>2. walFile' \in 0 .. Len(t'.wal)
    BY <1>0, <1>1, <2>1, GrownLog DEF UpdateInsert
  <2>3. content' \in [PK -> Val \cup {NoVal, Unknown}]
    BY <1>1 DEF UpdateInsert, NowReads
  <2> QED
    BY <1>1, <2>1, <2>2, <2>3 DEF UpdateInsert, Grown, WellFormed
<1>2. CASE UpdateReconcile
  <2>1. Grown(t, t')
    BY <1>0, <1>2, ReconcileGrown DEF UpdateReconcile
  <2>2. walFile' \in 0 .. Len(t'.wal)
    BY <1>0, <1>2, <2>1, GrownLog DEF UpdateReconcile
  <2> QED
    BY <1>2, <2>1, <2>2 DEF UpdateReconcile, Grown, WellFormed
<1>3. CASE EndBatch
  <2>1. Grown(t, t')
    BY <1>0, <1>3, ReconcileGrown DEF EndBatch, Grown
  <2>2. walFile' \in 0 .. Len(t'.wal)
    BY <1>0, <1>3, <2>1, GrownLog DEF EndBatch
  <2>3. pc' \in {"rotate", "idle"}
    BY <1>3 DEF EndBatch
  <2> QED
    BY <1>3, <2>1, <2>2, <2>3 DEF EndBatch, Grown, WellFormed, NoEvent
<1>4. CASE SealSegment
  <2>1. t'.wal = t.wal /\ IsTable(t')
    BY <1>4, SMTT(20) DEF SealSegment, IsTable
  <2>2. Bounded(t)'
    BY <1>4, SMTT(20) DEF SealSegment, IsTable, Bounded
  <2> QED
    BY <1>4, <2>1, <2>2 DEF SealSegment
<1>5. CASE FinishRotation
  <2>1. walFile' \in 0 .. Len(t'.wal) /\ idxFile' \in Index /\ pc' \in {"truncate", "idle"}
        /\ saves' \in Nat
    BY <1>0, <1>5 DEF FinishRotation, FlushWalAndMaybeSaveIndex, IsTable
  <2> QED
    BY <1>5, <2>1 DEF FinishRotation, FlushWalAndMaybeSaveIndex
<1>6. CASE TruncateWal
  <2>1. NoIndex \in Index
    BY DEF NoIndex, Index
  <2>2. t'.wal = <<>> /\ IsTable(t') /\ Bounded(t)'
    BY <1>6, <2>1 DEF TruncateWal, IsTable, Bounded
  <2>3. walFile' \in 0 .. Len(t'.wal)
    BY <1>6, <2>2 DEF TruncateWal
  <2> QED
    BY <1>6, <2>2, <2>3 DEF TruncateWal
<1>7. CASE ReplayOp
  <2>1. Head(todo) \in WalOp /\ Tail(todo) \in Seq(WalOp)
    BY <1>7 DEF ReplayOp
  <2>2. Grown(t, t')
    BY <1>0, <1>7, <2>1, ReplayGrown DEF ReplayOp
  <2>3. walFile' \in 0 .. Len(t'.wal)
    BY <1>0, <1>7, <2>2, GrownLog DEF ReplayOp
  <2> QED
    BY <1>7, <2>1, <2>2, <2>3 DEF ReplayOp, Grown, WellFormed
<1>8. CASE ReplaySaveIndex
  BY <1>0, <1>8 DEF ReplaySaveIndex, IsTable
<1>9. CASE ReplayTruncate
  <2>1. t'.wal = <<>> /\ IsTable(t') /\ Bounded(t)'
    BY <1>9 DEF ReplayTruncate, IsTable, Bounded
  <2>2. walFile' \in 0 .. Len(t'.wal)
    BY <1>9, <2>1 DEF ReplayTruncate
  <2> QED
    BY <1>9, <2>1, <2>2 DEF ReplayTruncate
<1>10. CASE OpenReconcile
  <2>1. Grown(t, t')
    BY <1>0, <1>10, ReconcileGrown DEF OpenReconcile
  <2>2. walFile' \in 0 .. Len(t'.wal)
    BY <1>0, <1>10, <2>1, GrownLog DEF OpenReconcile
  <2> QED
    BY <1>10, <2>1, <2>2 DEF OpenReconcile, Grown, WellFormed
<1> QED
  BY <1>1, <1>2, <1>3, <1>4, <1>5, <1>6, <1>7, <1>8, <1>9, <1>10 DEF Continue

\* Flushing, closing, opening and dying.
LEMMA TypeRest ==
    TypeInv /\ (FlushActiveSegmentBuffers \/ Close \/ Open \/ OpenFails \/ OpenForQuery
                \/ Crash \/ FastExit) => TypeInv'
<1> SUFFICES ASSUME TypeInv,
                    FlushActiveSegmentBuffers \/ Close \/ Open \/ OpenFails \/ OpenForQuery
                    \/ Crash \/ FastExit
             PROVE  TypeInv'
  OBVIOUS
<1> USE DEF TypeInv, TypeOK, disk, recovery, bounds, history
<1>0. WellFormed(t) /\ Len(t.wal) \in Nat /\ t.wal \in Seq(WalOp)
      /\ t.flushed \in Nat /\ t.count \in Nat
  BY DEF WellFormed, IsTable
<1>a. NoIndex \in Index
  BY DEF NoIndex, Index
<1>1. CASE FlushActiveSegmentBuffers
  <2>1. Grown(t, t') /\ IsTable(t') /\ Bounded(t)'
    BY <1>0, <1>1, FlushBuffersGrown DEF FlushActiveSegmentBuffers, Grown, WellFormed
  <2>2. Len(t'.wal) \in Nat /\ t'.index \in Index
    BY <2>1 DEF IsTable
  <2>3. walFile' \in 0 .. Len(t'.wal) /\ idxFile' \in Index /\ pc' \in {"truncate", "idle"}
        /\ saves' \in Nat /\ kept' = content
    BY <1>1, <2>2 DEF FlushActiveSegmentBuffers, FlushWalAndMaybeSaveIndex
  <2> QED
    BY <1>1, <2>1, <2>3 DEF FlushActiveSegmentBuffers
<1>2. CASE Close
  <2>1. WellFormed(FlushBuffers(t)) /\ FlushBuffers(t).wal = t.wal
    BY <1>0, FlushBuffersGrown DEF Grown, FlushBuffers, WellFormed, IsTable
  <2>2. IsTable(t') /\ Bounded(t)' /\ t'.wal = t.wal
    BY <1>2, <1>a, <2>1 DEF Close, WellFormed, IsTable, Bounded
  <2>3. walFile' \in 0 .. Len(t'.wal) /\ idxFile' \in Index /\ pc' \in {"closing", "down"}
        /\ saves' \in Nat /\ kept' = content
    BY <1>0, <1>2, <2>2 DEF Close, IsTable
  <2> QED
    BY <1>2, <2>2, <2>3 DEF Close
<1>3. CASE Open
  <2>1. Grown(t, t')
    BY <1>0, <1>3, LoadGrown DEF Open
  <2>2. walFile' \in 0 .. Len(t'.wal)
    BY <1>0, <1>3, <2>1, GrownLog DEF Open
  <2> QED
    BY <1>0, <1>3, <2>1, <2>2 DEF Open, Grown, WellFormed
<1>4. CASE OpenFails
  BY <1>4 DEF OpenFails, vars, Bounded
<1>5. CASE OpenForQuery
  <2>1. Grown(t, t')
    BY <1>0, <1>5, LoadGrown DEF OpenForQuery
  <2>2. walFile' \in 0 .. Len(t'.wal)
    BY <1>0, <1>5, <2>1, GrownLog DEF OpenForQuery
  <2> QED
    BY <1>0, <1>5, <2>1, <2>2 DEF OpenForQuery, Grown, WellFormed
<1>6. CASE Crash
  <2>1. PICK n \in t.flushed .. t.count, w \in walFile .. Len(t.wal), header \in BOOLEAN :
          t' = Surviving(n, w) /\ walFile' = w /\ torn' = header
          /\ exposure' = exposure \cup Windows(n, w)
    BY <1>6 DEF Crash
  <2>2. n \in Nat /\ w \in 0 .. Len(t.wal)
    BY <1>0, <2>1
  <2>3. WellFormed(t') /\ walFile' \in 0 .. Len(t'.wal)
    BY <1>0, <2>1, <2>2, SurvivingIsTable
  <2>4. exposure' \subseteq WindowNames
    BY <2>1 DEF Windows
  <2> QED
    BY <1>6, <2>1, <2>3, <2>4, BoundsAreNat DEF Crash, NoEvent, WellFormed
<1>7. CASE FastExit
  <2>1. PICK n \in t.flushed .. t.count :
          t' = Surviving(n, Len(t.wal)) /\ exposure' = exposure \cup Windows(n, Len(t.wal))
    BY <1>7 DEF FastExit
  <2>2. n \in Nat /\ Len(t.wal) \in 0 .. Len(t.wal)
    BY <1>0, <2>1
  <2>3. WellFormed(t') /\ walFile' \in 0 .. Len(t'.wal)
    BY <1>0, <1>7, <2>1, <2>2, SurvivingIsTable DEF FastExit
  <2>4. exposure' \subseteq WindowNames
    BY <2>1 DEF Windows
  <2> QED
    BY <1>7, <2>1, <2>3, <2>4, BoundsAreNat DEF FastExit, WellFormed
<1> QED
  BY <1>1, <1>2, <1>3, <1>4, <1>5, <1>6, <1>7

\* One step, or none, keeps the types.
LEMMA TypeStep == TypeInv /\ [Next]_vars => TypeInv'
<1> SUFFICES ASSUME TypeInv, [Next]_vars PROVE TypeInv'
  OBVIOUS
<1>1. CASE UNCHANGED vars
  BY <1>1 DEF vars, disk, recovery, bounds, history, TypeInv, TypeOK, Bounded
<1>2. CASE Next
  BY <1>2, TypeRowStep, TypeContinue, TypeRest DEF Next
<1> QED
  BY <1>1, <1>2

\* Every state of the table, its log, its index and the recovery in progress is
\* of its declared type, however often the process dies: in particular the
\* recovery always finds a surviving row where it looks for one.
THEOREM TypeCorrect == Spec => []TypeOK
<1>1. TypeInv => TypeOK
  BY DEF TypeInv
<1> QED
  BY <1>1, TypeInit, TypeStep, PTL DEF Spec

-----------------------------------------------------------------------------
(* No ghost rows *)

\* Cover depends on the rows, the bitmaps and the index only.
LEMMA CoverDepends ==
    ASSUME NEW a, NEW b, IndexCovers(a),
           b.rows = a.rows, b.deleted = a.deleted, b.index = a.index
    PROVE  IndexCovers(b)
  BY DEF IndexCovers, Live

\* get_row_as_map does not disturb it.
LEMMA GetRowCovers ==
    ASSUME NEW tb, WellFormed(tb), IndexCovers(tb), NEW p \in PK
    PROVE  IndexCovers(GetRow(tb, p)) /\ GetRow(tb, p).index = tb.index
<1>1. /\ GetRow(tb, p).rows = tb.rows /\ GetRow(tb, p).deleted = tb.deleted
      /\ GetRow(tb, p).index = tb.index
  BY DEF GetRow, FlushBuffers, WellFormed, IsTable
<1> QED
  BY <1>1, CoverDepends

\* Appending a row for a key without a live row keeps every live row indexed.
LEMMA AppendCovers ==
    ASSUME NEW tb, WellFormed(tb), IndexCovers(tb), NEW p \in PK, NEW v \in Val, LiveOf(tb, p) = {}
    PROVE  IndexCovers(AppendRow(tb, p, v))
<1> DEFINE new == AppendRow(tb, p, v)
           l == <<tb.active, tb.count + 1>>
<1>1. /\ new.rows = [x \in DOMAIN tb.rows \cup {l} |->
                        IF x = l THEN [pk |-> p, val |-> v] ELSE tb.rows[x]]
      /\ new.deleted = tb.deleted
      /\ new.index = [tb.index EXCEPT ![p] = l]
  BY DEF AppendRow, WellFormed, IsTable
<1>2. tb.index \in [PK -> Loc \cup {NoLoc}]
  BY DEF WellFormed, IsTable, Index
<1>3. SUFFICES ASSUME NEW x \in Live(new) PROVE new.index[new.rows[x].pk] = x
  BY DEF IndexCovers
<1>4. CASE x = l
  <2> HIDE DEF l, new
  <2>1. new.rows[x].pk = p
    BY <1>1, <1>4
  <2> QED
    BY <1>1, <1>2, <1>4, <2>1
<1>5. CASE x # l
  <2> HIDE DEF l, new
  <2>1. x \in Live(tb) /\ new.rows[x] = tb.rows[x]
    BY <1>1, <1>5 DEF Live
  <2>2. tb.rows[x].pk # p
    BY <2>1 DEF LiveOf
  <2>3. tb.index[tb.rows[x].pk] = x /\ tb.rows[x].pk \in PK
    BY <2>1 DEF IndexCovers, WellFormed, IsTable, Live, Row
  <2> QED
    BY <1>1, <1>2, <2>1, <2>2, <2>3
<1> QED
  BY <1>4, <1>5

\* Table::insert: an unknown key has no live row, and the row of a known key is
\* tombstoned before the new one is appended.
LEMMA InsertCovers ==
    ASSUME NEW tb, WellFormed(tb), IndexCovers(tb), NEW p \in PK, NEW v \in Val
    PROVE  IndexCovers(Insert(tb, p, v))
<1> DEFINE read == GetRow(tb, p)
           dead == Tombstone(read, tb.index[p])
<1>0. /\ Grown(tb, read) /\ WellFormed(read)
      /\ IndexCovers(read) /\ read.index = tb.index
  BY GetRowGrown, GetRowCovers DEF Grown
<1>1. CASE tb.index[p] = NoLoc
  <2>1. NoLoc \notin Loc
    BY DEF NoLoc, Loc
  <2>2. LiveOf(tb, p) = {}
    BY <1>1, <2>1 DEF IndexCovers, LiveOf, Live, WellFormed, IsTable
  <2> QED
    BY <1>1, <2>2, AppendCovers DEF Insert
<1>2. CASE tb.index[p] # NoLoc /\ Lookup(tb, p) = v
  BY <1>0, <1>2 DEF Insert
<1>3. CASE tb.index[p] # NoLoc /\ Lookup(tb, p) # v
  <2>1. tb.index[p] \in Loc
    BY <1>3 DEF WellFormed, IsTable, Index
  <2>2. WellFormed(dead)
    BY <1>0, <2>1, TombstoneGrown DEF Grown
  <2>3. dead.rows = read.rows /\ dead.deleted = read.deleted \cup {tb.index[p]}
        /\ dead.index = read.index
    BY <1>0 DEF Tombstone, WellFormed, IsTable
  <2>4. IndexCovers(dead) /\ LiveOf(dead, p) = {}
    <3> HIDE DEF read, dead
    <3> QED
      BY <1>0, <2>3 DEF IndexCovers, LiveOf, Live
  <2>5. Insert(tb, p, v) = AppendRow(dead, p, v)
    BY <1>3 DEF Insert
  <2> HIDE DEF dead
  <2> QED
    BY <2>2, <2>4, <2>5, AppendCovers
<1> QED
  BY <1>1, <1>2, <1>3

\* Table::delete tombstones the only live row of its key.
LEMMA DeleteCovers ==
    ASSUME NEW tb, WellFormed(tb), IndexCovers(tb), NEW p \in PK
    PROVE  IndexCovers(Delete(tb, p))
<1> DEFINE new == Delete(tb, p)
<1>1. CASE tb.index[p] = NoLoc
  BY <1>1 DEF Delete
<1>2. CASE tb.index[p] # NoLoc
  <2>1. /\ new.rows = tb.rows /\ new.deleted = tb.deleted \cup {tb.index[p]}
        /\ new.index = [tb.index EXCEPT ![p] = NoLoc]
    BY <1>2 DEF Delete, WellFormed, IsTable
  <2>2. tb.index \in [PK -> Loc \cup {NoLoc}]
    BY DEF WellFormed, IsTable, Index
  <2>3. SUFFICES ASSUME NEW x \in Live(new) PROVE new.index[new.rows[x].pk] = x
    BY DEF IndexCovers
  <2> HIDE DEF new
  <2>4. x \in Live(tb) /\ x # tb.index[p] /\ new.rows[x] = tb.rows[x]
    BY <2>1 DEF Live
  <2>5. tb.index[tb.rows[x].pk] = x /\ tb.rows[x].pk \in PK
    BY <2>4 DEF IndexCovers, WellFormed, IsTable, Live, Row
  <2> QED
    BY <2>1, <2>2, <2>4, <2>5
<1> QED
  BY <1>1, <1>2

\* reconcile_orphan_rows establishes it from any table whatever.
LEMMA ReconcileCovers ==
    ASSUME NEW tb, WellFormed(tb)
    PROVE  IndexCovers(Reconcile(tb))
<1> DEFINE new == Reconcile(tb)
<1>1. /\ new.rows = tb.rows
      /\ new.deleted = tb.deleted \cup {l \in Live(tb) : l # Winner(tb, tb.rows[l].pk)}
      /\ new.index = [p \in PK |-> IF LiveOf(tb, p) = {} THEN tb.index[p] ELSE Winner(tb, p)]
  BY DEF Reconcile, WellFormed, IsTable
<1>2. SUFFICES ASSUME NEW x \in Live(new) PROVE new.index[new.rows[x].pk] = x
  BY DEF IndexCovers
<1> HIDE DEF new
<1>3. x \in Live(tb) /\ x = Winner(tb, tb.rows[x].pk)
  BY <1>1 DEF Live
<1>4. tb.rows[x].pk \in PK /\ LiveOf(tb, tb.rows[x].pk) # {}
  BY <1>3 DEF LiveOf, Live, WellFormed, IsTable, Row
<1> QED
  BY <1>1, <1>3, <1>4

\* The inductive step.  With the lazy query open disabled, a table reaches a
\* serving state only through reconcile_orphan_rows.
LEMMA CoverStep ==
    ASSUME ~LazyQueryOpen, TypeInv, IndexNamesEveryLiveRow, [Next]_vars
    PROVE  IndexNamesEveryLiveRow'
<1> SUFFICES ASSUME Serving' PROVE IndexCovers(t')
  BY DEF IndexNamesEveryLiveRow, IndexCovers, Live
<1>0. WellFormed(t)
  BY DEF TypeInv, TypeOK, WellFormed
<1> USE DEF IndexNamesEveryLiveRow, Serving
<1>1. ASSUME NEW p \in PK, DeleteRow(p) PROVE IndexCovers(t')
  BY <1>0, <1>1, DeleteCovers DEF DeleteRow, BatchOf
<1>2. ASSUME NEW p \in PK, NEW v \in Val, WriteRow(p, v) PROVE IndexCovers(t')
  <2>1. IndexCovers(t)
    BY <1>2 DEF WriteRow, BatchOf
  <2>2. WellFormed(GetRow(t, p)) /\ IndexCovers(GetRow(t, p))
    BY <1>0, <2>1, GetRowGrown, GetRowCovers DEF Grown
  <2> QED
    BY <1>2, <2>2, InsertCovers DEF WriteRow
<1>3. ASSUME NEW p \in PK, NEW v \in Val, NEW k \in {"write", "update"}, UpdateDelete(k, p, v)
      PROVE  IndexCovers(t')
  <2>1. IndexCovers(t)
    BY <1>3 DEF UpdateDelete, BatchOf
  <2>2. WellFormed(GetRow(t, p)) /\ IndexCovers(GetRow(t, p))
    BY <1>0, <2>1, GetRowGrown, GetRowCovers DEF Grown
  <2> QED
    BY <1>3, <2>2, DeleteCovers DEF UpdateDelete
<1>4. CASE UpdateInsert
  BY <1>0, <1>4, InsertCovers DEF UpdateInsert, TypeInv, TypeOK
<1>5. CASE UpdateReconcile \/ OpenReconcile
  BY <1>0, <1>5, ReconcileCovers DEF UpdateReconcile, OpenReconcile
<1>6. CASE EndBatch
  BY <1>0, <1>6, ReconcileCovers DEF EndBatch
<1>7. CASE SealSegment
  <2>1. IndexCovers(t) /\ t'.rows = t.rows /\ t'.deleted = t.deleted /\ t'.index = t.index
    BY <1>0, <1>7 DEF SealSegment, WellFormed, IsTable
  <2> QED
    BY <2>1, CoverDepends
<1>8. CASE FinishRotation
  BY <1>8 DEF FinishRotation
<1>9. CASE TruncateWal
  <2>1. IndexCovers(t) /\ t'.rows = t.rows /\ t'.deleted = t.deleted /\ t'.index = t.index
    BY <1>0, <1>9 DEF TruncateWal, WellFormed, IsTable
  <2> QED
    BY <2>1, CoverDepends
<1>10. CASE ReplayOp \/ ReplaySaveIndex \/ ReplayTruncate \/ Open
  BY <1>10 DEF ReplayOp, ReplaySaveIndex, ReplayTruncate, Open
<1>11. CASE FlushActiveSegmentBuffers
  <2>1. IndexCovers(t) /\ t'.rows = t.rows /\ t'.deleted = t.deleted /\ t'.index = t.index
    BY <1>0, <1>11 DEF FlushActiveSegmentBuffers, FlushBuffers, WellFormed, IsTable
  <2> QED
    BY <2>1, CoverDepends
<1>12. CASE Close
  <2>1. IndexCovers(t) /\ t'.rows = t.rows /\ t'.deleted = t.deleted /\ t'.index = t.index
    BY <1>0, <1>12 DEF Close, FlushBuffers, WellFormed, IsTable
  <2> QED
    BY <2>1, CoverDepends
<1>13. CASE OpenForQuery
  BY <1>13 DEF OpenForQuery
<1>14. CASE Crash \/ FastExit
  BY <1>14 DEF Crash, FastExit
<1>15. CASE OpenFails \/ UNCHANGED vars
  BY <1>15 DEF OpenFails, vars
<1> QED
  BY <1>1, <1>2, <1>3, <1>4, <1>5, <1>6, <1>7, <1>8, <1>9, <1>10, <1>11, <1>12, <1>13,
     <1>14, <1>15 DEF Next, RowStep, Continue

\* The "ghost row" guarantee of reconcile_orphan_rows and the row handlers: with
\* BITTICE_QUERY_OPEN_LAZY off (the default), whatever was lost, spilled or
\* replayed in any number of crashes, a table that serves queries never has a
\* live row other than the one its primary index names.
THEOREM NoGhostRows ==
    ASSUME ~LazyQueryOpen
    PROVE  Spec => []IndexNamesEveryLiveRow
<1>1. Init => IndexNamesEveryLiveRow
  BY DEF Init, IndexNamesEveryLiveRow, Serving
<1>2. TypeInv /\ IndexNamesEveryLiveRow /\ [Next]_vars => IndexNamesEveryLiveRow'
  BY CoverStep
<1> QED
  BY <1>1, <1>2, TypeInit, TypeStep, PTL DEF Spec

-----------------------------------------------------------------------------
(* Segments are append-only *)

RowsInv == TypeInv /\ Layout(t)

\* A step that extends the table keeps its durable rows.
LEMMA ExtendedKeeps ==
    ASSUME Extended(t, t')
    PROVE  Layout(t)' /\ KeepsDurableRows
  BY DEF Extended, KeepsDurableRows, Layout

\* A crash keeps what had been flushed.
LEMMA SurvivingKeeps ==
    ASSUME RowsInv, NEW n \in t.flushed .. t.count, NEW w \in 0 .. Len(t.wal), t' = Surviving(n, w)
    PROVE  Layout(t)' /\ KeepsDurableRows
<1> DEFINE left == {l \in DOMAIN t.rows : l[1] # t.active \/ l[2] <= n}
<1>1. t'.active = t.active /\ t'.count = n /\ t'.flushed = n
      /\ t'.rows = [l \in left |-> t.rows[l]]
  BY DEF Surviving, RowsInv, TypeInv, TypeOK, IsTable
<1>2. t.active \in Nat /\ t.count \in Nat /\ t.flushed \in Nat /\ n \in Nat /\ t.flushed <= n
      /\ \A x \in DOMAIN t.rows : x[1] \in Nat /\ x[2] \in Nat
  BY DEF RowsInv, TypeInv, TypeOK, IsTable, Loc
<1>3. \A x \in DOMAIN t'.rows : x[1] < t'.active \/ (x[1] = t'.active /\ x[2] <= t'.count)
  BY <1>1, <1>2 DEF RowsInv, Layout
<1>4. KeepsDurableRows
  BY <1>1, <1>2 DEF KeepsDurableRows
<1> QED
  BY <1>1, <1>2, <1>3, <1>4 DEF Layout

\* One step.
LEMMA RowsStep ==
    ASSUME RowsInv, [Next]_vars
    PROVE  Layout(t)' /\ KeepsDurableRows
<1>0. WellFormed(t) /\ Layout(t)
  BY DEF RowsInv, TypeInv, TypeOK, WellFormed
<1>1. ASSUME NEW p \in PK, DeleteRow(p) PROVE Layout(t)' /\ KeepsDurableRows
  BY <1>0, <1>1, DeleteExtended, ExtendedKeeps DEF DeleteRow
<1>2. ASSUME NEW p \in PK, NEW v \in Val, WriteRow(p, v) PROVE Layout(t)' /\ KeepsDurableRows
  <2>1. Extended(t, GetRow(t, p)) /\ Extended(GetRow(t, p), t')
    BY <1>0, <1>2, GetRowExtended, InsertExtended DEF WriteRow, Extended
  <2> QED
    BY <1>0, <2>1, ExtendedTwice, ExtendedKeeps
<1>3. ASSUME NEW p \in PK, NEW v \in Val, NEW k \in {"write", "update"}, UpdateDelete(k, p, v)
      PROVE  Layout(t)' /\ KeepsDurableRows
  <2>1. Extended(t, GetRow(t, p)) /\ Extended(GetRow(t, p), t')
    BY <1>0, <1>3, GetRowExtended, DeleteExtended DEF UpdateDelete, Extended
  <2> QED
    BY <1>0, <2>1, ExtendedTwice, ExtendedKeeps
<1>4. CASE UpdateInsert
  BY <1>0, <1>4, InsertExtended, ExtendedKeeps DEF UpdateInsert, RowsInv, TypeInv, TypeOK
<1>5. CASE UpdateReconcile \/ OpenReconcile
  BY <1>0, <1>5, ReconcileExtended, ExtendedKeeps DEF UpdateReconcile, OpenReconcile
<1>6. CASE EndBatch /\ ev.kind = "write"
  BY <1>0, <1>6, ReconcileExtended, ExtendedKeeps DEF EndBatch
<1>7. CASE ReplayOp
  <2>1. Head(todo) \in WalOp
    BY <1>7 DEF ReplayOp, RowsInv, TypeInv, TypeOK
  <2> QED
    BY <1>0, <1>7, <2>1, ReplayExtended, ExtendedKeeps DEF ReplayOp
<1>8. CASE SealSegment
  <2>1. t'.rows = t.rows /\ t'.active = t.active + 1 /\ t'.count = 0 /\ t'.flushed = 0
    BY <1>0, <1>8 DEF SealSegment, WellFormed, IsTable
  <2>2. t.active \in Nat /\ \A x \in DOMAIN t.rows : x[1] \in Nat
    BY <1>0 DEF WellFormed, IsTable, Loc
  <2> QED
    BY <1>0, <2>1, <2>2 DEF Layout, KeepsDurableRows
<1>9. CASE \/ TruncateWal \/ ReplayTruncate \/ Open \/ OpenForQuery
           \/ FlushActiveSegmentBuffers \/ Close
  <2>1. /\ t'.rows = t.rows /\ t'.active = t.active /\ t'.count = t.count
        /\ t'.flushed \in {t.flushed, t.count}
    BY <1>0, <1>9 DEF TruncateWal, ReplayTruncate, Open, OpenForQuery, SyncIndex,
                      FlushActiveSegmentBuffers, Close, FlushBuffers, WellFormed, IsTable
  <2>2. t.flushed \in Nat /\ t.count \in Nat
    BY <1>0 DEF WellFormed, IsTable
  <2> QED
    BY <1>0, <2>1, <2>2 DEF Layout, KeepsDurableRows
<1>10. CASE \/ FinishRotation \/ ReplaySaveIndex \/ OpenFails \/ UNCHANGED vars
            \/ (EndBatch /\ ev.kind # "write")
  <2>1. t' = t
    BY <1>10 DEF FinishRotation, ReplaySaveIndex, OpenFails, EndBatch, vars
  <2> QED
    BY <1>0, <2>1 DEF Layout, KeepsDurableRows
<1>11. CASE Crash
  <2>1. PICK n \in t.flushed .. t.count, w \in walFile .. Len(t.wal) : t' = Surviving(n, w)
    BY <1>11 DEF Crash
  <2>2. w \in 0 .. Len(t.wal)
    BY <2>1 DEF RowsInv, TypeInv, TypeOK, IsTable
  <2> QED
    BY <2>1, <2>2, SurvivingKeeps
<1>12. CASE FastExit
  <2>1. PICK n \in t.flushed .. t.count : t' = Surviving(n, Len(t.wal))
    BY <1>12 DEF FastExit
  <2>2. Len(t.wal) \in 0 .. Len(t.wal)
    BY <1>0 DEF WellFormed, IsTable
  <2> QED
    BY <2>1, <2>2, SurvivingKeeps
<1> QED
  BY <1>1, <1>2, <1>3, <1>4, <1>5, <1>6, <1>7, <1>8, <1>9, <1>10, <1>11, <1>12
     DEF Next, RowStep, Continue

\* Segment files are append-only: no handler, rotation, recovery or crash ever
\* moves, rewrites or drops a row whose bytes had left the process.
THEOREM RowsAreStable == Spec => SegmentsAppendOnly
<1>1. Init => RowsInv
  <2>1. Init => Layout(t)
    BY DEF Init, EmptyTable, Layout
  <2> QED
    BY <2>1, TypeInit DEF RowsInv
<1>2. RowsInv /\ [Next]_vars => RowsInv'
  BY TypeStep, RowsStep DEF RowsInv
<1>3. RowsInv /\ [Next]_vars => [KeepsDurableRows]_vars
  BY RowsStep
<1> QED
  BY <1>1, <1>2, <1>3, PTL DEF Spec, SegmentsAppendOnly


-----------------------------------------------------------------------------
(* What has been flushed survives.  All of this is about behaviours in which  *)
(* no crash has fallen into one of the windows.                               *)

\* The log that counts: during a replay it is what the replay has read, the
\* entries it appends again come after that.
LogEnd == IF pc \in {"replay", "replayed"} THEN walFile ELSE Len(t.wal)
OpsOn(p) == {i \in 1 .. LogEnd : t.wal[i].pk = p}
LastOp(p, j) == j \in OpsOn(p) /\ \A i \in OpsOn(p) : i <= j

\* The rows that a crash leaves: all of them in a closed table, the ones the
\* segment held before a replay appended to it.
Ground == IF pc = "down" THEN t.count ELSE base
OldLive(p) == {l \in LiveOf(t, p) : l[1] # t.active \/ l[2] <= Ground}
Durable(l) == l[1] # t.active \/ l[2] <= t.flushed

\* Tombstones and index entries belong to rows that exist.
Names(ix, p) == ix[p] = NoLoc \/ (ix[p] \in DOMAIN t.rows /\ t.rows[ix[p]].pk = p)
PointInv ==
    /\ t.deleted \subseteq DOMAIN t.rows
    /\ \A p \in PK : Names(t.index, p) /\ Names(idxFile, p)

\* A logged delete has its tombstone; the entry before an insert is a delete.
EntryInv ==
    /\ \A i \in 1 .. LogEnd : t.wal[i].op = "delete" =>
           t.wal[i].loc \in t.deleted /\ t.rows[t.wal[i].loc].pk = t.wal[i].pk
    /\ \A p \in PK : \A i, j \in OpsOn(p) :
           i < j /\ t.wal[j].op = "insert" /\ (\A m \in OpsOn(p) : m <= i \/ j <= m)
               => t.wal[i].op = "delete"

\* While the table is in use: the index is what the log says, what readers see is
\* what the index says, and what is promised across a crash is on disk.
IndexFollowsLog ==
    \A p \in PK :
        /\ \A j \in OpsOn(p) : LastOp(p, j) =>
              IF t.wal[j].op = "insert"
              THEN t.index[p] \in Live(t) /\ t.rows[t.index[p]].val = t.wal[j].val
              ELSE t.index[p] = NoLoc
        /\ OpsOn(p) = {} /\ t.index[p] = NoLoc => idxFile[p] = NoLoc
        /\ \A j \in OpsOn(p) : OpsOn(p) = {j} /\ t.wal[j].op = "insert" =>
              idxFile[p] \in {NoLoc, t.index[p]}
IndexIsRight ==
    \A p \in PK : content[p] # Unknown =>
        IF content[p] = NoVal THEN t.index[p] = NoLoc
        ELSE t.index[p] \in Live(t) /\ t.rows[t.index[p]].val = content[p]
PromisesAreKept ==
    /\ \A p \in PK : kept[p] # Unknown =>
           /\ kept[p] = content[p]
           /\ \A i \in OpsOn(p) : i <= walFile
           /\ \A l \in LiveOf(t, p) : Durable(l)
    /\ \A p \in PK : \A l \in LiveOf(t, p) : Durable(l) \/ OpsOn(p) # {}
PhaseInv ==
    /\ pc = "insert" => /\ t.index[ev.pk] = NoLoc
                        /\ content[ev.pk] = Unknown /\ kept[ev.pk] = Unknown
    /\ pc \in {"sealed", "truncate", "closing"} => t.flushed = t.count
    /\ pc \in {"truncate", "closing"} => idxFile = t.index /\ kept = content
ServingInv == Serving => IndexFollowsLog /\ IndexIsRight /\ PromisesAreKept /\ PhaseInv

\* Between a crash and the end of a replay: the old rows, the index file and the
\* log add up to what was promised.
AddsUp(p) ==
    /\ \A l \in OldLive(p) : t.rows[l].val = content[p]
    /\ OpsOn(p) = {} => IF content[p] = NoVal THEN idxFile[p] = NoLoc ELSE OldLive(p) # {}
    /\ \A j \in OpsOn(p) : LastOp(p, j) =>
          content[p] = IF t.wal[j].op = "insert" THEN t.wal[j].val ELSE NoVal
    /\ \A j \in OpsOn(p) : OpsOn(p) = {j} /\ t.wal[j].op = "insert" => idxFile[p] = NoLoc \/ idxFile[p] \in Live(t)
Recovering == pc \in {"down", "replay", "replayed"}
RecoverInv ==
    Recovering =>
        /\ kept = content /\ Ground <= t.flushed
        /\ pc = "down" => walFile = Len(t.wal) /\ t.flushed = t.count
        /\ \A p \in PK : content[p] # Unknown => AddsUp(p)

\* How far the replay has come.
Done == walFile - Len(todo)
LastDone(p, j) == j \in OpsOn(p) /\ j <= Done /\ \A i \in OpsOn(p) : i <= Done => i <= j
Replaying(p) ==
    /\ \A l \in LiveOf(t, p) \ OldLive(p) : l = t.index[p]
    /\ (\A i \in OpsOn(p) : Done < i) =>
          /\ LiveOf(t, p) \subseteq OldLive(p)
          /\ t.index[p] = idxFile[p] \/ (idxFile[p] = NoLoc /\ t.index[p] \in LiveOf(t, p))
    /\ \A j \in OpsOn(p) : LastDone(p, j) =>
          IF t.wal[j].op = "insert"
          THEN /\ t.index[p] # NoLoc /\ t.rows[t.index[p]].val = t.wal[j].val
               /\ \/ \E i \in OpsOn(p) : i < j
                  \/ content[p] # Unknown /\ OpsOn(p) = {j}
                  => t.index[p] \in Live(t)
          ELSE t.index[p] = NoLoc
ReplayInv ==
    pc \in {"replay", "replayed"} =>
        /\ Len(todo) <= walFile
        /\ \A i \in 1 .. Len(todo) : todo[i] = t.wal[Done + i]
        /\ pc = "replayed" => todo = <<>> /\ idxFile = t.index
        /\ \A p \in PK : Replaying(p)

\* Before the reconcile that ends an open.
ReconcileInv ==
    pc = "reconcile" =>
        /\ t.wal = <<>> /\ kept = content
        /\ \A p \in PK : t.index[p] = NoLoc => idxFile[p] = NoLoc
        /\ \A p \in PK : content[p] # Unknown =>
              /\ \A l \in LiveOf(t, p) : t.rows[l].val = content[p]
              /\ content[p] = NoVal => t.index[p] = NoLoc
              /\ content[p] # NoVal => \E l \in LiveOf(t, p) : Durable(l) \/ l = idxFile[p]

SurvivalInv ==
    exposure = {} => PointInv /\ EntryInv /\ ServingInv /\ RecoverInv /\ ReplayInv /\ ReconcileInv

-----------------------------------------------------------------------------
(* Steps of a table in use *)

\* What the types and the layout say of the table, its log and its files.
LEMMA TableFacts ==
    ASSUME RowsInv
    PROVE  /\ WellFormed(t) /\ Layout(t)
           /\ t.active \in Nat /\ t.count \in Nat /\ t.flushed \in Nat /\ t.flushed <= t.count
           /\ \A l \in DOMAIN t.rows :
                 /\ l \in Loc /\ l[1] \in Nat /\ l[2] \in Nat /\ l # NoLoc
                 /\ t.rows[l].pk \in PK /\ t.rows[l].val \in Val
                 /\ t.rows[l].val # NoVal /\ t.rows[l].val # Unknown
                 /\ l[1] < t.active \/ (l[1] = t.active /\ l[2] <= t.count)
           /\ t.wal \in Seq(WalOp) /\ Len(t.wal) \in Nat /\ walFile \in Nat /\ walFile <= Len(t.wal)
           /\ \A i \in 1 .. Len(t.wal) : t.wal[i] \in WalOp /\ t.wal[i].pk \in PK
           /\ t.index \in [PK -> Loc \cup {NoLoc}] /\ idxFile \in [PK -> Loc \cup {NoLoc}]
           /\ content \in [PK -> Val \cup {NoVal, Unknown}] /\ kept \in [PK -> Val \cup {NoVal, Unknown}]
<1>1. WellFormed(t) /\ Layout(t) /\ IsTable(t)
  BY DEF RowsInv, TypeInv, TypeOK, WellFormed
<1>2. \A l \in DOMAIN t.rows : l \in Loc /\ l[1] \in Nat /\ l[2] \in Nat /\ l # NoLoc
  BY <1>1 DEF IsTable, Loc, NoLoc
<1>3. \A l \in DOMAIN t.rows : /\ t.rows[l].pk \in PK /\ t.rows[l].val \in Val
                              /\ t.rows[l].val # NoVal /\ t.rows[l].val # Unknown
  BY <1>1, ValuesDistinct DEF IsTable, Row
<1>4. t.wal \in Seq(WalOp) /\ Len(t.wal) \in Nat /\ walFile \in Nat /\ walFile <= Len(t.wal)
  BY <1>1 DEF IsTable, RowsInv, TypeInv, TypeOK
<1>5. \A i \in 1 .. Len(t.wal) : t.wal[i] \in WalOp /\ t.wal[i].pk \in PK
  BY <1>4 DEF WalOp
<1> QED
  BY <1>1, <1>2, <1>3, <1>4, <1>5 DEF IsTable, Index, Layout, RowsInv, TypeInv, TypeOK

\* A state in use needs only the parts about such states.
LEMMA ServingParts ==
    ASSUME Serving', PointInv', EntryInv', IndexFollowsLog', IndexIsRight', PromisesAreKept', PhaseInv'
    PROVE  SurvivalInv'
  BY DEF SurvivalInv, ServingInv, RecoverInv, ReplayInv, ReconcileInv, Serving, Recovering

\* In use, the log is the whole log.
LEMMA ServingLog ==
    ASSUME Serving
    PROVE  LogEnd = Len(t.wal) /\ \A p : OpsOn(p) = {i \in 1 .. Len(t.wal) : t.wal[i].pk = p}
  BY DEF Serving, LogEnd, OpsOn
LEMMA ServingLogNext ==
    ASSUME Serving'
    PROVE  LogEnd' = Len(t'.wal) /\ \A p : OpsOn(p)' = {i \in 1 .. Len(t'.wal) : t'.wal[i].pk = p}
  BY DEF Serving, LogEnd, OpsOn

\* A step that leaves rows, tombstones, index and log alone, and may write some of
\* them to disk.
LEMMA QuietStep ==
    ASSUME RowsInv, exposure = {}, SurvivalInv, Serving, Serving',
           t'.rows = t.rows, t'.deleted = t.deleted, t'.index = t.index, t'.wal = t.wal,
           \A l \in DOMAIN t.rows : Durable(l) => Durable(l)',
           content' = content, idxFile' \in {idxFile, t.index},
           \/ kept' = kept /\ walFile' = walFile
           \/ kept' = content /\ walFile' = Len(t.wal) /\ \A l \in DOMAIN t.rows : Durable(l)',
           PhaseInv'
    PROVE  SurvivalInv'
<1>1. PointInv /\ EntryInv /\ IndexFollowsLog /\ IndexIsRight /\ PromisesAreKept
  BY DEF SurvivalInv, ServingInv
<1>2. LogEnd' = LogEnd /\ \A p : OpsOn(p)' = OpsOn(p)
  BY ServingLog, ServingLogNext, SMTT(20)
<1>3. \A p : \A j : LastOp(p, j)' <=> LastOp(p, j)
  BY <1>2 DEF LastOp
<1>4. Live(t)' = Live(t) /\ \A p : LiveOf(t, p)' = LiveOf(t, p)
  BY DEF Live, LiveOf
<1>5. PointInv'
  BY <1>1 DEF PointInv, Names
<1>6. EntryInv'
  BY <1>1, <1>2 DEF EntryInv
<1>7. IndexFollowsLog'
  BY <1>1, <1>2, <1>3, <1>4 DEF IndexFollowsLog
<1>8. IndexIsRight'
  BY <1>1, <1>4 DEF IndexIsRight
<1>9. PromisesAreKept'
  <2>1. \A p \in PK : LiveOf(t, p) \subseteq DOMAIN t.rows
    BY DEF LiveOf, Live
  <2>2. \A p \in PK : \A i \in OpsOn(p) : i <= Len(t.wal)
    BY ServingLog
  <2> QED
    BY <1>1, <1>2, <1>4, <2>1, <2>2 DEF PromisesAreKept
<1> QED
  BY <1>5, <1>6, <1>7, <1>8, <1>9, ServingParts

\* reconcile_orphan_rows finds nothing to do in a table whose index names every
\* live row.
LEMMA ReconcileIdle ==
    ASSUME NEW tb, WellFormed(tb), IndexCovers(tb)
    PROVE  /\ Reconcile(tb).rows = tb.rows /\ Reconcile(tb).deleted = tb.deleted
           /\ Reconcile(tb).index = tb.index /\ Reconcile(tb).wal = tb.wal
           /\ Reconcile(tb).active = tb.active /\ Reconcile(tb).count = tb.count
           /\ Reconcile(tb).flushed = tb.count
<1> DEFINE new == Reconcile(tb)
<1>1. /\ new.rows = tb.rows /\ new.wal = tb.wal
      /\ new.active = tb.active /\ new.count = tb.count /\ new.flushed = tb.count
      /\ new.deleted = tb.deleted \cup {l \in Live(tb) : l # Winner(tb, tb.rows[l].pk)}
      /\ new.index = [p \in PK |-> IF LiveOf(tb, p) = {} THEN tb.index[p] ELSE Winner(tb, p)]
  BY DEF Reconcile, WellFormed, IsTable
<1>2. ASSUME NEW p, LiveOf(tb, p) # {} PROVE Winner(tb, p) = tb.index[p]
  <2>1. Winner(tb, p) \in LiveOf(tb, p)
    BY <1>2, WinnerExists
  <2> QED
    BY <2>1 DEF IndexCovers, LiveOf
<1>3. ASSUME NEW l \in Live(tb) PROVE l = Winner(tb, tb.rows[l].pk)
  <2>1. l \in LiveOf(tb, tb.rows[l].pk)
    BY DEF LiveOf
  <2>2. tb.index[tb.rows[l].pk] = l
    BY DEF IndexCovers
  <2> QED
    BY <1>2, <2>1, <2>2
<1>4. new.deleted = tb.deleted
  BY <1>1, <1>3
<1>5. new.index = tb.index
  <2>1. tb.index \in [PK -> Loc \cup {NoLoc}]
    BY DEF WellFormed, IsTable, Index
  <2> QED
    BY <1>1, <1>2, <2>1
<1> QED
  BY <1>1, <1>4, <1>5

\* Kept by the reconciling, flushing and sealing steps of a table in use.
LEMMA QuietActions ==
    ASSUME RowsInv, IndexNamesEveryLiveRow, exposure = {}, SurvivalInv,
           \/ UpdateReconcile \/ EndBatch \/ FlushActiveSegmentBuffers
           \/ SealSegment \/ FinishRotation
    PROVE  SurvivalInv'
<1>0. Serving /\ Serving'
  BY DEF Serving, UpdateReconcile, EndBatch, FlushActiveSegmentBuffers, SealSegment, FinishRotation,
         FlushWalAndMaybeSaveIndex
<1>1. IndexCovers(t) /\ WellFormed(t) /\ PhaseInv
  BY <1>0, TableFacts DEF IndexNamesEveryLiveRow, SurvivalInv, ServingInv
<1>2. /\ t.active \in Nat /\ t.count \in Nat /\ t.flushed \in Nat /\ t.flushed <= t.count
      /\ \A l \in DOMAIN t.rows : l[1] \in Nat /\ l[2] \in Nat /\
             (l[1] < t.active \/ (l[1] = t.active /\ l[2] <= t.count))
  BY TableFacts
<1>3. \A l \in DOMAIN t.rows : l[1] # t.active \/ l[2] <= t.count
  BY <1>2
<1>4. CASE UpdateReconcile \/ EndBatch
  <2>1. /\ t'.rows = t.rows /\ t'.deleted = t.deleted /\ t'.index = t.index /\ t'.wal = t.wal
        /\ t'.active = t.active /\ t'.flushed \in {t.flushed, t.count}
    BY <1>1, <1>4, ReconcileIdle DEF UpdateReconcile, EndBatch
  <2>2. content' = content /\ idxFile' = idxFile /\ kept' = kept /\ walFile' = walFile
        /\ pc' \in {"batch", "rotate", "idle"}
    BY <1>4 DEF UpdateReconcile, EndBatch, disk, history
  <2>3. PhaseInv'
    BY <2>2 DEF PhaseInv
  <2>4. \A l \in DOMAIN t.rows : Durable(l) => Durable(l)'
    BY <1>3, <2>1 DEF Durable
  <2> QED
    BY <1>0, <2>1, <2>2, <2>3, <2>4, QuietStep
<1>5. CASE FlushActiveSegmentBuffers
  <2>1. /\ t'.rows = t.rows /\ t'.deleted = t.deleted /\ t'.index = t.index /\ t'.wal = t.wal
        /\ t'.active = t.active /\ t'.flushed = t.count /\ t'.count = t.count
    BY <1>1, <1>5 DEF FlushActiveSegmentBuffers, FlushBuffers, WellFormed, IsTable
  <2>2. content' = content /\ idxFile' \in {idxFile, t.index} /\ kept' = content
        /\ walFile' = Len(t.wal) /\ pc' \in {"idle", "truncate"}
        /\ (pc' = "truncate" => idxFile' = t.index)
    BY <1>5, <2>1 DEF FlushActiveSegmentBuffers, FlushWalAndMaybeSaveIndex
  <2>3. PhaseInv'
    BY <2>1, <2>2 DEF PhaseInv
  <2>4. \A l \in DOMAIN t.rows : Durable(l)'
    BY <1>3, <2>1 DEF Durable
  <2> QED
    BY <1>0, <2>1, <2>2, <2>3, <2>4, QuietStep
<1>6. CASE SealSegment
  <2>1. /\ t'.rows = t.rows /\ t'.deleted = t.deleted /\ t'.index = t.index /\ t'.wal = t.wal
        /\ t'.active = t.active + 1 /\ t'.flushed = 0 /\ t'.count = 0
    BY <1>1, <1>6 DEF SealSegment, WellFormed, IsTable
  <2>2. content' = content /\ idxFile' = idxFile /\ kept' = kept /\ walFile' = walFile
        /\ pc' = "sealed"
    BY <1>6 DEF SealSegment, disk, history
  <2>3. PhaseInv'
    BY <2>1, <2>2 DEF PhaseInv
  <2>4. \A l \in DOMAIN t.rows : Durable(l)'
    BY <1>2, <2>1 DEF Durable
  <2> QED
    BY <1>0, <2>1, <2>2, <2>3, <2>4, QuietStep
<1>7. CASE FinishRotation
  <2>1. t' = t /\ t.flushed = t.count
    BY <1>1, <1>7 DEF FinishRotation, PhaseInv
  <2>2. content' = content /\ idxFile' \in {idxFile, t.index} /\ kept' = content
        /\ walFile' = Len(t.wal) /\ pc' \in {"idle", "truncate"}
        /\ (pc' = "truncate" => idxFile' = t.index)
    BY <1>7 DEF FinishRotation, FlushWalAndMaybeSaveIndex
  <2>3. PhaseInv'
    BY <2>1, <2>2 DEF PhaseInv
  <2>4. \A l \in DOMAIN t.rows : Durable(l)'
    BY <1>3, <2>1 DEF Durable
  <2> QED
    BY <1>0, <2>1, <2>2, <2>3, <2>4, QuietStep
<1> QED
  BY <1>4, <1>5, <1>6, <1>7

\* A log that has grown by one entry.
LEMMA LogGrows ==
    ASSUME RowsInv, Serving, Serving', NEW p \in PK, NEW op, op.pk = p, t'.wal = Append(t.wal, op)
    PROVE  /\ LogEnd = Len(t.wal) /\ LogEnd' = Len(t.wal) + 1 /\ Len(t'.wal) = Len(t.wal) + 1
           /\ t'.wal[Len(t.wal) + 1] = op
           /\ \A i \in 1 .. Len(t.wal) : t'.wal[i] = t.wal[i] /\ i < Len(t.wal) + 1
           /\ \A q : OpsOn(q) \subseteq 1 .. Len(t.wal)
           /\ \A q : q # p => OpsOn(q)' = OpsOn(q)
           /\ OpsOn(p)' = OpsOn(p) \cup {Len(t.wal) + 1}
           /\ \A q : q # p => \A j : LastOp(q, j)' <=> LastOp(q, j)
           /\ \A j : LastOp(p, j)' => j = Len(t.wal) + 1
<1> DEFINE n == Len(t.wal) + 1
<1>1. t.wal \in Seq(WalOp) /\ Len(t.wal) \in Nat
  BY TableFacts
<1>2. /\ Len(t'.wal) = n /\ t'.wal[n] = op
      /\ \A i \in 1 .. Len(t.wal) : t'.wal[i] = t.wal[i] /\ i < n
  BY <1>1
<1>3. \A q : OpsOn(q) = {i \in 1 .. Len(t.wal) : t.wal[i].pk = q}
  BY ServingLog
<1>4. \A q : OpsOn(q)' = {i \in 1 .. n : t'.wal[i].pk = q}
  BY <1>2, ServingLogNext
<1>5. 1 .. n = 1 .. Len(t.wal) \cup {n}
  BY <1>1
<1>6. \A q : q # p => OpsOn(q)' = OpsOn(q)
  BY <1>2, <1>3, <1>4, <1>5
<1>7. OpsOn(p)' = OpsOn(p) \cup {n}
  BY <1>2, <1>3, <1>4, <1>5
<1>8. ASSUME NEW j, LastOp(p, j)' PROVE j = n
  <2>1. \A i \in OpsOn(p) : i \in Nat /\ i < n
    BY <1>1, <1>2, <1>3
  <2>2. j \in OpsOn(p) \cup {n} /\ n <= j
    BY <1>7, <1>8 DEF LastOp
  <2> QED
    BY <1>1, <2>1, <2>2
<1>9. \A q : q # p => \A j : LastOp(q, j)' <=> LastOp(q, j)
  BY <1>6 DEF LastOp
<1> QED
  BY <1>1, <1>2, <1>3, <1>6, <1>7, <1>8, <1>9, ServingLog, ServingLogNext

\* A row is inserted for a key that the index does not hold.
LEMMA AppendStep ==
    ASSUME RowsInv, IndexNamesEveryLiveRow, exposure = {}, SurvivalInv, Serving,
           pc' \in {"batch", "settle"}, NEW p \in PK, NEW v \in Val,
           t.index[p] = NoLoc, t' = AppendRow(t, p, v), idxFile' = idxFile, walFile' = walFile,
           content' = [content EXCEPT ![p] = v], kept' = [kept EXCEPT ![p] = Unknown]
    PROVE  SurvivalInv'
<1> DEFINE l == <<t.active, t.count + 1>>
           n == Len(t.wal) + 1
<1>0. Serving' /\ IndexCovers(t) /\ PointInv /\ EntryInv /\ IndexFollowsLog /\ IndexIsRight /\ PromisesAreKept
  BY DEF Serving, IndexNamesEveryLiveRow, SurvivalInv, ServingInv
<1>1. /\ t'.rows = [x \in DOMAIN t.rows \cup {l} |-> IF x = l THEN [pk |-> p, val |-> v] ELSE t.rows[x]]
      /\ t'.deleted = t.deleted /\ t'.index = [t.index EXCEPT ![p] = l]
      /\ t'.wal = Append(t.wal, InsertOp(p, v))
      /\ t'.active = t.active /\ t'.flushed = t.flushed
  BY TableFacts DEF AppendRow, WellFormed, IsTable
<1>2. InsertOp(p, v).pk = p /\ InsertOp(p, v).op = "insert" /\ InsertOp(p, v).val = v
  BY DEF InsertOp
<1>3. l \notin DOMAIN t.rows /\ l # NoLoc
  <2>1. t.active \in Nat /\ t.count \in Nat
        /\ \A x \in DOMAIN t.rows : x[1] < t.active \/ (x[1] = t.active /\ x[2] <= t.count)
    BY TableFacts
  <2> QED
    BY <2>1 DEF NoLoc
<1>4. /\ t'.rows[l].pk = p /\ t'.rows[l].val = v /\ DOMAIN t'.rows = DOMAIN t.rows \cup {l}
      /\ \A x \in DOMAIN t.rows : t'.rows[x] = t.rows[x]
      /\ t'.index[p] = l /\ \A q \in PK : q # p => t'.index[q] = t.index[q]
  <2>1. t.index \in [PK -> Loc \cup {NoLoc}]
    BY TableFacts
  <2> HIDE DEF l
  <2> QED
    BY <1>1, <1>3, <2>1
<1>5. /\ content'[p] = v /\ kept'[p] = Unknown
      /\ \A q \in PK : q # p => content'[q] = content[q] /\ kept'[q] = kept[q]
      /\ v # NoVal /\ v # Unknown
  BY TableFacts, ValuesDistinct
<1> HIDE DEF l
<1>6. l \notin t.deleted /\ Live(t)' = Live(t) \cup {l}
  BY <1>0, <1>1, <1>3, <1>4 DEF PointInv, Live
<1>7. \A q \in PK : q # p => LiveOf(t, q)' = LiveOf(t, q)
  BY <1>4, <1>6 DEF LiveOf, Live
<1>8. \A q \in PK : Names(t.index, q)' /\ Names(idxFile, q)'
  BY <1>0, <1>4 DEF PointInv, Names
<1>9. PointInv'
  BY <1>0, <1>1, <1>4, <1>8 DEF PointInv
<1>10. /\ LogEnd = Len(t.wal) /\ LogEnd' = n
       /\ t'.wal[n] = InsertOp(p, v)
       /\ \A i \in 1 .. Len(t.wal) : t'.wal[i] = t.wal[i] /\ i < n
       /\ \A q : OpsOn(q) \subseteq 1 .. Len(t.wal)
       /\ \A q : q # p => OpsOn(q)' = OpsOn(q)
       /\ OpsOn(p)' = OpsOn(p) \cup {n}
       /\ \A q : q # p => \A j : LastOp(q, j)' <=> LastOp(q, j)
       /\ \A j : LastOp(p, j)' => j = n
  BY <1>0, <1>1, <1>2, LogGrows
<1>11. Len(t.wal) \in Nat /\ n \in Nat /\ n \notin 1 .. Len(t.wal) /\ 1 .. n = 1 .. Len(t.wal) \cup {n}
  BY TableFacts
<1> HIDE DEF n
<1>12. EntryInv'
  <2>1. ASSUME NEW i \in 1 .. n, t'.wal[i].op = "delete"
        PROVE  t'.wal[i].loc \in t'.deleted /\ t'.rows[t'.wal[i].loc].pk = t'.wal[i].pk
    <3>1. i \in 1 .. Len(t.wal)
      BY <1>2, <1>10, <1>11, <2>1
    <3>2. t.wal[i].loc \in t.deleted /\ t.rows[t.wal[i].loc].pk = t.wal[i].pk
      BY <1>0, <1>10, <2>1, <3>1 DEF EntryInv
    <3>3. t.wal[i].loc \in DOMAIN t.rows /\ t'.wal[i] = t.wal[i]
      BY <1>0, <1>10, <3>1, <3>2 DEF PointInv
    <3>4. t'.rows[t.wal[i].loc] = t.rows[t.wal[i].loc] /\ t.wal[i].loc \in t'.deleted
      BY <1>1, <1>4, <3>2, <3>3
    <3> QED
      BY <3>2, <3>3, <3>4
  <2>2. ASSUME NEW q \in PK, NEW i \in OpsOn(q)', NEW j \in OpsOn(q)', i < j, t'.wal[j].op = "insert",
               \A m \in OpsOn(q)' : m <= i \/ j <= m
        PROVE  t'.wal[i].op = "delete"
    <3>1. \A m \in OpsOn(q) : m \in Nat /\ m < n
      BY <1>10, <1>11
    <3>2. i \in OpsOn(q) /\ t'.wal[i] = t.wal[i] /\ i \in 1 .. Len(t.wal)
      <4>1. i # n
        BY <1>10, <1>11, <2>2, <3>1
      <4> QED
        BY <1>10, <2>2, <4>1
    <3>3. CASE j \in OpsOn(q)
      <4>1. t.wal[j].op = "insert" /\ \A m \in OpsOn(q) : m <= i \/ j <= m
        BY <1>10, <2>2, <3>3
      <4> QED
        BY <1>0, <2>2, <3>2, <3>3, <4>1 DEF EntryInv
    <3>4. CASE q = p /\ j = n
      <4>1. \A m \in OpsOn(p) : m <= i
        BY <1>10, <1>11, <2>2, <3>1, <3>4
      <4>2. LastOp(p, i)
        BY <3>2, <3>4, <4>1 DEF LastOp
      <4>3. t.wal[i].op # "insert"
        BY <1>0, <3>2, <3>4, <4>2, TableFacts DEF IndexFollowsLog, Live
      <4>4. t.wal[i].op \in {"insert", "delete"}
        BY <3>2, TableFacts DEF WalOp
      <4> QED
        BY <3>2, <4>3, <4>4
    <3> QED
      BY <1>10, <2>2, <3>3, <3>4
  <2> QED
    BY <1>10, <2>1, <2>2 DEF EntryInv
<1>13. IndexFollowsLog'
  <2>1. ASSUME NEW q \in PK, q # p
        PROVE  /\ \A j \in OpsOn(q)' : LastOp(q, j)' =>
                     IF t'.wal[j].op = "insert"
                     THEN t'.index[q] \in Live(t)' /\ t'.rows[t'.index[q]].val = t'.wal[j].val
                     ELSE t'.index[q] = NoLoc
               /\ OpsOn(q)' = {} /\ t'.index[q] = NoLoc => idxFile'[q] = NoLoc
               /\ \A j \in OpsOn(q)' : OpsOn(q)' = {j} /\ t'.wal[j].op = "insert" =>
                     idxFile'[q] \in {NoLoc, t'.index[q]}
    <3>1. \A j \in OpsOn(q) : t'.wal[j] = t.wal[j]
      BY <1>10
    <3>2. t.index[q] \in Live(t) => t'.rows[t.index[q]] = t.rows[t.index[q]] /\ t.index[q] \in Live(t)'
      BY <1>4, <1>6 DEF Live
    <3>3. t'.index[q] = t.index[q] /\ OpsOn(q)' = OpsOn(q) /\ \A j : LastOp(q, j)' <=> LastOp(q, j)
      BY <1>4, <1>10, <2>1
    <3>4. /\ \A j \in OpsOn(q) : LastOp(q, j) =>
                IF t.wal[j].op = "insert"
                THEN t.index[q] \in Live(t) /\ t.rows[t.index[q]].val = t.wal[j].val
                ELSE t.index[q] = NoLoc
          /\ OpsOn(q) = {} /\ t.index[q] = NoLoc => idxFile[q] = NoLoc
          /\ \A j \in OpsOn(q) : OpsOn(q) = {j} /\ t.wal[j].op = "insert" =>
                idxFile[q] \in {NoLoc, t.index[q]}
      BY <1>0 DEF IndexFollowsLog
    <3> QED
      BY <3>1, <3>2, <3>3, <3>4
  <2>2. /\ \A j \in OpsOn(p)' : LastOp(p, j)' =>
                     IF t'.wal[j].op = "insert"
                     THEN t'.index[p] \in Live(t)' /\ t'.rows[t'.index[p]].val = t'.wal[j].val
                     ELSE t'.index[p] = NoLoc
        /\ OpsOn(p)' # {}
    BY <1>2, <1>4, <1>6, <1>10
  <2>3. ASSUME NEW j, OpsOn(p)' = {j} PROVE idxFile'[p] = NoLoc
    <3>1. OpsOn(p) = {}
      BY <1>10, <1>11, <2>3
    <3> QED
      BY <1>0, <3>1 DEF IndexFollowsLog
  <2> QED
    BY <2>1, <2>2, <2>3 DEF IndexFollowsLog
<1>14. IndexIsRight'
  <2>1. ASSUME NEW q \in PK, q # p, content'[q] # Unknown
        PROVE  IF content'[q] = NoVal THEN t'.index[q] = NoLoc
               ELSE t'.index[q] \in Live(t)' /\ t'.rows[t'.index[q]].val = content'[q]
    <3>1. t.index[q] \in Live(t) => t'.rows[t.index[q]] = t.rows[t.index[q]]
      BY <1>4 DEF Live
    <3> QED
      BY <1>0, <1>4, <1>5, <1>6, <2>1, <3>1 DEF IndexIsRight
  <2> QED
    BY <1>4, <1>5, <1>6, <2>1 DEF IndexIsRight
<1>15. PromisesAreKept'
  <2>1. \A x : Durable(x)' <=> Durable(x)
    BY <1>1 DEF Durable
  <2>2. ASSUME NEW q \in PK, kept'[q] # Unknown
        PROVE  /\ kept'[q] = content'[q]
               /\ \A i \in OpsOn(q)' : i <= walFile'
               /\ \A x \in LiveOf(t, q)' : Durable(x)'
    BY <1>0, <1>5, <1>7, <1>10, <2>1, <2>2 DEF PromisesAreKept
  <2>3. ASSUME NEW q \in PK, q # p, NEW x \in LiveOf(t, q)' PROVE Durable(x)' \/ OpsOn(q)' # {}
    BY <1>0, <1>7, <1>10, <2>1, <2>3 DEF PromisesAreKept
  <2>4. OpsOn(p)' # {}
    BY <1>10
  <2> QED
    BY <2>2, <2>3, <2>4 DEF PromisesAreKept
<1>16. PhaseInv'
  BY DEF PhaseInv
<1> QED
  BY <1>0, <1>9, <1>12, <1>13, <1>14, <1>15, <1>16, ServingParts

\* The row of a key is deleted: what the index names is tombstoned and logged.
LEMMA TombstoneStep ==
    ASSUME RowsInv, IndexNamesEveryLiveRow, exposure = {}, SurvivalInv, Serving, Serving',
           NEW p \in PK, t.index[p] # NoLoc,
           t'.rows = t.rows, t'.deleted = t.deleted \cup {t.index[p]},
           t'.index = [t.index EXCEPT ![p] = NoLoc],
           t'.wal = Append(t.wal, DeleteOp(p, t.index[p])),
           t'.active = t.active, t'.flushed \in {t.flushed, t.count},
           idxFile' = idxFile, walFile' = walFile,
           content'[p] \in {NoVal, Unknown}, kept'[p] = Unknown,
           \A q \in PK : q # p => content'[q] = content[q] /\ kept'[q] = kept[q],
           PhaseInv'
    PROVE  SurvivalInv'
<1> DEFINE x == t.index[p]
           n == Len(t.wal) + 1
<1>0. IndexCovers(t) /\ PointInv /\ EntryInv /\ IndexFollowsLog /\ IndexIsRight /\ PromisesAreKept
  BY DEF IndexNamesEveryLiveRow, SurvivalInv, ServingInv
<1>1. x \in DOMAIN t.rows /\ t.rows[x].pk = p
  BY <1>0 DEF PointInv, Names
<1>2. t'.index[p] = NoLoc /\ \A q \in PK : q # p => t'.index[q] = t.index[q]
  BY TableFacts
<1>3. DeleteOp(p, x).pk = p /\ DeleteOp(p, x).op = "delete" /\ DeleteOp(p, x).loc = x
  BY DEF DeleteOp
<1> HIDE DEF x
<1>4. Live(t)' = Live(t) \ {x}
  BY DEF Live, x
<1>5. \A q \in PK : q # p => LiveOf(t, q)' = LiveOf(t, q)
  BY <1>1, <1>4 DEF LiveOf
<1>6. PointInv'
  <2>1. \A q \in PK : Names(t.index, q)' /\ Names(idxFile, q)'
    BY <1>0, <1>2 DEF PointInv, Names
  <2> QED
    BY <1>0, <1>1, <2>1 DEF PointInv, x
<1>7. /\ LogEnd = Len(t.wal) /\ LogEnd' = n
      /\ t'.wal[n] = DeleteOp(p, x)
      /\ \A i \in 1 .. Len(t.wal) : t'.wal[i] = t.wal[i] /\ i < n
      /\ \A q : OpsOn(q) \subseteq 1 .. Len(t.wal)
      /\ \A q : q # p => OpsOn(q)' = OpsOn(q)
      /\ OpsOn(p)' = OpsOn(p) \cup {n}
      /\ \A q : q # p => \A j : LastOp(q, j)' <=> LastOp(q, j)
      /\ \A j : LastOp(p, j)' => j = n
  BY <1>3, LogGrows DEF x
<1>8. Len(t.wal) \in Nat /\ n \in Nat /\ n \notin 1 .. Len(t.wal) /\ 1 .. n = 1 .. Len(t.wal) \cup {n}
  BY TableFacts
<1> HIDE DEF n
<1>9. EntryInv'
  <2>1. ASSUME NEW i \in 1 .. n, t'.wal[i].op = "delete"
        PROVE  t'.wal[i].loc \in t'.deleted /\ t'.rows[t'.wal[i].loc].pk = t'.wal[i].pk
    <3>1. CASE i = n
      BY <1>1, <1>3, <1>7, <3>1 DEF x
    <3>2. CASE i \in 1 .. Len(t.wal)
      <4>1. t'.wal[i] = t.wal[i] /\ t.wal[i].loc \in t.deleted /\ t.rows[t.wal[i].loc].pk = t.wal[i].pk
        BY <1>0, <1>7, <2>1, <3>2 DEF EntryInv
      <4> QED
        BY <4>1
    <3> QED
      BY <1>8, <2>1, <3>1, <3>2
  <2>2. ASSUME NEW q \in PK, NEW i \in OpsOn(q)', NEW j \in OpsOn(q)', i < j, t'.wal[j].op = "insert",
               \A m \in OpsOn(q)' : m <= i \/ j <= m
        PROVE  t'.wal[i].op = "delete"
    <3>1. j # n
      BY <1>3, <1>7, <2>2
    <3>2. j \in OpsOn(q) /\ j \in 1 .. Len(t.wal) /\ t'.wal[j] = t.wal[j]
      BY <1>7, <2>2, <3>1
    <3>3. i # n
      BY <1>8, <2>2, <3>2
    <3>4. i \in OpsOn(q) /\ t'.wal[i] = t.wal[i]
      BY <1>7, <2>2, <3>3
    <3>5. \A m \in OpsOn(q) : m <= i \/ j <= m
      BY <1>7, <2>2
    <3> QED
      BY <1>0, <2>2, <3>2, <3>4, <3>5 DEF EntryInv
  <2> QED
    BY <1>7, <2>1, <2>2 DEF EntryInv
<1>10. \A q \in PK : q # p /\ t.index[q] \in Live(t) => t'.index[q] \in Live(t)'
  <2>1. ASSUME NEW q \in PK, q # p, t.index[q] \in Live(t) PROVE t.index[q] # x
    <3>1. t.index[q] # NoLoc
      BY <2>1, TableFacts DEF Live
    <3>2. t.rows[t.index[q]].pk = q
      BY <1>0, <3>1 DEF PointInv, Names
    <3> QED
      BY <1>1, <2>1, <3>2
  <2> QED
    BY <1>2, <1>4, <2>1
<1>11. IndexFollowsLog'
  <2>1. ASSUME NEW q \in PK, q # p
        PROVE  /\ \A j \in OpsOn(q)' : LastOp(q, j)' =>
                     IF t'.wal[j].op = "insert"
                     THEN t'.index[q] \in Live(t)' /\ t'.rows[t'.index[q]].val = t'.wal[j].val
                     ELSE t'.index[q] = NoLoc
               /\ OpsOn(q)' = {} /\ t'.index[q] = NoLoc => idxFile'[q] = NoLoc
               /\ \A j \in OpsOn(q)' : OpsOn(q)' = {j} /\ t'.wal[j].op = "insert" =>
                     idxFile'[q] \in {NoLoc, t'.index[q]}
    <3>1. \A j \in OpsOn(q) : t'.wal[j] = t.wal[j]
      BY <1>7
    <3> QED
      BY <1>0, <1>2, <1>7, <1>10, <2>1, <3>1, SMTT(20) DEF IndexFollowsLog
  <2>2. /\ \A j \in OpsOn(p)' : LastOp(p, j)' => t'.wal[j].op # "insert" /\ t'.index[p] = NoLoc
        /\ OpsOn(p)' # {}
        /\ \A j \in OpsOn(p)' : OpsOn(p)' = {j} => t'.wal[j].op # "insert"
    BY <1>2, <1>3, <1>7, ZenonT(30)
  <2> QED
    BY <2>1, <2>2 DEF IndexFollowsLog
<1>12. IndexIsRight'
  BY <1>0, <1>2, <1>10 DEF IndexIsRight
<1>13. PromisesAreKept'
  <2>1. \A l \in DOMAIN t.rows : Durable(l) => Durable(l)'
    <3>1. \A l \in DOMAIN t.rows : l[1] # t.active \/ l[2] <= t.count
      BY TableFacts
    <3> QED
      BY <3>1 DEF Durable
  <2>2. \A q \in PK : LiveOf(t, q) \subseteq DOMAIN t.rows
    BY DEF LiveOf, Live
  <2>3. OpsOn(p)' # {}
    BY <1>7
  <2> QED
    BY <1>0, <1>5, <1>7, <2>1, <2>2, <2>3 DEF PromisesAreKept
<1> QED
  BY <1>6, <1>9, <1>11, <1>12, <1>13, ServingParts

\* Deleting a key that the index does not hold changes nothing but what is promised.
LEMMA NothingToDelete ==
    ASSUME RowsInv, exposure = {}, SurvivalInv, Serving, Serving',
           NEW p \in PK, t.index[p] = NoLoc, t' = t, idxFile' = idxFile, walFile' = walFile,
           content'[p] \in {NoVal, Unknown}, kept'[p] = Unknown,
           \A q \in PK : q # p => content'[q] = content[q] /\ kept'[q] = kept[q],
           PhaseInv'
    PROVE  SurvivalInv'
<1>1. PointInv /\ EntryInv /\ IndexFollowsLog /\ IndexIsRight /\ PromisesAreKept
  BY DEF SurvivalInv, ServingInv
<1>2. LogEnd' = LogEnd /\ \A q : OpsOn(q)' = OpsOn(q)
  BY ServingLog, ServingLogNext, ZenonT(30)
<1>3. \A q : \A j : LastOp(q, j)' <=> LastOp(q, j)
  BY <1>2 DEF LastOp
<1>4. PointInv'
  BY <1>1 DEF PointInv, Names
<1>5. EntryInv'
  BY <1>1, <1>2 DEF EntryInv
<1>6. IndexFollowsLog'
  BY <1>1, <1>2, <1>3 DEF IndexFollowsLog
<1>7. IndexIsRight'
  BY <1>1 DEF IndexIsRight
<1>8. PromisesAreKept'
  BY <1>1, <1>2 DEF PromisesAreKept, Durable
<1> QED
  BY <1>4, <1>5, <1>6, <1>7, <1>8, ServingParts

\* Kept by the row handlers.
LEMMA RowActions ==
    ASSUME RowsInv, IndexNamesEveryLiveRow, exposure = {}, SurvivalInv, RowStep \/ UpdateInsert
    PROVE  SurvivalInv'
<1>0. WellFormed(t) /\ Serving /\ PointInv /\ PhaseInv
  BY TableFacts DEF RowStep, UpdateInsert, DeleteRow, WriteRow, UpdateDelete, BatchOf, Serving,
                    SurvivalInv, ServingInv
<1>1. content \in [PK -> Val \cup {NoVal, Unknown}] /\ kept \in [PK -> Val \cup {NoVal, Unknown}]
  BY TableFacts
<1>2. ASSUME NEW p \in PK, NEW v \in Val, WriteRow(p, v) PROVE SurvivalInv'
  <2>1. t.index[p] = NoLoc
    <3>1. Lookup(t, p) = NoVal
      BY <1>2 DEF WriteRow
    <3>2. t.index[p] # NoLoc => t.index[p] \in DOMAIN t.rows /\ t.rows[t.index[p]].pk = p
      BY <1>0 DEF PointInv, Names
    <3>3. \A l \in DOMAIN t.rows : t.rows[l].val # NoVal
      BY TableFacts
    <3> QED
      BY <3>1, <3>2, <3>3 DEF Lookup
  <2>2. t' = AppendRow(t, p, v)
    BY <1>2, <2>1 DEF WriteRow, GetRow, Insert
  <2>3. /\ pc' = "batch" /\ idxFile' = idxFile /\ walFile' = walFile
        /\ content' = [content EXCEPT ![p] = v] /\ kept' = [kept EXCEPT ![p] = Unknown]
    BY <1>2 DEF WriteRow, Touch, NowReads, disk
  <2> QED
    BY <1>0, <2>1, <2>2, <2>3, AppendStep
<1>3. CASE UpdateInsert
  <2>1. ev.pk \in PK /\ ev.val \in Val
    BY <1>3 DEF UpdateInsert, RowsInv, TypeInv, TypeOK
  <2>2. t.index[ev.pk] = NoLoc /\ kept[ev.pk] = Unknown
    BY <1>0, <1>3 DEF UpdateInsert, PhaseInv
  <2>3. t' = AppendRow(t, ev.pk, ev.val)
    BY <1>3, <2>2 DEF UpdateInsert, Insert
  <2>4. /\ pc' = "settle" /\ idxFile' = idxFile /\ walFile' = walFile
        /\ content' = [content EXCEPT ![ev.pk] = ev.val] /\ kept' = kept
    BY <1>3 DEF UpdateInsert, NowReads, disk
  <2>5. kept' = [kept EXCEPT ![ev.pk] = Unknown]
    BY <1>1, <2>1, <2>2, <2>4
  <2> QED
    BY <1>0, <2>1, <2>2, <2>3, <2>4, <2>5, AppendStep
<1>4. ASSUME NEW p \in PK,
             DeleteRow(p) \/ \E k \in {"write", "update"}, v \in Val : UpdateDelete(k, p, v)
      PROVE  SurvivalInv'
  <2>1. /\ t' = Delete(t, p) \/ t' = Delete(GetRow(t, p), p)
        /\ idxFile' = idxFile /\ walFile' = walFile
        /\ content' = [content EXCEPT ![p] = NoVal] \/ content' = [content EXCEPT ![p] = Unknown]
        /\ kept' = [kept EXCEPT ![p] = Unknown]
        /\ \/ pc' = "batch"
           \/ pc' = "insert" /\ ev'.pk = p /\ content' = [content EXCEPT ![p] = Unknown]
    BY <1>4 DEF DeleteRow, UpdateDelete, Touch, NowReads, disk
  <2>2. /\ content'[p] \in {NoVal, Unknown} /\ kept'[p] = Unknown
        /\ \A q \in PK : q # p => content'[q] = content[q] /\ kept'[q] = kept[q]
        /\ pc' = "insert" => content'[p] = Unknown
    BY <1>1, <2>1
  <2>3. Serving'
    BY <2>1 DEF Serving
  <2>4. CASE t.index[p] = NoLoc
    <3>1. t' = t
      BY <2>1, <2>4 DEF Delete, GetRow
    <3>2. PhaseInv'
      BY <2>1, <2>2, <2>4, <3>1 DEF PhaseInv
    <3> QED
      BY <1>0, <2>1, <2>2, <2>3, <2>4, <3>1, <3>2, NothingToDelete
  <2>5. CASE t.index[p] # NoLoc
    <3>1. /\ t'.rows = t.rows /\ t'.deleted = t.deleted \cup {t.index[p]}
          /\ t'.index = [t.index EXCEPT ![p] = NoLoc]
          /\ t'.wal = Append(t.wal, DeleteOp(p, t.index[p]))
          /\ t'.active = t.active /\ t'.flushed \in {t.flushed, t.count}
      BY <1>0, <2>1, <2>5 DEF Delete, GetRow, FlushBuffers, WellFormed, IsTable
    <3>2. t'.index[p] = NoLoc
      BY <3>1, TableFacts
    <3>3. PhaseInv'
      BY <2>1, <2>2, <3>2 DEF PhaseInv
    <3> QED
      BY <1>0, <2>1, <2>2, <2>3, <2>5, <3>1, <3>3, TombstoneStep
  <2> QED
    BY <2>4, <2>5
<1> QED
  BY <1>2, <1>3, <1>4 DEF RowStep

\* The parts that a closed table has to establish.
LEMMA DownParts ==
    ASSUME pc' = "down", PointInv', EntryInv', RecoverInv'
    PROVE  SurvivalInv'
  BY DEF SurvivalInv, ServingInv, ReplayInv, ReconcileInv, Serving

\* What readers of a table in use are promised is what its live rows hold.
LEMMA LiveIsContent ==
    ASSUME RowsInv, PointInv, IndexCovers(t), IndexIsRight, NEW p \in PK, content[p] # Unknown
    PROVE  /\ \A l \in LiveOf(t, p) : t.rows[l].val = content[p] /\ l = t.index[p]
           /\ content[p] = NoVal => t.index[p] = NoLoc
           /\ content[p] # NoVal => t.index[p] \in LiveOf(t, p)
<1>1. \A l \in LiveOf(t, p) : l = t.index[p] /\ l # NoLoc /\ l \in Live(t)
  BY TableFacts DEF IndexCovers, LiveOf, Live
<1>2. content[p] = NoVal => t.index[p] = NoLoc
  BY DEF IndexIsRight
<1>3. content[p] # NoVal => t.index[p] \in Live(t) /\ t.rows[t.index[p]].val = content[p]
  BY DEF IndexIsRight
<1>4. t.index[p] \in Live(t) => t.index[p] # NoLoc
  BY TableFacts DEF Live
<1>5. t.index[p] # NoLoc => t.rows[t.index[p]].pk = p
  BY DEF PointInv, Names
<1> QED
  BY <1>1, <1>2, <1>3, <1>4, <1>5 DEF LiveOf

\* A table in use goes away and leaves some of its rows and a prefix of its log:
\* whatever is still promised is in what it leaves.
LEMMA LeaveStep ==
    ASSUME RowsInv, IndexNamesEveryLiveRow, exposure = {}, SurvivalInv, Serving, RowsInv',
           pc' = "down", t'.active = t.active, t'.flushed = t'.count, t'.index = NoIndex,
           DOMAIN t'.rows \subseteq DOMAIN t.rows, \A l \in DOMAIN t'.rows : t'.rows[l] = t.rows[l],
           t'.deleted = t.deleted, t.deleted \subseteq DOMAIN t'.rows,
           idxFile' = idxFile, \A p \in PK : Names(idxFile, p)',
           walFile' = Len(t'.wal), walFile' <= Len(t.wal),
           \A i \in 1 .. Len(t'.wal) : t'.wal[i] = t.wal[i],
           kept' = content',
           \A p \in PK : content'[p] # Unknown =>
               /\ content'[p] = content[p]
               /\ \A i \in OpsOn(p) : i <= walFile'
               /\ OpsOn(p) = {} => LiveOf(t, p) \subseteq DOMAIN t'.rows
    PROVE  SurvivalInv'
<1>0. IndexCovers(t) /\ PointInv /\ EntryInv /\ IndexFollowsLog /\ IndexIsRight /\ PromisesAreKept
  BY DEF IndexNamesEveryLiveRow, SurvivalInv, ServingInv
<1>1. /\ Len(t.wal) \in Nat /\ Len(t'.wal) \in Nat /\ 1 .. Len(t'.wal) \subseteq 1 .. Len(t.wal)
      /\ LogEnd = Len(t.wal) /\ LogEnd' = Len(t'.wal)
  <2>1. Len(t'.wal) \in Nat
    BY DEF RowsInv, TypeInv, TypeOK, IsTable
  <2> QED
    BY <2>1, TableFacts, ServingLog DEF LogEnd
<1>2. \A p : OpsOn(p) = {i \in 1 .. Len(t.wal) : t.wal[i].pk = p}
  BY ServingLog
<1>3. \A p : OpsOn(p)' = {i \in 1 .. Len(t'.wal) : t'.wal[i].pk = p}
  BY <1>1 DEF OpsOn
<1>4. \A p : OpsOn(p)' \subseteq OpsOn(p) /\ \A i \in OpsOn(p) : i <= walFile' => i \in OpsOn(p)'
  BY <1>1, <1>2, <1>3
<1>5. PointInv'
  <2>1. \A p \in PK : Names(t.index, p)'
    BY DEF Names, NoIndex
  <2> QED
    BY <2>1 DEF PointInv
<1>6. EntryInv'
  <2>1. ASSUME NEW i \in 1 .. Len(t'.wal), t'.wal[i].op = "delete"
        PROVE  t'.wal[i].loc \in t'.deleted /\ t'.rows[t'.wal[i].loc].pk = t'.wal[i].pk
    <3>1. t'.wal[i] = t.wal[i] /\ t.wal[i].loc \in t.deleted /\ t.rows[t.wal[i].loc].pk = t.wal[i].pk
      BY <1>0, <1>1, <2>1 DEF EntryInv
    <3> QED
      BY <3>1
  <2>2. ASSUME NEW q \in PK, NEW i \in OpsOn(q)', NEW j \in OpsOn(q)', i < j, t'.wal[j].op = "insert",
               \A m \in OpsOn(q)' : m <= i \/ j <= m
        PROVE  t'.wal[i].op = "delete"
    <3>1. /\ i \in OpsOn(q) /\ j \in OpsOn(q) /\ t'.wal[i] = t.wal[i] /\ t'.wal[j] = t.wal[j]
          /\ j <= walFile' /\ i \in Nat /\ j \in Nat
      BY <1>1, <1>3, <1>4
    <3>2. ASSUME NEW m \in OpsOn(q) PROVE m <= i \/ j <= m
      <4>1. CASE m <= walFile'
        BY <1>4, <2>2, <4>1
      <4>2. CASE ~(m <= walFile')
        BY <1>1, <1>2, <3>1, <4>2
      <4> QED
        BY <4>1, <4>2
    <3> QED
      BY <1>0, <2>2, <3>1, <3>2 DEF EntryInv
  <2> QED
    BY <1>1, <2>1, <2>2 DEF EntryInv
<1>7. ASSUME NEW p \in PK, content'[p] # Unknown PROVE AddsUp(p)'
  <2>1. /\ content'[p] = content[p] /\ content[p] # Unknown /\ OpsOn(p)' = OpsOn(p)
        /\ OpsOn(p) = {} => LiveOf(t, p) \subseteq DOMAIN t'.rows
    <3>1. /\ content'[p] = content[p] /\ \A i \in OpsOn(p) : i <= walFile'
          /\ OpsOn(p) = {} => LiveOf(t, p) \subseteq DOMAIN t'.rows
      BY <1>7
    <3>2. OpsOn(p)' = OpsOn(p)
      BY <1>4, <3>1
    <3> QED
      BY <1>7, <3>1, <3>2
  <2>2. /\ \A l \in LiveOf(t, p) : t.rows[l].val = content[p]
        /\ content[p] = NoVal => t.index[p] = NoLoc
        /\ content[p] # NoVal => t.index[p] \in LiveOf(t, p)
    BY <1>0, <2>1, LiveIsContent
  <2>3. LiveOf(t, p)' = {l \in LiveOf(t, p) : l \in DOMAIN t'.rows}
    BY DEF LiveOf, Live
  <2>4. \A l \in DOMAIN t'.rows : l[1] # t'.active \/ l[2] <= t'.count
    <3>1. /\ t'.active \in Nat
          /\ \A l \in DOMAIN t'.rows : l[1] < t'.active \/ (l[1] = t'.active /\ l[2] <= t'.count)
      BY DEF RowsInv, TypeInv, TypeOK, IsTable, Layout
    <3> QED
      BY <3>1
  <2>5. OldLive(p)' = LiveOf(t, p)'
    BY <2>3, <2>4 DEF OldLive, Ground
  <2>6. \A l \in OldLive(p)' : t'.rows[l].val = content'[p]
    BY <2>1, <2>2, <2>3, <2>5
  <2>7. OpsOn(p)' = {} => IF content'[p] = NoVal THEN idxFile'[p] = NoLoc ELSE OldLive(p)' # {}
    BY <1>0, <2>1, <2>2, <2>3, <2>5 DEF IndexFollowsLog
  <2>8. \A j \in OpsOn(p)' : t'.wal[j] = t.wal[j]
    BY <1>3
  <2>9. ASSUME NEW j \in OpsOn(p)', LastOp(p, j)'
        PROVE  content'[p] = IF t'.wal[j].op = "insert" THEN t'.wal[j].val ELSE NoVal
    <3>1. LastOp(p, j)
      BY <2>1, <2>9 DEF LastOp
    <3>2. IF t.wal[j].op = "insert"
          THEN t.index[p] \in Live(t) /\ t.rows[t.index[p]].val = t.wal[j].val
          ELSE t.index[p] = NoLoc
      BY <1>0, <2>1, <2>9, <3>1 DEF IndexFollowsLog
    <3>3. \A l \in Live(t) : l # NoLoc
      BY TableFacts DEF Live
    <3>4. CASE t.wal[j].op = "insert"
      <4>1. content[p] # NoVal /\ t.index[p] \in LiveOf(t, p)
        BY <2>2, <3>2, <3>3, <3>4
      <4> QED
        BY <2>1, <2>2, <2>8, <3>2, <3>4, <4>1
    <3>5. CASE t.wal[j].op # "insert"
      <4>1. ~(t.index[p] \in LiveOf(t, p))
        BY <3>2, <3>3, <3>5 DEF LiveOf
      <4> QED
        BY <2>1, <2>2, <2>8, <3>5, <4>1
    <3> QED
      BY <3>4, <3>5
  <2>10. ASSUME NEW j \in OpsOn(p)', OpsOn(p)' = {j}, t'.wal[j].op = "insert"
         PROVE  idxFile'[p] = NoLoc \/ idxFile'[p] \in Live(t)'
    <3>1. LastOp(p, j) /\ t.wal[j].op = "insert" /\ OpsOn(p) = {j}
      <4>1. j \in 1 .. Len(t'.wal)
        BY <1>3, <2>10, Zenon
      <4>2. j <= j
        BY <1>1, <4>1
      <4> QED
        BY <2>1, <2>8, <2>10, <4>2 DEF LastOp
    <3>2. t.index[p] \in Live(t) /\ idxFile[p] \in {NoLoc, t.index[p]}
      BY <1>0, <2>1, <2>10, <3>1 DEF IndexFollowsLog
    <3>3. idxFile'[p] = NoLoc \/ idxFile'[p] \in DOMAIN t'.rows
      BY DEF Names
    <3> QED
      BY <3>2, <3>3 DEF Live
  <2> QED
    BY <2>6, <2>7, <2>9, <2>10 DEF AddsUp
<1>8. RecoverInv'
  <2>1. Ground' = t'.count /\ t'.count \in Nat
    BY DEF Ground, RowsInv, TypeInv, TypeOK, IsTable
  <2>2. Ground' <= t'.flushed
    BY <2>1
  <2> QED
    BY <1>7, <2>2 DEF RecoverInv
<1> QED
  BY <1>5, <1>6, <1>8, DownParts

\* What is left of the table when the process dies outside the windows.
LEMMA CrashLeaves ==
    ASSUME RowsInv, PointInv, NEW n \in t.flushed .. t.count, NEW m \in walFile .. Len(t.wal),
           t' = Surviving(n, m), Windows(n, m) = {}, idxFile' = idxFile
    PROVE  /\ t'.active = t.active /\ t'.count = n /\ t'.flushed = n /\ t'.index = NoIndex
           /\ DOMAIN t'.rows \subseteq DOMAIN t.rows /\ \A l \in DOMAIN t'.rows : t'.rows[l] = t.rows[l]
           /\ \A l \in DOMAIN t.rows : l \in DOMAIN t'.rows <=> l[1] # t.active \/ l[2] <= n
           /\ \A l \in DOMAIN t.rows : Durable(l) => l \in DOMAIN t'.rows
           /\ t'.deleted = t.deleted /\ t.deleted \subseteq DOMAIN t'.rows
           /\ \A p \in PK : Names(idxFile, p)'
           /\ Len(t'.wal) = m /\ \A i \in 1 .. m : t'.wal[i] = t.wal[i]
           /\ pc \in {"replay", "replayed"} => m <= walFile /\ n <= base
           /\ n \in Nat /\ m \in Nat /\ m <= Len(t.wal) /\ walFile <= m /\ t.flushed <= n
<1> DEFINE left == {l \in DOMAIN t.rows : l[1] # t.active \/ l[2] <= n}
<1>1. /\ t'.active = t.active /\ t'.count = n /\ t'.flushed = n /\ t'.index = NoIndex
      /\ t'.rows = [l \in left |-> t.rows[l]] /\ t'.deleted = t.deleted
      /\ t'.wal = SubSeq(t.wal, 1, m)
  BY TableFacts DEF Surviving, WellFormed, IsTable
<1>2. n \in Nat /\ m \in Nat /\ m <= Len(t.wal) /\ walFile <= m /\ t.flushed <= n
  BY TableFacts
<1>3. Len(t'.wal) = m /\ \A i \in 1 .. m : t'.wal[i] = t.wal[i]
  BY <1>1, <1>2, TableFacts
<1>4. \A l \in DOMAIN t.rows : Durable(l) => l \in left
  BY <1>2, TableFacts DEF Durable
<1>5. /\ ~(\E l \in t.deleted : l[1] = t.active /\ l[2] > n)
      /\ \A p \in PK : idxFile[p] # NoLoc => idxFile[p] \in DOMAIN t'.rows
      /\ pc \in {"replay", "replayed"} => ~(m > walFile) /\ ~(n > base)
  BY DEF Windows, WindowNames
<1>6. t.deleted \subseteq left
  <2>1. \A l \in DOMAIN t.rows : ~(l[2] > n) => l[2] <= n
    BY <1>2, TableFacts
  <2>2. t.deleted \subseteq DOMAIN t.rows
    BY DEF PointInv
  <2> QED
    BY <1>5, <2>1, <2>2
<1>7. \A p \in PK : Names(idxFile, p)'
  BY <1>1, <1>5 DEF PointInv, Names
<1>8. pc \in {"replay", "replayed"} => m <= walFile /\ n <= base
  <2>1. base \in Nat
    BY DEF RowsInv, TypeInv, TypeOK
  <2> QED
    BY <1>2, <1>5, <2>1, TableFacts
<1> QED
  BY <1>1, <1>2, <1>3, <1>4, <1>6, <1>7, <1>8

\* Kept when the process dies with the table in use.
LEMMA CrashInUse ==
    ASSUME RowsInv, IndexNamesEveryLiveRow, exposure = {}, SurvivalInv, RowsInv', Serving,
           Crash \/ FastExit, exposure' = {}
    PROVE  SurvivalInv'
<1>0. PointInv /\ PromisesAreKept /\ kept \in [PK -> Val \cup {NoVal, Unknown}]
  BY TableFacts DEF SurvivalInv, ServingInv
<1>1. \A p : \A i \in OpsOn(p) : i <= Len(t.wal)
  BY ServingLog
<1>2. \A p : LiveOf(t, p) \subseteq DOMAIN t.rows
  BY DEF LiveOf, Live
<1>3. CASE Crash
  <2>1. PICK n \in t.flushed .. t.count, m \in walFile .. Len(t.wal) :
             t' = Surviving(n, m) /\ walFile' = m /\ exposure' = exposure \cup Windows(n, m)
    BY <1>3 DEF Crash
  <2>2. pc' = "down" /\ content' = kept /\ kept' = kept /\ idxFile' = idxFile
    BY <1>3 DEF Crash
  <2>3. Windows(n, m) = {}
    BY <2>1
  <2>4. ASSUME NEW p \in PK, content'[p] # Unknown
        PROVE  /\ content'[p] = content[p]
               /\ \A i \in OpsOn(p) : i <= walFile'
               /\ OpsOn(p) = {} => LiveOf(t, p) \subseteq DOMAIN t'.rows
    <3>1. /\ kept[p] = content[p] /\ \A i \in OpsOn(p) : i <= walFile
          /\ \A l \in LiveOf(t, p) : Durable(l)
      BY <1>0, <2>2, <2>4 DEF PromisesAreKept
    <3>2. \A i \in OpsOn(p) : i \in Nat
      BY ServingLog
    <3>3. walFile \in Nat /\ walFile <= m /\ m \in Nat
          /\ \A l \in DOMAIN t.rows : Durable(l) => l \in DOMAIN t'.rows
      BY <1>0, <2>1, <2>2, <2>3, CrashLeaves, TableFacts
    <3> QED
      BY <1>2, <2>1, <2>2, <3>1, <3>2, <3>3
  <2> QED
    BY <1>0, <2>1, <2>2, <2>3, <2>4, CrashLeaves, LeaveStep
<1>4. CASE FastExit
  <2>1. PICK n \in t.flushed .. t.count :
             t' = Surviving(n, Len(t.wal)) /\ exposure' = exposure \cup Windows(n, Len(t.wal))
    BY <1>4 DEF FastExit
  <2>2. pc' = "down" /\ content' = content /\ kept' = content /\ idxFile' = idxFile
        /\ walFile' = Len(t.wal)
    BY <1>4 DEF FastExit
  <2>3. Windows(n, Len(t.wal)) = {} /\ Len(t.wal) \in walFile .. Len(t.wal)
    BY <2>1, TableFacts
  <2>4. ASSUME NEW p \in PK, content'[p] # Unknown
        PROVE  /\ content'[p] = content[p]
               /\ \A i \in OpsOn(p) : i <= walFile'
               /\ OpsOn(p) = {} => LiveOf(t, p) \subseteq DOMAIN t'.rows
    <3>1. OpsOn(p) = {} => \A l \in LiveOf(t, p) : Durable(l)
      BY <1>0 DEF PromisesAreKept
    <3>2. \A l \in DOMAIN t.rows : Durable(l) => l \in DOMAIN t'.rows
      BY <1>0, <2>1, <2>2, <2>3, CrashLeaves
    <3> QED
      BY <1>1, <1>2, <2>2, <3>1, <3>2
  <2> QED
    BY <1>0, <2>1, <2>2, <2>3, <2>4, CrashLeaves, LeaveStep
<1> QED
  BY <1>3, <1>4

\* Kept by Table::close up to the truncation.
LEMMA CloseStep ==
    ASSUME RowsInv, IndexNamesEveryLiveRow, exposure = {}, SurvivalInv, RowsInv', Close
    PROVE  SurvivalInv'
<1>0. Serving /\ PointInv /\ WellFormed(t)
  BY TableFacts DEF Close, Serving, SurvivalInv, ServingInv
<1>1. content' = content /\ kept' = content /\ walFile' = Len(t.wal)
  BY DEF Close
<1>2. \A l \in DOMAIN t.rows : l[1] # t.active \/ l[2] <= t.count
  BY TableFacts
<1>3. CASE pc' = "closing"
  <2>1. t' = FlushBuffers(t) /\ idxFile' = t.index
    BY <1>3 DEF Close
  <2>2. /\ t'.rows = t.rows /\ t'.deleted = t.deleted /\ t'.index = t.index /\ t'.wal = t.wal
        /\ t'.active = t.active /\ t'.flushed = t.count /\ t'.count = t.count
    BY <1>0, <2>1 DEF FlushBuffers, WellFormed, IsTable
  <2>3. PhaseInv' /\ Serving'
    BY <1>1, <1>3, <2>1, <2>2 DEF PhaseInv, Serving
  <2>4. \A l \in DOMAIN t.rows : Durable(l)'
    BY <1>2, <2>2 DEF Durable
  <2> QED
    BY <1>0, <1>1, <2>1, <2>2, <2>3, <2>4, QuietStep
<1>4. CASE pc' # "closing"
  <2>1. t' = [FlushBuffers(t) EXCEPT !.index = NoIndex] /\ idxFile' = idxFile /\ pc' = "down"
    BY <1>4 DEF Close
  <2>2. /\ t'.rows = t.rows /\ t'.deleted = t.deleted /\ t'.index = NoIndex /\ t'.wal = t.wal
        /\ t'.active = t.active /\ t'.flushed = t.count /\ t'.count = t.count
    BY <1>0, <2>1 DEF FlushBuffers, WellFormed, IsTable
  <2>3. \A p \in PK : Names(idxFile, p)'
    BY <1>0, <2>1, <2>2 DEF PointInv, Names
  <2>4. \A p : \A i \in OpsOn(p) : i <= Len(t.wal)
    BY <1>0, ServingLog
  <2>5. \A p : LiveOf(t, p) \subseteq DOMAIN t.rows
    BY DEF LiveOf, Live
  <2>6. t.deleted \subseteq DOMAIN t.rows /\ Len(t.wal) \in Nat /\ Len(t.wal) <= Len(t.wal)
    BY <1>0, TableFacts DEF PointInv
  <2> QED
    BY <1>0, <1>1, <2>1, <2>2, <2>3, <2>4, <2>5, <2>6, LeaveStep
<1> QED
  BY <1>3, <1>4

\* Kept by Wal::truncate: everything is flushed and in the index file.
LEMMA TruncateStep ==
    ASSUME RowsInv, IndexNamesEveryLiveRow, exposure = {}, SurvivalInv, TruncateWal
    PROVE  SurvivalInv'
<1>0. /\ Serving /\ IndexCovers(t) /\ PointInv /\ IndexIsRight /\ PromisesAreKept /\ WellFormed(t)
      /\ t.flushed = t.count /\ idxFile = t.index /\ kept = content
  BY TableFacts DEF TruncateWal, Serving, SurvivalInv, ServingInv, PhaseInv, IndexNamesEveryLiveRow
<1>1. /\ t'.rows = t.rows /\ t'.deleted = t.deleted /\ t'.wal = <<>>
      /\ t'.active = t.active /\ t'.flushed = t.flushed /\ t'.count = t.count
      /\ t'.index = IF pc = "closing" THEN NoIndex ELSE t.index
  BY <1>0 DEF TruncateWal, WellFormed, IsTable
<1>2. /\ idxFile' = idxFile /\ content' = content /\ kept' = kept /\ walFile' = 0
      /\ pc' = IF pc = "closing" THEN "down" ELSE "idle"
  BY DEF TruncateWal, history
<1>3. LogEnd' = 0 /\ \A p : OpsOn(p)' = {}
  BY <1>1, <1>2 DEF LogEnd, OpsOn
<1>4. PointInv'
  <2>1. \A p \in PK : Names(t.index, p)' /\ Names(idxFile, p)'
    BY <1>0, <1>1, <1>2 DEF PointInv, Names, NoIndex
  <2> QED
    BY <1>0, <1>1, <2>1 DEF PointInv
<1>5. EntryInv'
  BY <1>3 DEF EntryInv
<1>6. Live(t)' = Live(t) /\ \A p : LiveOf(t, p)' = LiveOf(t, p)
  BY <1>1 DEF Live, LiveOf
<1>7. \A l \in DOMAIN t.rows : l[1] # t.active \/ l[2] <= t.count
  BY TableFacts
<1>8. \A p : LiveOf(t, p) \subseteq DOMAIN t.rows
  BY DEF LiveOf, Live
<1>9. CASE pc = "closing"
  <2>1. ASSUME NEW p \in PK, content[p] # Unknown PROVE AddsUp(p)'
    <3>1. /\ \A l \in LiveOf(t, p) : t.rows[l].val = content[p]
          /\ content[p] = NoVal => t.index[p] = NoLoc
          /\ content[p] # NoVal => t.index[p] \in LiveOf(t, p)
      BY <1>0, <2>1, LiveIsContent
    <3>2. OldLive(p)' = LiveOf(t, p)
      BY <1>1, <1>2, <1>6, <1>7, <1>8, <1>9 DEF OldLive, Ground
    <3> QED
      BY <1>0, <1>1, <1>2, <1>3, <3>1, <3>2 DEF AddsUp
  <2>2. Ground' <= t'.flushed
    BY <1>0, <1>1, <1>2, <1>9, TableFacts DEF Ground
  <2>3. RecoverInv'
    BY <1>0, <1>1, <1>2, <1>9, <2>1, <2>2 DEF RecoverInv
  <2> QED
    BY <1>2, <1>4, <1>5, <1>9, <2>3, DownParts
<1>10. CASE pc # "closing"
  <2>1. IndexFollowsLog'
    BY <1>0, <1>1, <1>2, <1>3, <1>10 DEF IndexFollowsLog
  <2>2. IndexIsRight'
    BY <1>0, <1>1, <1>2, <1>6, <1>10 DEF IndexIsRight
  <2>3. PromisesAreKept'
    BY <1>0, <1>1, <1>2, <1>3, <1>6, <1>7, <1>8 DEF PromisesAreKept, Durable
  <2>4. PhaseInv' /\ Serving'
    BY <1>2, <1>10 DEF PhaseInv, Serving
  <2> QED
    BY <1>4, <1>5, <2>1, <2>2, <2>3, <2>4, ServingParts
<1> QED
  BY <1>9, <1>10

-----------------------------------------------------------------------------
(* Recovery *)

\* Kept by Table::open, up to the replay.
LEMMA OpenStep ==
    ASSUME RowsInv, exposure = {}, SurvivalInv, Open
    PROVE  SurvivalInv'
<1>0. WellFormed(t) /\ idxFile \in Index /\ PointInv /\ EntryInv /\ RecoverInv
  BY TableFacts DEF Index, SurvivalInv
<1>1. /\ t'.active = t.active /\ t'.count = t.count /\ t'.flushed = t.flushed
      /\ t'.rows = t.rows /\ t'.deleted = t.deleted /\ t'.wal = t.wal
      /\ \A p \in PK : \/ t'.index[p] = idxFile[p]
                       \/ idxFile[p] = NoLoc /\ t'.index[p] \in LiveOf(t, p)
  BY <1>0, LoadIndex DEF Open
<1>2. /\ pc = "down" /\ todo' = t.wal /\ base' = t.count /\ idxFile' = idxFile /\ walFile' = walFile
      /\ content' = content /\ kept' = kept
      /\ pc' = IF t.wal = <<>> THEN "reconcile" ELSE "replay"
  BY DEF Open, disk, history
<1>3. /\ kept = content /\ walFile = Len(t.wal) /\ t.flushed = t.count
      /\ \A p \in PK : content[p] # Unknown => AddsUp(p)
  BY <1>0, <1>2 DEF RecoverInv, Recovering
<1>4. LogEnd = Len(t.wal) /\ LogEnd' = Len(t.wal) /\ \A p : OpsOn(p)' = OpsOn(p)
  BY <1>1, <1>2, <1>3 DEF LogEnd, OpsOn
<1>5. Live(t)' = Live(t) /\ \A p : LiveOf(t, p)' = LiveOf(t, p)
  BY <1>1 DEF Live, LiveOf
<1>6. \A p : LiveOf(t, p) \subseteq DOMAIN t.rows
  BY DEF LiveOf, Live
<1>7. \A l \in DOMAIN t.rows : l[1] # t.active \/ l[2] <= t.count
  BY TableFacts
<1>8. \A p : OldLive(p) = LiveOf(t, p)
  BY <1>2, <1>6, <1>7 DEF OldLive, Ground
<1>9. \A p \in PK : Names(t.index, p)' /\ Names(idxFile, p)'
  BY <1>0, <1>1, <1>2, <1>6 DEF PointInv, Names, LiveOf
<1>10. PointInv' /\ EntryInv'
  BY <1>0, <1>1, <1>4, <1>9 DEF PointInv, EntryInv
<1>11. CASE t.wal = <<>>
  <2>1. pc' = "reconcile" /\ \A p : OpsOn(p) = {}
    BY <1>2, <1>4, <1>11 DEF OpsOn
  <2>2. \A p \in PK : t'.index[p] = NoLoc => idxFile'[p] = NoLoc
    BY <1>1, <1>2
  <2>3. ASSUME NEW p \in PK, content[p] # Unknown
        PROVE  /\ \A l \in LiveOf(t, p)' : t'.rows[l].val = content'[p]
               /\ content'[p] = NoVal => t'.index[p] = NoLoc
               /\ content'[p] # NoVal => \E l \in LiveOf(t, p)' : Durable(l)' \/ l = idxFile'[p]
    <3>1. /\ \A l \in LiveOf(t, p) : t.rows[l].val = content[p]
          /\ IF content[p] = NoVal THEN idxFile[p] = NoLoc ELSE LiveOf(t, p) # {}
      BY <1>3, <1>8, <2>1, <2>3 DEF AddsUp
    <3>2. content[p] = NoVal => LiveOf(t, p) = {}
      BY <1>6, <3>1, TableFacts
    <3>3. \A l \in LiveOf(t, p) : Durable(l)'
      BY <1>1, <1>3, <1>6, <1>7 DEF Durable
    <3> QED
      BY <1>1, <1>2, <1>5, <3>1, <3>2, <3>3
  <2>4. ReconcileInv'
    BY <1>1, <1>2, <1>3, <1>11, <2>1, <2>2, <2>3 DEF ReconcileInv
  <2> QED
    BY <1>10, <2>1, <2>4 DEF SurvivalInv, ServingInv, RecoverInv, ReplayInv, Serving, Recovering
<1>12. CASE t.wal # <<>>
  <2>1. pc' = "replay"
    BY <1>2, <1>12
  <2>2. \A p : OldLive(p)' = LiveOf(t, p)
    BY <1>1, <1>2, <1>5, <1>6, <1>7, <2>1 DEF OldLive, Ground
  <2>3. \A p : AddsUp(p) => AddsUp(p)'
    BY <1>1, <1>2, <1>4, <1>5, <1>8, <2>2 DEF AddsUp, LastOp
  <2>4. RecoverInv'
    <3>1. Ground' <= t'.flushed
      BY <1>1, <1>2, <1>3, <2>1, TableFacts DEF Ground
    <3> QED
      BY <1>2, <1>3, <2>1, <2>3, <3>1 DEF RecoverInv
  <2>5. Len(t.wal) \in Nat /\ Done' = 0
    BY <1>2, <1>3, TableFacts DEF Done
  <2>6. \A p : \A i \in OpsOn(p) : i \in Nat /\ 0 < i
    BY <1>4, <2>5 DEF OpsOn
  <2>7. \A i \in 1 .. Len(todo') : todo'[i] = t'.wal[Done' + i]
    BY <1>1, <1>2, <2>5
  <2>8. ASSUME NEW p \in PK PROVE Replaying(p)'
    <3>1. \A j : ~LastDone(p, j)'
      BY <1>4, <2>5, <2>6 DEF LastDone
    <3> QED
      BY <1>1, <1>2, <1>5, <2>2, <3>1 DEF Replaying
  <2>9. ReplayInv'
    BY <1>2, <1>3, <2>1, <2>5, <2>7, <2>8 DEF ReplayInv
  <2> QED
    BY <1>10, <2>1, <2>4, <2>9 DEF SurvivalInv, ServingInv, ReconcileInv, Serving
<1> QED
  BY <1>11, <1>12

\* The last entry of a key that has been replayed.
LEMMA LastDoneExists ==
    ASSUME RowsInv, pc \in {"replay", "replayed"}, NEW p, NEW k \in Nat,
           \E i \in OpsOn(p) : i <= k
    PROVE  \E j \in OpsOn(p) : j <= k /\ \A i \in OpsOn(p) : i <= k => i <= j
<1> DEFINE D == {i \in OpsOn(p) : i <= k}
<1>1. D \in SUBSET Nat /\ D # {} /\ \A i \in D : i <= k
  BY DEF OpsOn
<1>2. \E j \in D : \A i \in D : i <= j
  <2> HIDE DEF D
  <2> QED
    BY <1>1, GreatestNat
<1> QED
  BY <1>2

\* One entry of the log has been replayed, for key p: what it does not touch stays
\* as it is.
LEMMA ReplayOthers ==
    ASSUME RowsInv, exposure = {}, SurvivalInv, pc = "replay", pc' = "replay",
           todo # <<>>, todo' = Tail(todo), NEW p \in PK, t.wal[Done + 1].pk = p,
           idxFile' = idxFile, walFile' = walFile, base' = base, content' = content, kept' = kept,
           NEW K, \A l \in K : l \in DOMAIN t.rows /\ t.rows[l].pk = p, t'.deleted = t.deleted \cup K,
           t'.active = t.active, t'.flushed \in {t.flushed, t.count},
           \A l \in DOMAIN t.rows : l \in DOMAIN t'.rows /\ t'.rows[l] = t.rows[l],
           \A l \in DOMAIN t'.rows : l \notin DOMAIN t.rows =>
               t'.rows[l].pk = p /\ l = <<t.active, t.count + 1>>,
           \A q \in PK : q # p => t'.index[q] = t.index[q],
           \A i \in 1 .. walFile : t'.wal[i] = t.wal[i],
           Names(t.index, p)', Replaying(p)',
           content[p] # Unknown =>
               \A j \in OpsOn(p) : OpsOn(p) = {j} /\ t.wal[j].op = "insert" =>
                   idxFile[p] = NoLoc \/ idxFile[p] \in Live(t)'
    PROVE  SurvivalInv'
<1>0. PointInv /\ EntryInv /\ RecoverInv /\ ReplayInv
  BY DEF SurvivalInv
<1>1. /\ kept = content /\ base <= t.flushed /\ base \in Nat
      /\ \A q \in PK : content[q] # Unknown => AddsUp(q)
  BY <1>0 DEF RecoverInv, Recovering, Ground, RowsInv, TypeInv, TypeOK
<1>2. /\ walFile \in Nat /\ todo \in Seq(WalOp) /\ Len(todo) \in Nat /\ Len(todo) <= walFile
      /\ \A i \in 1 .. Len(todo) : todo[i] = t.wal[Done + i]
      /\ \A q \in PK : Replaying(q)
  BY <1>0, TableFacts DEF ReplayInv, RowsInv, TypeInv, TypeOK
<1>3. /\ Len(todo') = Len(todo) - 1 /\ Len(todo) >= 1
      /\ \A i \in 1 .. Len(todo') : todo'[i] = todo[i + 1] /\ i + 1 \in 1 .. Len(todo)
  BY <1>2
<1>4. Done \in Nat /\ Done' = Done + 1 /\ Done + 1 \in 1 .. walFile
  BY <1>2, <1>3 DEF Done
<1>5. LogEnd' = walFile /\ LogEnd = walFile
  BY DEF LogEnd
<1>6. \A q : OpsOn(q)' = OpsOn(q) /\ OpsOn(q) \subseteq 1 .. walFile
  BY <1>5 DEF OpsOn
<1>7. Done + 1 \in OpsOn(p) /\ \A q : q # p => Done + 1 \notin OpsOn(q)
  BY <1>4, <1>5 DEF OpsOn
<1>8. \A l \in DOMAIN t'.rows : l \notin DOMAIN t.rows => l[1] = t.active /\ ~(l[2] <= base)
  BY <1>1, TableFacts
<1>9. \A q \in PK : q # p => LiveOf(t, q)' = LiveOf(t, q)
  <2>1. \A q \in PK : q # p => LiveOf(t, q) \subseteq LiveOf(t, q)'
    BY DEF LiveOf, Live
  <2>2. \A q \in PK : q # p => LiveOf(t, q)' \subseteq LiveOf(t, q)
    BY DEF LiveOf, Live
  <2> QED
    BY <2>1, <2>2
<1>10. \A q \in PK : q # p => OldLive(q)' = OldLive(q)
  BY <1>9 DEF OldLive, Ground
<1>11. OldLive(p)' \subseteq OldLive(p)
  BY <1>8 DEF OldLive, Ground, LiveOf, Live
<1>12. \A q \in PK : q # p => \A l \in Live(t) :
           l \in DOMAIN t.rows /\ t.rows[l].pk = q => l \in Live(t)'
  BY DEF Live
<1>13. PointInv'
  <2>1. ASSUME NEW q \in PK, q # p PROVE Names(t.index, q)' /\ Names(idxFile, q)'
    BY <1>0, <2>1 DEF PointInv, Names
  <2>2. Names(idxFile, p)'
    BY <1>0 DEF PointInv, Names
  <2> QED
    BY <1>0, <2>1, <2>2 DEF PointInv
<1>14. EntryInv'
  <2>1. ASSUME NEW i \in 1 .. walFile, t.wal[i].op = "delete"
        PROVE  t'.wal[i].loc \in t'.deleted /\ t'.rows[t'.wal[i].loc].pk = t'.wal[i].pk
    <3>1. t.wal[i].loc \in t.deleted /\ t.rows[t.wal[i].loc].pk = t.wal[i].pk
      BY <1>0, <1>5, <2>1 DEF EntryInv
    <3> QED
      BY <1>0, <3>1 DEF PointInv
  <2>2. \A q \in PK : \A i \in OpsOn(q) : t'.wal[i] = t.wal[i]
    BY <1>6
  <2> QED
    BY <1>0, <1>5, <1>6, <2>1, <2>2 DEF EntryInv
<1>15. ASSUME NEW q \in PK, content[q] # Unknown PROVE AddsUp(q)'
  <2>0. AddsUp(q) /\ \A i \in OpsOn(q) : t'.wal[i] = t.wal[i]
    BY <1>1, <1>6, <1>15
  <2>1. \A l \in OldLive(q)' : t'.rows[l].val = content'[q]
    <3>1. \A l \in OldLive(q) : l \in DOMAIN t.rows
      BY DEF OldLive, LiveOf, Live
    <3> QED
      BY <1>10, <1>11, <2>0, <3>1 DEF AddsUp
  <2>2. OpsOn(q)' = {} => IF content'[q] = NoVal THEN idxFile'[q] = NoLoc ELSE OldLive(q)' # {}
    BY <1>6, <1>7, <1>10, <2>0 DEF AddsUp
  <2>3. \A j \in OpsOn(q)' : LastOp(q, j)' =>
            content'[q] = IF t'.wal[j].op = "insert" THEN t'.wal[j].val ELSE NoVal
    BY <1>6, <2>0 DEF AddsUp, LastOp
  <2>4. ASSUME NEW j \in OpsOn(q)', OpsOn(q)' = {j}, t'.wal[j].op = "insert"
        PROVE  idxFile'[q] = NoLoc \/ idxFile'[q] \in Live(t)'
    <3>1. CASE q = p
      BY <1>6, <1>15, <2>0, <2>4, <3>1
    <3>2. CASE q # p
      <4>1. idxFile[q] = NoLoc \/ idxFile[q] \in Live(t)
        BY <1>6, <2>0, <2>4 DEF AddsUp
      <4>2. idxFile[q] # NoLoc => idxFile[q] \in DOMAIN t.rows /\ t.rows[idxFile[q]].pk = q
        BY <1>0 DEF PointInv, Names
      <4> QED
        BY <1>12, <3>2, <4>1, <4>2
    <3> QED
      BY <3>1, <3>2
  <2> QED
    BY <2>1, <2>2, <2>3, <2>4 DEF AddsUp
<1>16. RecoverInv'
  <2>1. Ground' <= t'.flushed
    BY <1>1, TableFacts DEF Ground
  <2> QED
    BY <1>1, <1>15, <2>1 DEF RecoverInv
<1>17. ASSUME NEW q \in PK, q # p PROVE Replaying(q)'
  <2>1. \A i \in OpsOn(q) : i \in Nat /\ t'.wal[i] = t.wal[i] /\ i # Done + 1
    BY <1>6, <1>7, <1>17
  <2>2. \A i \in OpsOn(q) : (i <= Done' <=> i <= Done) /\ (Done' < i <=> Done < i)
    BY <1>4, <2>1
  <2>3. \A j : LastDone(q, j)' <=> LastDone(q, j)
    BY <1>6, <2>2 DEF LastDone
  <2>4. t'.index[q] = t.index[q] /\ LiveOf(t, q)' = LiveOf(t, q) /\ OldLive(q)' = OldLive(q)
    BY <1>9, <1>10, <1>17
  <2>5. /\ t.index[q] \in Live(t) => t'.index[q] \in Live(t)'
        /\ t.index[q] # NoLoc => t'.rows[t'.index[q]] = t.rows[t.index[q]]
    <3>1. t.index[q] # NoLoc => t.index[q] \in DOMAIN t.rows /\ t.rows[t.index[q]].pk = q
      BY <1>0 DEF PointInv, Names
    <3>2. t.index[q] \in Live(t) => t.index[q] # NoLoc
      BY TableFacts DEF Live
    <3> QED
      BY <1>12, <1>17, <2>4, <3>1, <3>2
  <2>6. Replaying(q)
    BY <1>2
  <2>7. /\ \A l \in LiveOf(t, q)' \ OldLive(q)' : l = t'.index[q]
        /\ (\A i \in OpsOn(q)' : Done' < i) =>
              /\ LiveOf(t, q)' \subseteq OldLive(q)'
              /\ t'.index[q] = idxFile'[q] \/ (idxFile'[q] = NoLoc /\ t'.index[q] \in LiveOf(t, q)')
    BY <1>6, <2>2, <2>4, <2>6 DEF Replaying
  <2>8. ASSUME NEW j \in OpsOn(q)', LastDone(q, j)'
        PROVE  IF t'.wal[j].op = "insert"
               THEN /\ t'.index[q] # NoLoc /\ t'.rows[t'.index[q]].val = t'.wal[j].val
                    /\ \/ \E i \in OpsOn(q)' : i < j
                       \/ content'[q] # Unknown /\ OpsOn(q)' = {j}
                       => t'.index[q] \in Live(t)'
               ELSE t'.index[q] = NoLoc
    BY <1>6, <2>1, <2>3, <2>4, <2>5, <2>6, <2>8 DEF Replaying
  <2> QED
    BY <2>7, <2>8 DEF Replaying
<1>18. ReplayInv'
  <2>1. \A i \in 1 .. Len(todo') : todo'[i] = t'.wal[Done' + i]
    <3>1. SUFFICES ASSUME NEW i \in 1 .. Len(todo') PROVE todo'[i] = t'.wal[Done' + i]
      OBVIOUS
    <3>2. todo'[i] = t.wal[Done + (i + 1)]
      BY <1>2, <1>3
    <3>3. Done + (i + 1) = Done' + i /\ Done' + i \in 1 .. walFile
      BY <1>2, <1>3, <1>4 DEF Done
    <3> QED
      BY <3>2, <3>3
  <2>2. Len(todo') <= walFile'
    BY <1>2, <1>3
  <2> QED
    BY <1>17, <2>1, <2>2 DEF ReplayInv
<1> QED
  BY <1>13, <1>14, <1>16, <1>18 DEF SurvivalInv, ServingInv, ReconcileInv, Serving

\* Where a replay is in the log.
LEMMA ReplayPlace ==
    ASSUME RowsInv, exposure = {}, SurvivalInv, ReplayOp
    PROVE  /\ Done \in Nat /\ Done + 1 \in 1 .. walFile /\ Done' = Done + 1
           /\ Head(todo) = t.wal[Done + 1] /\ Head(todo) \in WalOp /\ Head(todo).pk \in PK
           /\ \A q : OpsOn(q) \subseteq 1 .. walFile
           /\ Done + 1 \in OpsOn(Head(todo).pk)
<1>1. /\ walFile \in Nat /\ todo \in Seq(WalOp) /\ Len(todo) \in Nat /\ Len(todo) <= walFile
      /\ \A i \in 1 .. Len(todo) : todo[i] = t.wal[Done + i]
      /\ pc = "replay" /\ todo # <<>> /\ todo' = Tail(todo) /\ walFile' = walFile
  BY TableFacts DEF ReplayOp, SurvivalInv, ReplayInv, RowsInv, TypeInv, TypeOK, disk
<1>2. Len(todo) >= 1 /\ Len(todo') = Len(todo) - 1 /\ Head(todo) = todo[1] /\ Head(todo) \in WalOp
  BY <1>1
<1>3. Done \in Nat /\ Done + 1 \in 1 .. walFile /\ Done' = Done + 1
  BY <1>1, <1>2 DEF Done
<1>4. Head(todo) = t.wal[Done + 1] /\ Head(todo).pk \in PK
  BY <1>1, <1>2 DEF WalOp
<1>5. \A q : OpsOn(q) = {i \in 1 .. walFile : t.wal[i].pk = q}
  BY <1>1 DEF OpsOn, LogEnd
<1> QED
  BY <1>2, <1>3, <1>4, <1>5

\* An insert that finds the key in the index is the first entry of the key; if it
\* is the only one, the row found is live and has the content of the entry.
LEMMA InsertFindsRow ==
    ASSUME RowsInv, exposure = {}, SurvivalInv, ReplayOp, NEW p \in PK, p = Head(todo).pk,
           Head(todo).op = "insert", t.index[p] # NoLoc
    PROVE  /\ \A i \in OpsOn(p) : Done < i
           /\ \A j : OpsOn(p) = {j} /\ content[p] # Unknown =>
                 t.index[p] \in Live(t) /\ Lookup(t, p) = Head(todo).val
<1> DEFINE k == Done + 1
<1>0. pc = "replay" /\ PointInv /\ EntryInv /\ RecoverInv /\ Replaying(p)
  BY DEF ReplayOp, SurvivalInv, ReplayInv
<1>1. /\ Done \in Nat /\ k \in 1 .. walFile /\ Head(todo) = t.wal[k] /\ k \in OpsOn(p)
      /\ OpsOn(p) \subseteq 1 .. walFile
  BY ReplayPlace
<1>2. \A i \in OpsOn(p) : i \in Nat
  BY <1>1
<1>3. \A i \in OpsOn(p) : Done < i
  <2>1. SUFFICES ASSUME NEW i \in OpsOn(p), i <= Done PROVE FALSE
    BY <1>1, <1>2
  <2>2. PICK j \in OpsOn(p) : j <= Done /\ \A m \in OpsOn(p) : m <= Done => m <= j
    BY <1>0, <1>1, <2>1, LastDoneExists
  <2>3. LastDone(p, j)
    BY <2>2 DEF LastDone
  <2>4. j < k /\ \A m \in OpsOn(p) : m <= j \/ k <= m
    BY <1>1, <1>2, <2>2
  <2>5. t.wal[j].op = "delete"
    BY <1>0, <1>1, <2>4 DEF EntryInv
  <2>6. t.index[p] = NoLoc
    BY <1>0, <2>3, <2>5 DEF Replaying
  <2> QED
    BY <2>6
<1>4. ASSUME NEW j, OpsOn(p) = {j}, content[p] # Unknown
      PROVE  t.index[p] \in Live(t) /\ Lookup(t, p) = Head(todo).val
  <2>1. j = k /\ AddsUp(p)
    BY <1>0, <1>1, <1>4 DEF RecoverInv, Recovering
  <2>2. LastOp(p, k)
    BY <1>1, <1>4, <2>1 DEF LastOp
  <2>3. content[p] = Head(todo).val
    BY <1>1, <2>1, <2>2 DEF AddsUp
  <2>4. idxFile[p] = NoLoc \/ idxFile[p] \in Live(t)
    BY <1>1, <1>4, <2>1 DEF AddsUp
  <2>5. t.index[p] \in Live(t) /\ t.rows[t.index[p]].pk = p
    <3>1. t.index[p] = idxFile[p] \/ t.index[p] \in LiveOf(t, p)
      BY <1>0, <1>3 DEF Replaying
    <3> QED
      BY <1>0, <2>4, <3>1 DEF LiveOf, PointInv, Names
  <2>6. t.index[p] \in LiveOf(t, p) /\ t.index[p] \in OldLive(p)
    BY <1>0, <1>3, <2>5 DEF LiveOf, Replaying
  <2>7. t.rows[t.index[p]].val = content[p]
    BY <2>1, <2>6 DEF AddsUp
  <2> QED
    BY <2>3, <2>5, <2>7 DEF Lookup, Live
<1> QED
  BY <1>3, <1>4

\* Kept by every entry of the replay.
LEMMA ReplayStep ==
    ASSUME RowsInv, exposure = {}, SurvivalInv, ReplayOp
    PROVE  SurvivalInv'
<1> SUFFICES ASSUME NEW p \in PK, p = Head(todo).pk PROVE SurvivalInv'
  BY ReplayPlace
<1> DEFINE op == Head(todo)
           k == Done + 1
           l == <<t.active, t.count + 1>>
<1>0. /\ pc = "replay" /\ PointInv /\ EntryInv /\ RecoverInv
      /\ \A q \in PK : Replaying(q)
  BY DEF ReplayOp, SurvivalInv, ReplayInv
<1>1. /\ Done \in Nat /\ k \in 1 .. walFile /\ Done' = k /\ op = t.wal[k] /\ op \in WalOp /\ p = op.pk
      /\ OpsOn(p) \subseteq 1 .. walFile /\ k \in OpsOn(p)
  BY ReplayPlace
<1>2. /\ t' = Replay(t, op) /\ pc' = "replay" /\ todo # <<>> /\ todo' = Tail(todo)
      /\ idxFile' = idxFile /\ walFile' = walFile /\ base' = base /\ content' = content /\ kept' = kept
  BY <1>0 DEF ReplayOp, disk, history
<1>3. /\ WellFormed(t) /\ t.active \in Nat /\ t.count \in Nat /\ t.flushed \in Nat
      /\ t.flushed <= t.count /\ base \in Nat /\ base <= t.flushed
      /\ t.index \in [PK -> Loc \cup {NoLoc}]
      /\ t.wal \in Seq(WalOp) /\ walFile \in Nat /\ walFile <= Len(t.wal) /\ Len(t.wal) \in Nat
  BY <1>0, TableFacts DEF RecoverInv, Recovering, Ground, RowsInv, TypeInv, TypeOK
<1>4. t.index[p] # NoLoc => t.index[p] \in DOMAIN t.rows /\ t.rows[t.index[p]].pk = p
  BY <1>0, <1>1 DEF PointInv, Names
<1>5. l \notin DOMAIN t.rows /\ l # NoLoc /\ l[1] = t.active /\ ~(l[2] <= base)
  <2>1. \A x \in DOMAIN t.rows : x[1] < t.active \/ (x[1] = t.active /\ x[2] <= t.count)
    BY TableFacts
  <2> QED
    BY <1>3, <2>1 DEF NoLoc
<1>6. \A x \in DOMAIN t.rows : x # NoLoc
  BY TableFacts
<1>7. \A x \in LiveOf(t, p) : x \in OldLive(p) \/ x = t.index[p]
  BY <1>0, <1>1 DEF Replaying
<1>8. ASSUME \A i \in 1 .. walFile : t'.wal[i] = t.wal[i]
      PROVE  /\ OpsOn(p)' = OpsOn(p) /\ t'.wal[k] = op
             /\ \A j : LastDone(p, j)' => j = k
  <2>1. \A q : OpsOn(q)' = OpsOn(q)
    BY <1>0, <1>2, <1>8 DEF OpsOn, LogEnd
  <2>2. ASSUME NEW j, LastDone(p, j)' PROVE j = k
    <3>1. j \in OpsOn(p)' /\ j <= k /\ (k \in OpsOn(p)' /\ k <= k => k <= j)
      BY <1>1, <2>2 DEF LastDone
    <3>2. j \in OpsOn(p) /\ j \in Nat /\ k \in Nat /\ k <= k
      BY <1>1, <2>1, <3>1
    <3>3. k \in OpsOn(p)'
      BY <1>1, <2>1
    <3> QED
      BY <3>1, <3>2, <3>3
  <2> QED
    BY <1>1, <1>8, <2>1, <2>2
<1> HIDE DEF l, k, op
<1>9. CASE op.op = "insert" /\ t.index[p] # NoLoc /\ Lookup(t, p) = op.val
  <2>1. t' = GetRow(t, p)
    BY <1>1, <1>2, <1>9 DEF Replay, Insert
  <2>2. /\ t'.rows = t.rows /\ t'.deleted = t.deleted /\ t'.index = t.index /\ t'.wal = t.wal
        /\ t'.active = t.active /\ t'.flushed \in {t.flushed, t.count}
    BY <1>3, <2>1 DEF GetRow, FlushBuffers, WellFormed, IsTable
  <2>3. OpsOn(p)' = OpsOn(p) /\ t'.wal[k] = op /\ \A j : LastDone(p, j)' => j = k
    BY <1>8, <2>2
  <2>4. /\ \A i \in OpsOn(p) : Done < i
        /\ \A j : OpsOn(p) = {j} /\ content[p] # Unknown => t.index[p] \in Live(t)
    BY <1>1, <1>9, InsertFindsRow DEF op
  <2>5. Live(t)' = Live(t) /\ LiveOf(t, p)' = LiveOf(t, p) /\ OldLive(p)' = OldLive(p)
    BY <1>0, <1>2, <2>2 DEF Live, LiveOf, OldLive, Ground
  <2>6. t.rows[t.index[p]].val = op.val
    BY <1>4, <1>9 DEF Lookup
  <2>7. Replaying(p)'
    <3>1. ~(\A i \in OpsOn(p)' : Done' < i)
      BY <1>1, <2>3 DEF k
    <3>2. ~(\E i \in OpsOn(p) : i < k)
      BY <1>1, <2>4 DEF k
    <3>3. \A x \in LiveOf(t, p)' \ OldLive(p)' : x = t'.index[p]
      BY <1>7, <2>2, <2>5
    <3>4. ASSUME NEW j \in OpsOn(p)', LastDone(p, j)'
          PROVE  IF t'.wal[j].op = "insert"
                 THEN /\ t'.index[p] # NoLoc /\ t'.rows[t'.index[p]].val = t'.wal[j].val
                      /\ \/ \E i \in OpsOn(p)' : i < j
                         \/ content'[p] # Unknown /\ OpsOn(p)' = {j}
                         => t'.index[p] \in Live(t)'
                 ELSE t'.index[p] = NoLoc
      BY <1>2, <1>9, <2>2, <2>3, <2>4, <2>5, <2>6, <3>2, <3>4
    <3> QED
      BY <3>1, <3>3, <3>4 DEF Replaying
  <2>8. content[p] # Unknown => \A j \in OpsOn(p) : OpsOn(p) = {j} /\ t.wal[j].op = "insert" =>
            idxFile[p] = NoLoc \/ idxFile[p] \in Live(t)'
    BY <1>0, <1>1, <2>5 DEF RecoverInv, Recovering, AddsUp
  <2>9. Names(t.index, p)'
    BY <1>0, <1>1, <2>2 DEF PointInv, Names
  <2> DEFINE K == {}
  <2>10. /\ t.wal[Done + 1].pk = p /\ t'.deleted = t.deleted \cup K
         /\ \A x \in K : x \in DOMAIN t.rows /\ t.rows[x].pk = p
         /\ \A x \in DOMAIN t.rows : x \in DOMAIN t'.rows /\ t'.rows[x] = t.rows[x]
         /\ \A x \in DOMAIN t'.rows : x \notin DOMAIN t.rows =>
                t'.rows[x].pk = p /\ x = <<t.active, t.count + 1>>
         /\ \A q \in PK : q # p => t'.index[q] = t.index[q]
         /\ \A i \in 1 .. walFile : t'.wal[i] = t.wal[i]
    BY <1>1, <2>2 DEF k
  <2> HIDE DEF K
  <2> QED
    BY <1>0, <1>1, <1>2, <2>2, <2>7, <2>8, <2>9, <2>10, ReplayOthers
<1>10. CASE op.op = "insert" /\ ~(t.index[p] # NoLoc /\ Lookup(t, p) = op.val)
  <2> DEFINE K == {t.index[p]} \ {NoLoc}
  <2>1. op.val \in Val
    BY <1>1, <1>10 DEF WalOp
  <2>2. /\ t'.rows = [x \in DOMAIN t.rows \cup {l} |-> IF x = l THEN [pk |-> p, val |-> op.val] ELSE t.rows[x]]
        /\ t'.deleted = t.deleted \cup K /\ t'.index = [t.index EXCEPT ![p] = l]
        /\ t'.wal = Append(t.wal, InsertOp(p, op.val))
        /\ t'.active = t.active /\ t'.flushed \in {t.flushed, t.count}
    <3>1. CASE t.index[p] = NoLoc
      <4>1. t' = AppendRow(t, p, op.val)
        BY <1>1, <1>2, <1>10, <3>1 DEF Replay, Insert
      <4> QED
        BY <1>3, <3>1, <4>1 DEF AppendRow, WellFormed, IsTable, l
    <3>2. CASE t.index[p] # NoLoc
      <4> DEFINE tomb == Tombstone(GetRow(t, p), t.index[p])
      <4>1. t' = AppendRow(tomb, p, op.val)
        BY <1>1, <1>2, <1>10, <3>2 DEF Replay, Insert
      <4>2. /\ tomb.rows = t.rows /\ tomb.deleted = t.deleted \cup {t.index[p]}
            /\ tomb.index = t.index /\ tomb.wal = t.wal /\ tomb.active = t.active
            /\ tomb.count = t.count /\ tomb.flushed \in {t.flushed, t.count} /\ DOMAIN tomb = DOMAIN t
        BY <1>3 DEF Tombstone, GetRow, FlushBuffers, WellFormed, IsTable
      <4> HIDE DEF tomb
      <4> QED
        BY <1>3, <3>2, <4>1, <4>2 DEF AppendRow, WellFormed, IsTable, l
    <3> QED
      BY <3>1, <3>2
  <2>3. /\ DOMAIN t'.rows = DOMAIN t.rows \cup {l} /\ t'.rows[l].pk = p /\ t'.rows[l].val = op.val
        /\ \A x \in DOMAIN t.rows : t'.rows[x] = t.rows[x]
        /\ t'.index[p] = l /\ \A q \in PK : q # p => t'.index[q] = t.index[q]
    BY <1>1, <1>3, <1>5, <2>2
  <2>4. \A i \in 1 .. walFile : t'.wal[i] = t.wal[i]
    BY <1>3, <2>2
  <2>5. OpsOn(p)' = OpsOn(p) /\ t'.wal[k] = op /\ \A j : LastDone(p, j)' => j = k
    BY <1>8, <2>4
  <2>6. l \in Live(t)'
    <3>1. l \notin t.deleted /\ l \notin K
      BY <1>0, <1>4, <1>5 DEF PointInv
    <3> QED
      BY <2>2, <2>3, <3>1 DEF Live
  <2>7. Replaying(p)'
    <3>1. ~(\A i \in OpsOn(p)' : Done' < i)
      BY <1>1, <2>5
    <3>2. ASSUME NEW x \in LiveOf(t, p)', x \notin OldLive(p)' PROVE x = t'.index[p]
      <4>1. CASE x = l
        BY <2>3, <4>1
      <4>2. CASE x # l
        <5>1. x \in LiveOf(t, p) /\ x \notin K
          BY <2>2, <2>3, <3>2, <4>2 DEF LiveOf, Live
        <5>2. x \notin OldLive(p)
          BY <1>0, <1>2, <2>2, <3>2, <5>1 DEF OldLive, Ground
        <5>3. x = t.index[p] /\ x # NoLoc
          BY <1>6, <1>7, <5>1, <5>2 DEF LiveOf, Live
        <5> QED
          BY <5>1, <5>3
      <4> QED
        BY <4>1, <4>2
    <3> QED
      BY <1>2, <1>5, <1>10, <2>3, <2>5, <2>6, <3>1, <3>2 DEF Replaying
  <2>8. ASSUME content[p] # Unknown, NEW j \in OpsOn(p), OpsOn(p) = {j}
        PROVE  idxFile[p] = NoLoc
    <3>1. t.index[p] = NoLoc
      BY <1>1, <1>10, <2>8, InsertFindsRow DEF op
    <3>2. \A i \in OpsOn(p) : Done < i
      BY <1>1, <2>8 DEF k
    <3> QED
      BY <1>0, <1>1, <3>1, <3>2 DEF Replaying
  <2>9. Names(t.index, p)'
    BY <2>3 DEF Names
  <2>10. t.wal[Done + 1].pk = p /\ \A x \in K : x \in DOMAIN t.rows /\ t.rows[x].pk = p
    BY <1>1, <1>4 DEF k
  <2>11. \A x \in DOMAIN t'.rows : x \notin DOMAIN t.rows =>
             t'.rows[x].pk = p /\ x = <<t.active, t.count + 1>>
    BY <2>3 DEF l
  <2> HIDE DEF K
  <2> QED
    BY <1>0, <1>1, <1>2, <2>2, <2>3, <2>4, <2>7, <2>8, <2>9, <2>10, <2>11, ReplayOthers,
       ZenonT(30)
<1>11. CASE op.op # "insert"
  <2> DEFINE K == {op.loc, t.index[p]} \ {NoLoc}
  <2>1. /\ t'.rows = t.rows /\ t'.deleted = t.deleted \cup K /\ t'.index = [t.index EXCEPT ![p] = NoLoc]
        /\ t'.wal = t.wal /\ t'.active = t.active /\ t'.flushed = t.flushed
    BY <1>1, <1>2, <1>3, <1>11 DEF Replay, WellFormed, IsTable
  <2>2. t'.index[p] = NoLoc /\ \A q \in PK : q # p => t'.index[q] = t.index[q]
    BY <1>1, <1>3, <2>1
  <2>3. OpsOn(p)' = OpsOn(p) /\ t'.wal[k] = op /\ \A j : LastDone(p, j)' => j = k
    BY <1>8, <2>1
  <2>4. op.loc \in DOMAIN t.rows /\ t.rows[op.loc].pk = p
    <3>1. op.op = "delete"
      BY <1>1, <1>11 DEF WalOp
    <3>2. k \in 1 .. LogEnd
      BY <1>0, <1>1 DEF LogEnd
    <3> QED
      BY <1>0, <1>1, <3>1, <3>2 DEF EntryInv, PointInv
  <2>5. Replaying(p)'
    <3>1. ~(\A i \in OpsOn(p)' : Done' < i)
      BY <1>1, <2>3
    <3>2. ASSUME NEW x \in LiveOf(t, p)', x \notin OldLive(p)' PROVE FALSE
      <4>1. x \in LiveOf(t, p) /\ x \notin K
        BY <2>1, <3>2 DEF LiveOf, Live
      <4>2. x \notin OldLive(p)
        BY <1>0, <1>2, <2>1, <3>2, <4>1 DEF OldLive, Ground
      <4>3. x = t.index[p] /\ x # NoLoc
        BY <1>6, <1>7, <4>1, <4>2 DEF LiveOf, Live
      <4> QED
        BY <4>1, <4>3
    <3> QED
      BY <1>11, <2>2, <2>3, <3>1, <3>2 DEF Replaying
  <2>6. ASSUME NEW j \in OpsOn(p), OpsOn(p) = {j} PROVE t.wal[j].op # "insert"
    BY <1>1, <1>11, <2>6
  <2>7. Names(t.index, p)'
    BY <2>2 DEF Names
  <2>8. t.wal[Done + 1].pk = p /\ \A x \in K : x \in DOMAIN t.rows /\ t.rows[x].pk = p
    BY <1>1, <1>4, <2>4 DEF k
  <2> HIDE DEF K
  <2> QED
    BY <1>0, <1>1, <1>2, <2>1, <2>2, <2>5, <2>6, <2>7, <2>8, ReplayOthers, ZenonT(30)
<1> QED
  BY <1>9, <1>10, <1>11

\* At the end of a replay every entry of every key has been replayed.
LEMMA AllDone ==
    ASSUME RowsInv, ReplayInv, pc \in {"replay", "replayed"}, todo = <<>>
    PROVE  /\ \A p : OpsOn(p) \subseteq 1 .. walFile /\ \A i \in OpsOn(p) : i \in Nat /\ i <= Done
           /\ \A p \in PK : OpsOn(p) # {} => \E j \in OpsOn(p) : LastOp(p, j) /\ LastDone(p, j)
<1>1. walFile \in Nat /\ Done = walFile
  BY TableFacts DEF Done
<1>2. \A p : OpsOn(p) \subseteq 1 .. walFile
  BY DEF OpsOn, LogEnd
<1>3. \A p : \A i \in OpsOn(p) : i \in Nat /\ i <= Done
  BY <1>1, <1>2
<1>4. ASSUME NEW p \in PK, OpsOn(p) # {} PROVE \E j \in OpsOn(p) : LastOp(p, j) /\ LastDone(p, j)
  <2>1. PICK j \in OpsOn(p) : j <= walFile /\ \A i \in OpsOn(p) : i <= walFile => i <= j
    BY <1>1, <1>3, <1>4, LastDoneExists
  <2>2. \A i \in OpsOn(p) : i <= j
    BY <1>1, <1>3, <2>1
  <2> QED
    BY <1>3, <2>1, <2>2 DEF LastOp, LastDone
<1> QED
  BY <1>2, <1>3, <1>4

\* Kept when the replay saves its index.
LEMMA ReplaySaveStep ==
    ASSUME RowsInv, exposure = {}, SurvivalInv, ReplaySaveIndex
    PROVE  SurvivalInv'
<1>0. pc = "replay" /\ todo = <<>> /\ PointInv /\ EntryInv /\ RecoverInv /\ ReplayInv
  BY DEF ReplaySaveIndex, SurvivalInv
<1>1. /\ t' = t /\ pc' = "replayed" /\ idxFile' = t.index /\ walFile' = walFile
      /\ todo' = todo /\ base' = base /\ content' = content /\ kept' = kept
  BY DEF ReplaySaveIndex, recovery, history
<1>2. LogEnd' = LogEnd /\ Done' = Done /\ \A p : OpsOn(p)' = OpsOn(p)
  BY <1>0, <1>1 DEF LogEnd, OpsOn, Done
<1>3. \A p : \A j : (LastOp(p, j)' <=> LastOp(p, j)) /\ (LastDone(p, j)' <=> LastDone(p, j))
  BY <1>2 DEF LastOp, LastDone
<1>4. \A p : OldLive(p)' = OldLive(p)
  BY <1>0, <1>1 DEF OldLive, Ground
<1>5. PointInv' /\ EntryInv'
  BY <1>0, <1>1, <1>2 DEF PointInv, Names, EntryInv
<1>6. ASSUME NEW p \in PK, content[p] # Unknown PROVE AddsUp(p)'
  <2>0. AddsUp(p) /\ Replaying(p)
    BY <1>0, <1>6 DEF RecoverInv, Recovering, ReplayInv
  <2>1. OpsOn(p) = {} /\ content[p] = NoVal => t.index[p] = NoLoc
    <3>1. OpsOn(p) = {} => LiveOf(t, p) \subseteq OldLive(p) /\
                           (t.index[p] = idxFile[p] \/ t.index[p] \in LiveOf(t, p))
      BY <2>0 DEF Replaying
    <3>2. content[p] = NoVal => OldLive(p) = {}
      BY <2>0, TableFacts DEF AddsUp, OldLive, LiveOf, Live
    <3> QED
      BY <2>0, <3>1, <3>2 DEF AddsUp
  <2>2. ASSUME NEW j \in OpsOn(p), OpsOn(p) = {j}, t.wal[j].op = "insert" PROVE t.index[p] \in Live(t)
    <3>1. LastDone(p, j)
      BY <1>0, <2>2, AllDone DEF LastDone
    <3> QED
      BY <1>6, <2>0, <2>2, <3>1 DEF Replaying
  <2> QED
    BY <1>1, <1>2, <1>3, <1>4, <2>0, <2>1, <2>2 DEF AddsUp
<1>7. RecoverInv'
  BY <1>0, <1>1, <1>6 DEF RecoverInv, Recovering, Ground
<1>8. ASSUME NEW p \in PK PROVE Replaying(p)'
  <2>1. Replaying(p)
    BY <1>0 DEF ReplayInv
  <2> QED
    BY <1>1, <1>2, <1>3, <1>4, <2>1 DEF Replaying
<1>9. ReplayInv'
  BY <1>0, <1>1, <1>2, <1>8 DEF ReplayInv
<1> QED
  BY <1>1, <1>5, <1>7, <1>9 DEF SurvivalInv, ServingInv, ReconcileInv, Serving

\* Kept when the replayed log is truncated: the replayed rows are what was promised.
LEMMA ReplayTruncateStep ==
    ASSUME RowsInv, exposure = {}, SurvivalInv, ReplayTruncate
    PROVE  SurvivalInv'
<1>0. /\ pc = "replayed" /\ todo = <<>> /\ PointInv /\ EntryInv /\ RecoverInv /\ ReplayInv
      /\ idxFile = t.index /\ kept = content /\ base <= t.flushed
  BY DEF ReplayTruncate, SurvivalInv, ReplayInv, RecoverInv, Recovering, Ground
<1>1. /\ t'.rows = t.rows /\ t'.deleted = t.deleted /\ t'.index = t.index /\ t'.wal = <<>>
      /\ t'.active = t.active /\ t'.flushed = t.flushed
  BY TableFacts DEF ReplayTruncate, WellFormed, IsTable
<1>2. /\ pc' = "reconcile" /\ idxFile' = idxFile /\ content' = content /\ kept' = kept
  BY DEF ReplayTruncate, history
<1>3. LogEnd' = 0 /\ \A p : OpsOn(p)' = {}
  BY <1>1, <1>2 DEF LogEnd, OpsOn
<1>4. PointInv' /\ EntryInv'
  BY <1>0, <1>1, <1>2, <1>3 DEF PointInv, Names, EntryInv
<1>5. \A p : LiveOf(t, p)' = LiveOf(t, p) /\ LiveOf(t, p) \subseteq DOMAIN t.rows
  BY <1>1 DEF LiveOf, Live
<1>6. \A p : \A l \in OldLive(p) : l \in LiveOf(t, p) /\ Durable(l)'
  <2>1. base \in Nat /\ t.flushed \in Nat /\ \A l \in DOMAIN t.rows : l[2] \in Nat
    BY TableFacts DEF RowsInv, TypeInv, TypeOK
  <2>2. \A p : \A l \in OldLive(p) : l \in LiveOf(t, p) /\ (l[1] # t.active \/ l[2] <= base)
    BY <1>0 DEF OldLive, Ground
  <2> QED
    BY <1>0, <1>1, <1>5, <2>1, <2>2 DEF Durable
<1>7. ASSUME NEW p \in PK, content[p] # Unknown
      PROVE  /\ \A l \in LiveOf(t, p) : t.rows[l].val = content[p]
             /\ content[p] = NoVal => t.index[p] = NoLoc
             /\ content[p] # NoVal => \E l \in LiveOf(t, p) : Durable(l)' \/ l = idxFile[p]
  <2>0. AddsUp(p) /\ Replaying(p)
    BY <1>0, <1>7 DEF RecoverInv, Recovering, ReplayInv
  <2>1. CASE OpsOn(p) = {}
    <3>1. LiveOf(t, p) \subseteq OldLive(p)
      BY <2>0, <2>1 DEF Replaying
    <3>2. IF content[p] = NoVal THEN idxFile[p] = NoLoc ELSE OldLive(p) # {}
      BY <2>0, <2>1 DEF AddsUp
    <3> QED
      BY <1>0, <1>6, <2>0, <3>1, <3>2 DEF AddsUp
  <2>2. CASE OpsOn(p) # {}
    <3>1. PICK j \in OpsOn(p) : LastOp(p, j) /\ LastDone(p, j)
      BY <1>0, <2>2, AllDone
    <3>2. content[p] = IF t.wal[j].op = "insert" THEN t.wal[j].val ELSE NoVal
      BY <2>0, <3>1 DEF AddsUp
    <3>3. \A l \in LiveOf(t, p) : t.rows[l].val = content[p] \/ l = t.index[p]
      BY <2>0 DEF AddsUp, Replaying
    <3>4. t.index[p] # NoLoc => t.index[p] \in DOMAIN t.rows /\ t.rows[t.index[p]].pk = p
      BY <1>0 DEF PointInv, Names
    <3>5. CASE t.wal[j].op = "insert"
      <4>1. t.index[p] # NoLoc /\ t.rows[t.index[p]].val = t.wal[j].val
        BY <2>0, <3>1, <3>5 DEF Replaying
      <4>2. (\E i \in OpsOn(p) : i < j) \/ OpsOn(p) = {j}
        <5>1. \A i \in OpsOn(p) : i \in Nat
          BY <1>0, AllDone
        <5>2. \A i \in OpsOn(p) : i < j \/ i = j
          BY <3>1, <5>1 DEF LastOp
        <5> QED
          BY <3>1, <5>2
      <4>3. t.index[p] \in Live(t)
        BY <1>7, <2>0, <3>1, <3>5, <4>2 DEF Replaying
      <4>4. t.index[p] \in LiveOf(t, p) /\ content[p] # NoVal
        BY <3>2, <3>4, <3>5, <4>1, <4>3, TableFacts DEF LiveOf
      <4> QED
        BY <1>0, <3>2, <3>3, <3>5, <4>1, <4>4
    <3>6. CASE t.wal[j].op # "insert"
      <4>1. t.index[p] = NoLoc
        BY <2>0, <3>1, <3>6 DEF Replaying
      <4>2. \A l \in LiveOf(t, p) : l # NoLoc
        BY <1>5, TableFacts
      <4> QED
        BY <3>2, <3>3, <3>6, <4>1, <4>2
    <3> QED
      BY <3>5, <3>6
  <2> QED
    BY <2>1, <2>2
<1>8. ReconcileInv'
  BY <1>0, <1>1, <1>2, <1>5, <1>7 DEF ReconcileInv
<1> QED
  BY <1>2, <1>4, <1>8 DEF SurvivalInv, ServingInv, RecoverInv, ReplayInv, Serving, Recovering

\* Kept by the reconcile that ends an open.
LEMMA OpenReconcileStep ==
    ASSUME RowsInv, exposure = {}, SurvivalInv, OpenReconcile
    PROVE  SurvivalInv'
<1>0. pc = "reconcile" /\ PointInv /\ ReconcileInv /\ WellFormed(t)
  BY TableFacts DEF OpenReconcile, SurvivalInv
<1>1. /\ t.wal = <<>> /\ kept = content
      /\ \A p \in PK : t.index[p] = NoLoc => idxFile[p] = NoLoc
      /\ \A p \in PK : content[p] # Unknown =>
            /\ \A l \in LiveOf(t, p) : t.rows[l].val = content[p]
            /\ content[p] = NoVal => t.index[p] = NoLoc
            /\ content[p] # NoVal => LiveOf(t, p) # {}
  BY <1>0 DEF ReconcileInv
<1>2. /\ t'.rows = t.rows /\ t'.wal = t.wal /\ t'.active = t.active /\ t'.flushed = t.count
      /\ t'.deleted = t.deleted \cup {l \in Live(t) : l # Winner(t, t.rows[l].pk)}
      /\ t'.index = [p \in PK |-> IF LiveOf(t, p) = {} THEN t.index[p] ELSE Winner(t, p)]
  BY <1>0 DEF OpenReconcile, Reconcile, WellFormed, IsTable
<1>3. /\ idxFile' = idxFile /\ walFile' = walFile /\ content' = content /\ kept' = kept
      /\ pc' \in {"rotate", "idle"}
  BY DEF OpenReconcile, disk, history
<1>4. \A p \in PK : LiveOf(t, p) # {} => Winner(t, p) \in LiveOf(t, p)
  BY <1>0, WinnerExists
<1>5. \A p : \A l \in LiveOf(t, p) : l \in DOMAIN t.rows /\ l # NoLoc /\ t.rows[l].pk = p
  BY TableFacts DEF LiveOf, Live
<1>6. ASSUME NEW p \in PK, LiveOf(t, p) # {}
      PROVE  t'.index[p] = Winner(t, p) /\ Winner(t, p) \in Live(t)' /\ Winner(t, p) \in LiveOf(t, p)
  <2> DEFINE x == Winner(t, p)
  <2>1. x \in LiveOf(t, p) /\ t'.index[p] = x
    BY <1>2, <1>4, <1>6
  <2>2. x \in DOMAIN t.rows /\ x \notin t.deleted /\ t.rows[x].pk = p
    BY <2>1 DEF LiveOf, Live
  <2>3. x \notin {l \in Live(t) : l # Winner(t, t.rows[l].pk)}
    BY <2>2
  <2>4. x \in Live(t)'
    BY <1>2, <2>2, <2>3 DEF Live
  <2> QED
    BY <2>1, <2>4
<1>7. \A p \in PK : LiveOf(t, p) = {} => t'.index[p] = t.index[p]
  BY <1>2
<1>8. Serving' /\ PhaseInv'
  BY <1>3 DEF Serving, PhaseInv
<1>9. LogEnd' = 0 /\ \A p : OpsOn(p)' = {}
  BY <1>1, <1>2, <1>8, ServingLogNext
<1>10. PointInv'
  <2>1. \A p \in PK : Names(t.index, p)' /\ Names(idxFile, p)'
    BY <1>0, <1>2, <1>3, <1>5, <1>6, <1>7 DEF PointInv, Names
  <2>2. t'.deleted \subseteq DOMAIN t'.rows
    BY <1>0, <1>2 DEF PointInv, Live
  <2> QED
    BY <2>1, <2>2 DEF PointInv
<1>11. EntryInv'
  BY <1>9 DEF EntryInv
<1>12. IndexFollowsLog'
  BY <1>1, <1>3, <1>5, <1>6, <1>7, <1>9 DEF IndexFollowsLog
<1>13. IndexIsRight'
  <2>1. ASSUME NEW p \in PK, content[p] # Unknown
        PROVE  IF content'[p] = NoVal THEN t'.index[p] = NoLoc
               ELSE t'.index[p] \in Live(t)' /\ t'.rows[t'.index[p]].val = content'[p]
    <3>1. CASE content[p] = NoVal
      <4>1. LiveOf(t, p) = {}
        BY <1>1, <1>5, <2>1, <3>1, TableFacts
      <4> QED
        BY <1>1, <1>3, <1>7, <2>1, <3>1, <4>1
    <3>2. CASE content[p] # NoVal
      BY <1>1, <1>2, <1>3, <1>6, <2>1, <3>2
    <3> QED
      BY <3>1, <3>2
  <2> QED
    BY <1>3, <2>1 DEF IndexIsRight
<1>14. PromisesAreKept'
  <2>1. \A l \in DOMAIN t.rows : l[1] # t.active \/ l[2] <= t.count
    BY TableFacts
  <2>2. \A p \in PK : \A l \in LiveOf(t, p)' : Durable(l)'
    BY <1>2, <2>1 DEF LiveOf, Live, Durable
  <2> QED
    BY <1>1, <1>3, <1>9, <2>2 DEF PromisesAreKept
<1> QED
  BY <1>8, <1>10, <1>11, <1>12, <1>13, <1>14, ServingParts

\* Kept when the process dies during a recovery: the old rows, the index file and
\* the log are as they were, or the replayed rows are in their segment already.
LEMMA CrashRecovering ==
    ASSUME RowsInv, exposure = {}, SurvivalInv, RowsInv', Crash, exposure' = {},
           pc \in {"replay", "replayed", "reconcile"}
    PROVE  SurvivalInv'
<1>0. PointInv /\ EntryInv /\ RecoverInv /\ ReconcileInv
  BY DEF SurvivalInv
<1>1. PICK n \in t.flushed .. t.count, m \in walFile .. Len(t.wal) :
           t' = Surviving(n, m) /\ walFile' = m /\ exposure' = exposure \cup Windows(n, m)
  BY DEF Crash
<1>2. kept = content
  BY <1>0 DEF RecoverInv, ReconcileInv, Recovering
<1>3. pc' = "down" /\ content' = content /\ kept' = content /\ idxFile' = idxFile
  BY <1>2 DEF Crash
<1>4. Windows(n, m) = {}
  BY <1>1
<1>5. /\ t'.active = t.active /\ t'.count = n /\ t'.flushed = n /\ t'.index = NoIndex
      /\ DOMAIN t'.rows \subseteq DOMAIN t.rows /\ \A l \in DOMAIN t'.rows : t'.rows[l] = t.rows[l]
      /\ \A l \in DOMAIN t.rows : l \in DOMAIN t'.rows <=> l[1] # t.active \/ l[2] <= n
      /\ \A l \in DOMAIN t.rows : Durable(l) => l \in DOMAIN t'.rows
      /\ t'.deleted = t.deleted /\ t.deleted \subseteq DOMAIN t'.rows
      /\ \A p \in PK : Names(idxFile, p)'
      /\ Len(t'.wal) = m /\ \A i \in 1 .. m : t'.wal[i] = t.wal[i]
      /\ pc \in {"replay", "replayed"} => m <= walFile /\ n <= base
      /\ n \in Nat /\ m \in Nat /\ m <= Len(t.wal) /\ walFile <= m /\ t.flushed <= n
  BY <1>0, <1>1, <1>3, <1>4, CrashLeaves
<1>6. LogEnd = m
  <2>1. CASE pc \in {"replay", "replayed"}
    BY <1>5, <2>1, TableFacts DEF LogEnd
  <2>2. CASE pc = "reconcile"
    <3>1. Len(t.wal) = 0
      BY <1>0, <2>2 DEF ReconcileInv
    <3> QED
      BY <1>5, <2>2, <3>1 DEF LogEnd
  <2> QED
    BY <2>1, <2>2
<1>7. LogEnd' = m /\ \A p : OpsOn(p)' = OpsOn(p)
  BY <1>3, <1>5, <1>6 DEF LogEnd, OpsOn
<1>8. \A p : \A j \in OpsOn(p) : j \in 1 .. m /\ t'.wal[j] = t.wal[j]
  BY <1>5, <1>6 DEF OpsOn
<1>9. \A p : LiveOf(t, p)' = {l \in LiveOf(t, p) : l[1] # t.active \/ l[2] <= n}
  BY <1>5 DEF LiveOf, Live
<1>10. \A p : OldLive(p)' = LiveOf(t, p)'
  BY <1>3, <1>5, <1>9 DEF OldLive, Ground
<1>11. PointInv'
  <2>1. \A p \in PK : Names(t.index, p)'
    BY <1>5 DEF Names, NoIndex
  <2> QED
    BY <1>5, <2>1 DEF PointInv
<1>12. EntryInv'
  <2>1. ASSUME NEW i \in 1 .. m, t'.wal[i].op = "delete"
        PROVE  t'.wal[i].loc \in t'.deleted /\ t'.rows[t'.wal[i].loc].pk = t'.wal[i].pk
    <3>1. t'.wal[i] = t.wal[i] /\ t.wal[i].loc \in t.deleted /\ t.rows[t.wal[i].loc].pk = t.wal[i].pk
      BY <1>0, <1>5, <1>6, <2>1 DEF EntryInv
    <3> QED
      BY <1>5, <3>1
  <2>2. ASSUME NEW q \in PK, NEW i \in OpsOn(q), NEW j \in OpsOn(q), i < j, t'.wal[j].op = "insert",
               \A k \in OpsOn(q) : k <= i \/ j <= k
        PROVE  t'.wal[i].op = "delete"
    BY <1>0, <1>8, <2>2 DEF EntryInv
  <2> QED
    BY <1>7, <2>1, <2>2 DEF EntryInv
<1>13. ASSUME NEW p \in PK, content[p] # Unknown PROVE AddsUp(p)'
  <2>1. CASE pc \in {"replay", "replayed"}
    <3>1. AddsUp(p) /\ base <= t.flushed
      BY <1>0, <1>13, <2>1 DEF RecoverInv, Recovering, Ground
    <3>2. n = base
      BY <1>5, <2>1, <3>1, TableFacts, SMTT(20) DEF RowsInv, TypeInv, TypeOK
    <3>3. OldLive(p)' = OldLive(p)
      BY <1>9, <1>10, <2>1, <3>2 DEF OldLive, Ground
    <3>4. \A l \in OldLive(p)' : t'.rows[l] = t.rows[l]
      BY <1>5, <1>10 DEF LiveOf, Live
    <3>5. idxFile[p] \in Live(t) => idxFile[p] \in Live(t)'
      <4>1. idxFile[p] \in Live(t) => idxFile[p] # NoLoc
        BY TableFacts DEF Live
      <4>2. idxFile[p] # NoLoc => idxFile[p] \in DOMAIN t'.rows
        BY <1>3, <1>5 DEF Names
      <4> QED
        BY <1>5, <4>1, <4>2 DEF Live
    <3>6. \A j : LastOp(p, j)' <=> LastOp(p, j)
      BY <1>7 DEF LastOp
    <3> QED
      BY <1>3, <1>7, <1>8, <3>1, <3>3, <3>4, <3>5, <3>6 DEF AddsUp
  <2>2. CASE pc = "reconcile"
    <3>1. /\ t.index[p] = NoLoc => idxFile[p] = NoLoc
          /\ \A l \in LiveOf(t, p) : t.rows[l].val = content[p]
          /\ content[p] = NoVal => t.index[p] = NoLoc
          /\ content[p] # NoVal => \E l \in LiveOf(t, p) : Durable(l) \/ l = idxFile[p]
      BY <1>0, <1>13, <2>2 DEF ReconcileInv
    <3>2. m = 0
      BY <1>0, <1>5, <2>2 DEF ReconcileInv
    <3>3. OpsOn(p)' = {}
      BY <1>7, <3>2 DEF OpsOn
    <3>4. \A l \in OldLive(p)' : l \in LiveOf(t, p) /\ t'.rows[l] = t.rows[l]
      BY <1>5, <1>9, <1>10 DEF LiveOf, Live
    <3>5. content[p] # NoVal => OldLive(p)' # {}
      <4>1. \A l \in LiveOf(t, p) : l \in DOMAIN t.rows /\ l # NoLoc
        BY TableFacts DEF LiveOf, Live
      <4>2. idxFile[p] # NoLoc => idxFile[p] \in DOMAIN t'.rows
        BY <1>3, <1>5 DEF Names
      <4>3. \A l \in LiveOf(t, p) : Durable(l) \/ l = idxFile[p] => l \in DOMAIN t'.rows
        BY <1>5, <4>1, <4>2
      <4>4. \A l \in LiveOf(t, p) : l \in DOMAIN t'.rows => l \in OldLive(p)'
        BY <1>5, <1>9, <1>10, <4>1
      <4> QED
        BY <3>1, <4>3, <4>4
    <3> QED
      BY <1>3, <3>1, <3>3, <3>4, <3>5 DEF AddsUp
  <2> QED
    BY <2>1, <2>2
<1>14. RecoverInv'
  <2>1. Ground' <= t'.flushed
    BY <1>3, <1>5 DEF Ground
  <2> QED
    BY <1>1, <1>3, <1>5, <1>13, <2>1 DEF RecoverInv
<1> QED
  BY <1>3, <1>11, <1>12, <1>14, DownParts

-----------------------------------------------------------------------------
(* Every step *)

\* The crash windows that have been hit are remembered.
LEMMA ExposureGrows == [Next]_vars => exposure \subseteq exposure'
<1>1. ASSUME NEW p \in PK, DeleteRow(p) \/ \E v \in Val : WriteRow(p, v)
                           \/ \E k \in {"write", "update"} : UpdateDelete(k, p, v)
      PROVE  exposure' = exposure
  BY <1>1 DEF DeleteRow, WriteRow, UpdateDelete
<1>2. Continue => exposure' = exposure
  BY DEF Continue, UpdateInsert, UpdateReconcile, EndBatch, SealSegment, FinishRotation, TruncateWal,
         ReplayOp, ReplaySaveIndex, ReplayTruncate, OpenReconcile, history
<1>3. FlushActiveSegmentBuffers \/ Close \/ Open \/ OpenFails \/ OpenForQuery \/ UNCHANGED vars
          => exposure' = exposure
  BY DEF FlushActiveSegmentBuffers, Close, Open, OpenFails, OpenForQuery, history, vars
<1>4. Crash \/ FastExit => exposure \subseteq exposure'
  BY DEF Crash, FastExit
<1> QED
  BY <1>1, <1>2, <1>3, <1>4 DEF Next, RowStep

\* Kept by a step that changes nothing.
LEMMA StutterStep ==
    ASSUME SurvivalInv, UNCHANGED vars
    PROVE  SurvivalInv'
<1>1. /\ pc' = pc /\ t' = t /\ ev' = ev /\ idxFile' = idxFile /\ walFile' = walFile
      /\ todo' = todo /\ base' = base /\ content' = content /\ kept' = kept /\ exposure' = exposure
  BY DEF vars, disk, recovery, history
<1>2. /\ LogEnd' = LogEnd /\ Ground' = Ground /\ Done' = Done
      /\ \A p : OpsOn(p)' = OpsOn(p) /\ OldLive(p)' = OldLive(p)
  BY <1>1 DEF LogEnd, Ground, Done, OpsOn, OldLive
<1>3. \A p, j : (LastOp(p, j)' <=> LastOp(p, j)) /\ (LastDone(p, j)' <=> LastDone(p, j))
  BY <1>1, <1>2 DEF LastOp, LastDone
<1>4. (PointInv' <=> PointInv) /\ (EntryInv' <=> EntryInv)
  BY <1>1, <1>2 DEF PointInv, Names, EntryInv
<1>5. ServingInv' <=> ServingInv
  BY <1>1, <1>2, <1>3 DEF ServingInv, Serving, IndexFollowsLog, IndexIsRight, PromisesAreKept, Durable,
                          PhaseInv
<1>6. RecoverInv' <=> RecoverInv
  BY <1>1, <1>2, <1>3 DEF RecoverInv, Recovering, AddsUp
<1>7. ReplayInv' <=> ReplayInv
  BY <1>1, <1>2, <1>3 DEF ReplayInv, Replaying
<1>8. ReconcileInv' <=> ReconcileInv
  BY <1>1 DEF ReconcileInv, Durable
<1> QED
  BY <1>1, <1>4, <1>5, <1>6, <1>7, <1>8 DEF SurvivalInv

\* Kept by every step.
LEMMA SurvivalStep ==
    ASSUME ~LazyQueryOpen, RowsInv, RowsInv', IndexNamesEveryLiveRow, SurvivalInv, [Next]_vars
    PROVE  SurvivalInv'
<1> SUFFICES ASSUME exposure' = {} PROVE SurvivalInv'
  BY DEF SurvivalInv
<1>0. exposure = {}
  BY ExposureGrows
<1>1. CASE RowStep \/ UpdateInsert
  BY <1>0, <1>1, RowActions
<1>2. CASE UpdateReconcile \/ EndBatch \/ FlushActiveSegmentBuffers \/ SealSegment \/ FinishRotation
  BY <1>0, <1>2, QuietActions
<1>3. CASE TruncateWal
  BY <1>0, <1>3, TruncateStep
<1>4. CASE Close
  BY <1>0, <1>4, CloseStep
<1>5. CASE Open
  BY <1>0, <1>5, OpenStep
<1>6. CASE ReplayOp
  BY <1>0, <1>6, ReplayStep
<1>7. CASE ReplaySaveIndex
  BY <1>0, <1>7, ReplaySaveStep
<1>8. CASE ReplayTruncate
  BY <1>0, <1>8, ReplayTruncateStep
<1>9. CASE OpenReconcile
  BY <1>0, <1>9, OpenReconcileStep
<1>10. CASE Crash
  <2>1. Serving \/ pc \in {"replay", "replayed", "reconcile"}
    BY <1>10 DEF Crash, Serving, RowsInv, TypeInv, TypeOK
  <2> QED
    BY <1>0, <1>10, <2>1, CrashInUse, CrashRecovering
<1>11. CASE FastExit
  <2>1. Serving
    BY <1>11 DEF FastExit, Serving
  <2> QED
    BY <1>0, <1>11, <2>1, CrashInUse
<1>12. CASE OpenFails \/ UNCHANGED vars
  BY <1>12, StutterStep DEF OpenFails
<1>13. ~OpenForQuery
  BY DEF OpenForQuery
<1> QED
  BY <1>1, <1>2, <1>3, <1>4, <1>5, <1>6, <1>7, <1>8, <1>9, <1>10, <1>11, <1>12, <1>13
     DEF Next, Continue

\* An empty directory holds what was promised: nothing.
LEMMA SurvivalInit == Init => SurvivalInv
<1> SUFFICES ASSUME Init PROVE PointInv /\ EntryInv /\ RecoverInv /\ pc = "down"
  BY DEF SurvivalInv, ServingInv, ReplayInv, ReconcileInv, Serving
<1>1. /\ pc = "down" /\ t = EmptyTable /\ idxFile = NoIndex /\ walFile = 0
      /\ content = [p \in PK |-> NoVal] /\ kept = content
  BY DEF Init
<1>2. /\ t.deleted = {} /\ t.index = NoIndex /\ t.wal = <<>> /\ t.count = 0 /\ t.flushed = 0
      /\ DOMAIN t.rows = {} /\ Len(t.wal) = 0
  BY <1>1 DEF EmptyTable
<1>3. LogEnd = 0 /\ \A p : OpsOn(p) = {} /\ OldLive(p) = {}
  BY <1>1, <1>2 DEF LogEnd, OpsOn, OldLive, LiveOf, Live
<1>4. PointInv
  BY <1>1, <1>2 DEF PointInv, Names, NoIndex
<1>5. EntryInv
  BY <1>3 DEF EntryInv
<1>6. \A p \in PK : AddsUp(p)
  BY <1>1, <1>3 DEF AddsUp, NoIndex
<1>7. RecoverInv
  BY <1>1, <1>2, <1>6 DEF RecoverInv, Ground
<1> QED
  BY <1>1, <1>4, <1>5, <1>7

\* In use, what the invariant promises is what readers see.
LEMMA SurvivalReads ==
    ASSUME RowsInv, IndexNamesEveryLiveRow, SurvivalInv
    PROVE  FlushedRowsSurvive
<1> SUFFICES ASSUME exposure = {}, pc = "idle", NEW p \in PK, content[p] # Unknown
             PROVE  ReadersSee(p, content[p])
  BY DEF FlushedRowsSurvive, ReadersAgree
<1>0. PointInv /\ IndexCovers(t) /\ IndexIsRight
  BY DEF SurvivalInv, ServingInv, Serving, IndexNamesEveryLiveRow
<1>1. /\ \A l \in LiveOf(t, p) : t.rows[l].val = content[p] /\ l = t.index[p]
      /\ content[p] = NoVal => t.index[p] = NoLoc
      /\ content[p] # NoVal => t.index[p] \in LiveOf(t, p)
  BY <1>0, LiveIsContent
<1>2. \A l \in LiveOf(t, p) : l \in DOMAIN t.rows /\ l # NoLoc /\ t.rows[l].pk = p
  BY TableFacts DEF LiveOf, Live
<1>3. NoLoc \notin DOMAIN t.rows
  BY TableFacts
<1>4. CASE content[p] = NoVal
  <2>1. LiveOf(t, p) = {} /\ Lookup(t, p) = NoVal
    BY <1>1, <1>2, <1>3, <1>4 DEF Lookup
  <2> QED
    BY <1>4, <2>1 DEF ReadersSee, ScanReads
<1>5. CASE content[p] # NoVal
  <2>1. ScanReads(p) = {content[p]}
    BY <1>1, <1>5 DEF ScanReads
  <2>2. Lookup(t, p) = content[p]
    BY <1>1, <1>2, <1>5 DEF Lookup
  <2> QED
    BY <1>5, <2>1, <2>2 DEF ReadersSee
<1> QED
  BY <1>4, <1>5

\* Crash recovery keeps its promise (flush_active_segment_buffers, Table::close,
\* Table::open with replay_wal and reconcile_orphan_rows): with
\* BITTICE_QUERY_OPEN_LAZY off (the default), as long as no crash falls into one of
\* the four windows, a key that was flushed and not touched since reads the same,
\* by scan and by lookup, after any sequence of crashes, fast exits, restarts,
\* rotations, index saves, truncations and closes, for any keys, contents,
\* segment size and save interval.
THEOREM SurvivalTheorem ==
    ASSUME ~LazyQueryOpen
    PROVE  Spec => []FlushedRowsSurvive
<1> DEFINE Inv == RowsInv /\ IndexNamesEveryLiveRow /\ SurvivalInv
<1>1. Init => Inv
  <2>1. Init => Layout(t)
    BY DEF Init, EmptyTable, Layout
  <2>2. Init => IndexNamesEveryLiveRow
    BY DEF Init, IndexNamesEveryLiveRow, Serving
  <2> QED
    BY <2>1, <2>2, TypeInit, SurvivalInit DEF RowsInv
<1>2. Inv /\ [Next]_vars => Inv'
  <2> SUFFICES ASSUME Inv, [Next]_vars PROVE Inv'
    OBVIOUS
  <2>1. RowsInv'
    BY TypeStep, RowsStep DEF RowsInv
  <2>2. IndexNamesEveryLiveRow'
    BY CoverStep DEF RowsInv
  <2> QED
    BY <2>1, <2>2, SurvivalStep
<1>3. Inv => FlushedRowsSurvive
  BY SurvivalReads
<1> QED
  BY <1>1, <1>2, <1>3, PTL DEF Spec
=============================================================================
