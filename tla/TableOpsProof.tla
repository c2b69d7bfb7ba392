----------------------------- MODULE TableOpsProof -----------------------------
(***************************************************************************)
(* What the operations of TableOps return, for every table: a table, whose *)
(* rows have only been added to and whose tombstones have only grown.      *)
(***************************************************************************)
EXTENDS TableOps, WellFoundedInduction, SequenceTheorems, TLAPS

\* Rows are bounded in segment and local id: what makes "the newest of the live
\* rows of a key" exist.
Bounded(tb) == \E B \in Nat : \A l \in DOMAIN tb.rows : l[1] <= B /\ l[2] <= B
WellFormed(tb) == IsTable(tb) /\ Bounded(tb)

-----------------------------------------------------------------------------
(* The newest location of a set of locations *)

\* A non-empty set of naturals has a least element.
LEMMA LeastNat ==
    ASSUME NEW T \in SUBSET Nat, T # {}
    PROVE  \E x \in T : \A y \in T : x <= y
<1>1. \E x \in T : \A y \in T : ~ (<<y, x>> \in OpToRel(<, Nat))
  BY NatLessThanWellFounded, WFMin
<1>2. PICK x \in T : \A y \in T : ~ (<<y, x>> \in OpToRel(<, Nat))
  BY <1>1
<1>3. \A y \in T : ~ (y < x)
  BY <1>2 DEF OpToRel
<1> QED
  BY <1>3

\* A non-empty bounded set of naturals has a greatest element.
LEMMA GreatestNat ==
    ASSUME NEW T \in SUBSET Nat, T # {}, NEW B \in Nat, \A x \in T : x <= B
    PROVE  \E x \in T : \A y \in T : y <= x
<1> DEFINE U == {b \in Nat : \A x \in T : x <= b}
<1>1. U \in SUBSET Nat /\ U # {}
  OBVIOUS
<1>2. PICK u \in U : \A y \in U : u <= y
  BY <1>1, LeastNat
<1>3. ASSUME u \notin T PROVE FALSE
  <2>1. PICK z \in T : TRUE
    OBVIOUS
  <2>2. u \in Nat /\ u > 0 /\ \A x \in T : x < u
    BY <1>3, <2>1
  <2>3. u - 1 \in U
    BY <2>2
  <2> QED
    BY <1>2, <2>2, <2>3
<1> QED
  BY <1>3

\* A non-empty bounded set of locations has a newest one.
LEMMA NewestExists ==
    ASSUME NEW S \in SUBSET Loc, S # {},
           NEW B \in Nat, \A l \in S : l[1] <= B /\ l[2] <= B
    PROVE  \E l \in S : \A m \in S \ {l} : Newer(l, m)
<1> DEFINE A == {l[1] : l \in S}
<1>a. A \in SUBSET Nat /\ A # {} /\ \A x \in A : x <= B
  BY DEF Loc
<1>1. PICK s \in A : \A y \in A : y <= s
  <2> HIDE DEF A
  <2> QED
    BY <1>a, GreatestNat
<1> DEFINE L == {l \in S : l[1] = s}
           I == {l[2] : l \in L}
<1>b. I \in SUBSET Nat /\ I # {} /\ \A x \in I : x <= B
  BY <1>1 DEF Loc
<1>2. PICK i \in I : \A y \in I : y <= i
  <2> HIDE DEF I
  <2> QED
    BY <1>b, GreatestNat
<1>3. PICK l \in L : l[2] = i
  BY <1>2
<1>4. ASSUME NEW m \in S \ {l} PROVE Newer(l, m)
  <2>1. m[1] <= s /\ l[1] = s /\ m[1] \in Nat /\ s \in Nat
    BY <1>1, <1>3 DEF Loc
  <2>2. CASE m[1] = s
    <3>1. m[2] <= l[2] /\ m[2] \in Nat /\ l[2] \in Nat
      BY <1>2, <1>3, <2>2 DEF Loc
    <3>2. m[2] # l[2]
      BY <2>1, <2>2 DEF Loc
    <3> QED
      BY <2>1, <2>2, <3>1, <3>2 DEF Newer
  <2>3. CASE m[1] # s
    BY <2>1, <2>3 DEF Newer
  <2> QED
    BY <2>2, <2>3
<1> QED
  BY <1>3, <1>4
\* A non-empty set of locations has an oldest one.
LEMMA OldestExists ==
    ASSUME NEW S \in SUBSET Loc, S # {}
    PROVE  \E l \in S : \A m \in S \ {l} : Newer(m, l)
<1> DEFINE A == {l[1] : l \in S}
<1>a. A \in SUBSET Nat /\ A # {}
  BY DEF Loc
<1>1. PICK s \in A : \A y \in A : s <= y
  <2> HIDE DEF A
  <2> QED
    BY <1>a, LeastNat
<1> DEFINE L == {l \in S : l[1] = s}
           I == {l[2] : l \in L}
<1>b. I \in SUBSET Nat /\ I # {}
  BY <1>1 DEF Loc
<1>2. PICK i \in I : \A y \in I : i <= y
  <2> HIDE DEF I
  <2> QED
    BY <1>b, LeastNat
<1>3. PICK l \in L : l[2] = i
  BY <1>2
<1>4. ASSUME NEW m \in S \ {l} PROVE Newer(m, l)
  <2>1. s <= m[1] /\ l[1] = s /\ m[1] \in Nat /\ s \in Nat
    BY <1>1, <1>3 DEF Loc
  <2>2. CASE m[1] = s
    <3>1. l[2] <= m[2] /\ m[2] \in Nat /\ l[2] \in Nat
      BY <1>2, <1>3, <2>2 DEF Loc
    <3>2. m[2] # l[2]
      BY <2>1, <2>2 DEF Loc
    <3> QED
      BY <2>1, <2>2, <3>1, <3>2 DEF Newer
  <2>3. CASE m[1] # s
    BY <2>1, <2>3 DEF Newer
  <2> QED
    BY <2>2, <2>3
<1> QED
  BY <1>3, <1>4

\* reconcile_orphan_rows finds a survivor for every key that has a live row.
LEMMA WinnerExists ==
    ASSUME NEW tb, WellFormed(tb), NEW p, LiveOf(tb, p) # {}
    PROVE  Winner(tb, p) \in LiveOf(tb, p)
<1>1. LiveOf(tb, p) \in SUBSET Loc
  BY DEF WellFormed, IsTable, LiveOf, Live
<1>2. PICK B \in Nat : \A l \in LiveOf(tb, p) : l[1] <= B /\ l[2] <= B
  BY DEF WellFormed, Bounded, LiveOf, Live
<1>3. \E l \in LiveOf(tb, p) : \A m \in LiveOf(tb, p) \ {l} : Newer(l, m)
  BY <1>1, <1>2, NewestExists
<1> QED
  BY <1>3 DEF Winner

-----------------------------------------------------------------------------
(* The table operations *)

\* What every operation on an open table guarantees of its result: it is a
\* table, and the log has only been appended to.
Grown(old, new) == WellFormed(new) /\ Len(new.wal) >= Len(old.wal)

\* flush_buffers, alone and as the side effect of get_row_as_map.
LEMMA FlushBuffersGrown ==
    ASSUME NEW tb, WellFormed(tb)
    PROVE  Grown(tb, FlushBuffers(tb))
<1>1. IsTable(FlushBuffers(tb))
  BY DEF FlushBuffers, WellFormed, IsTable
<1>2. Bounded(FlushBuffers(tb))
  BY DEF FlushBuffers, WellFormed, IsTable, Bounded
<1>3. FlushBuffers(tb).wal = tb.wal /\ Len(tb.wal) \in Nat
  BY DEF FlushBuffers, WellFormed, IsTable
<1> QED
  BY <1>1, <1>2, <1>3 DEF Grown, WellFormed

\* The flush inside get_row_as_map.
LEMMA GetRowGrown ==
    ASSUME NEW tb, WellFormed(tb), NEW p \in PK
    PROVE  Grown(tb, GetRow(tb, p))
<1>1. Len(tb.wal) \in Nat
  BY DEF WellFormed, IsTable
<1> QED
  BY <1>1, FlushBuffersGrown DEF GetRow, Grown

\* mark_deleted of a location.
LEMMA TombstoneGrown ==
    ASSUME NEW tb, WellFormed(tb), NEW l \in Loc
    PROVE  Grown(tb, Tombstone(tb, l))
<1>1. IsTable(Tombstone(tb, l))
  BY DEF Tombstone, WellFormed, IsTable
<1>2. Bounded(Tombstone(tb, l))
  BY DEF Tombstone, WellFormed, IsTable, Bounded
<1>3. Tombstone(tb, l).wal = tb.wal /\ Len(tb.wal) \in Nat
  BY DEF Tombstone, WellFormed, IsTable
<1> QED
  BY <1>1, <1>2, <1>3 DEF Grown, WellFormed

\* The append half of Table::insert: the row sits at the end of the active
\* segment and the index names it.
LEMMA AppendRowGrown ==
    ASSUME NEW tb, WellFormed(tb), NEW p \in PK, NEW v \in Val
    PROVE  Grown(tb, AppendRow(tb, p, v))
<1> DEFINE new == AppendRow(tb, p, v)
           l == <<tb.active, tb.count + 1>>
           r == [x \in DOMAIN tb.rows \cup {l} |->
                     IF x = l THEN [pk |-> p, val |-> v] ELSE tb.rows[x]]
<1>1. tb.active \in Nat /\ tb.count \in Nat /\ tb.flushed \in Nat /\ l \in Loc
  BY DEF WellFormed, IsTable, Loc
<1>2. /\ DOMAIN new = DOMAIN tb
      /\ new.active = tb.active /\ new.count = tb.count + 1 /\ new.flushed = tb.flushed
      /\ new.rows = r /\ new.deleted = tb.deleted
      /\ new.index = [tb.index EXCEPT ![p] = l]
      /\ new.wal = Append(tb.wal, InsertOp(p, v))
  BY DEF AppendRow, WellFormed, IsTable
<1>3. DOMAIN r \subseteq Loc /\ \A x \in DOMAIN r : r[x] \in Row
  BY <1>1 DEF WellFormed, IsTable, Row
<1>4. [tb.index EXCEPT ![p] = l] \in Index
  BY <1>1 DEF WellFormed, IsTable, Index
<1>5. InsertOp(p, v) \in WalOp
  BY DEF InsertOp, WalOp
<1>6. Append(tb.wal, InsertOp(p, v)) \in Seq(WalOp)
      /\ Len(Append(tb.wal, InsertOp(p, v))) = Len(tb.wal) + 1
      /\ Len(tb.wal) \in Nat
  BY <1>5 DEF WellFormed, IsTable
<1>7. IsTable(new)
  <2> HIDE DEF new, l, r
  <2> QED
    BY <1>1, <1>2, <1>3, <1>4, <1>6 DEF WellFormed, IsTable
<1>8. Bounded(new)
  <2>1. PICK B \in Nat : \A x \in DOMAIN tb.rows : x[1] <= B /\ x[2] <= B
    BY DEF WellFormed, Bounded
  <2>2. \A x \in DOMAIN tb.rows : x[1] \in Nat /\ x[2] \in Nat
    BY DEF WellFormed, IsTable, Loc
  <2>3. \A x \in DOMAIN new.rows : x[1] <= B + tb.active + tb.count + 1
                                   /\ x[2] <= B + tb.active + tb.count + 1
    BY <1>1, <1>2, <2>1, <2>2, SMTT(20)
  <2>4. B + tb.active + tb.count + 1 \in Nat
    BY <1>1, <2>1
  <2> QED
    BY <2>3, <2>4 DEF Bounded
<1> QED
  BY <1>2, <1>6, <1>7, <1>8 DEF Grown, WellFormed

\* Table::insert.
LEMMA InsertGrown ==
    ASSUME NEW tb, WellFormed(tb), NEW p \in PK, NEW v \in Val
    PROVE  Grown(tb, Insert(tb, p, v))
<1> DEFINE read == GetRow(tb, p)
           dead == Tombstone(read, tb.index[p])
<1>1. Grown(tb, read)
  BY GetRowGrown
<1>2. CASE tb.index[p] = NoLoc
  BY <1>2, AppendRowGrown DEF Insert
<1>3. CASE tb.index[p] # NoLoc /\ Lookup(tb, p) = v
  BY <1>1, <1>3 DEF Insert
<1>4. CASE tb.index[p] # NoLoc /\ Lookup(tb, p) # v
  <2>1. tb.index[p] \in Loc
    BY <1>4 DEF WellFormed, IsTable, Index
  <2>2. Grown(read, dead)
    BY <1>1, <2>1, TombstoneGrown DEF Grown
  <2>3. Grown(dead, AppendRow(dead, p, v))
    BY <2>2, AppendRowGrown DEF Grown
  <2>4. Insert(tb, p, v) = AppendRow(dead, p, v)
    BY <1>4 DEF Insert
  <2>5. Len(tb.wal) \in Nat /\ Len(read.wal) \in Nat /\ Len(dead.wal) \in Nat
        /\ Len(AppendRow(dead, p, v).wal) \in Nat
    BY <1>1, <2>2, <2>3 DEF Grown, WellFormed, IsTable
  <2> HIDE DEF dead, read
  <2> QED
    BY <1>1, <2>2, <2>3, <2>4, <2>5 DEF Grown
<1> QED
  BY <1>2, <1>3, <1>4

\* Table::delete.
LEMMA DeleteGrown ==
    ASSUME NEW tb, WellFormed(tb), NEW p \in PK
    PROVE  Grown(tb, Delete(tb, p))
<1> DEFINE new == Delete(tb, p)
           w == Append(tb.wal, DeleteOp(p, tb.index[p]))
<1>1. CASE tb.index[p] = NoLoc
  <2>1. Len(tb.wal) \in Nat
    BY DEF WellFormed, IsTable
  <2> QED
    BY <1>1, <2>1 DEF Delete, Grown
<1>2. CASE tb.index[p] # NoLoc
  <2>1. tb.index[p] \in Loc
    BY <1>2 DEF WellFormed, IsTable, Index
  <2>2. /\ DOMAIN new = DOMAIN tb
        /\ new.active = tb.active /\ new.count = tb.count /\ new.flushed = tb.flushed
        /\ new.rows = tb.rows /\ new.deleted = tb.deleted \cup {tb.index[p]}
        /\ new.index = [tb.index EXCEPT ![p] = NoLoc] /\ new.wal = w
    BY <1>2 DEF Delete, WellFormed, IsTable
  <2>3. tb.deleted \cup {tb.index[p]} \in SUBSET Loc /\ [tb.index EXCEPT ![p] = NoLoc] \in Index
    BY <2>1 DEF WellFormed, IsTable, Index
  <2>4. DeleteOp(p, tb.index[p]) \in WalOp
    BY <2>1 DEF DeleteOp, WalOp
  <2>5. w \in Seq(WalOp) /\ Len(w) = Len(tb.wal) + 1 /\ Len(tb.wal) \in Nat
    BY <2>4 DEF WellFormed, IsTable
  <2>6. IsTable(new)
    <3> HIDE DEF new, w
    <3> QED
      BY <2>2, <2>3, <2>5 DEF WellFormed, IsTable
  <2>7. Bounded(new)
    BY <2>2 DEF WellFormed, Bounded
  <2> QED
    BY <2>2, <2>5, <2>6, <2>7 DEF Grown, WellFormed
<1> QED
  BY <1>1, <1>2

\* One replayed log entry.
LEMMA ReplayGrown ==
    ASSUME NEW tb, WellFormed(tb), NEW op \in WalOp
    PROVE  Grown(tb, Replay(tb, op))
<1> DEFINE new == Replay(tb, op)
<1>1. CASE op.op = "insert"
  <2>1. op.pk \in PK /\ op.val \in Val
    BY <1>1 DEF WalOp
  <2> QED
    BY <1>1, <2>1, InsertGrown DEF Replay
<1>2. CASE op.op # "insert"
  <2>1. op.pk \in PK /\ op.loc \in Loc
    BY <1>2 DEF WalOp
  <2>2. /\ DOMAIN new = DOMAIN tb
        /\ new.active = tb.active /\ new.count = tb.count /\ new.flushed = tb.flushed
        /\ new.rows = tb.rows
        /\ new.deleted = tb.deleted \cup ({op.loc, tb.index[op.pk]} \ {NoLoc})
        /\ new.index = [tb.index EXCEPT ![op.pk] = NoLoc] /\ new.wal = tb.wal
    BY <1>2 DEF Replay, WellFormed, IsTable
  <2>3. tb.index[op.pk] \in Loc \cup {NoLoc}
    BY <2>1 DEF WellFormed, IsTable, Index
  <2>4. new.deleted \subseteq Loc /\ new.index \in Index
    BY <2>1, <2>2, <2>3 DEF WellFormed, IsTable, Index
  <2>5. Len(tb.wal) \in Nat
    BY DEF WellFormed, IsTable
  <2>6. IsTable(new) /\ Bounded(new)
    <3> HIDE DEF new
    <3> QED
      BY <2>2, <2>4 DEF WellFormed, IsTable, Bounded
  <2> QED
    BY <2>2, <2>5, <2>6 DEF Grown, WellFormed
<1> QED
  BY <1>1, <1>2

\* reconcile_orphan_rows.
LEMMA ReconcileGrown ==
    ASSUME NEW tb, WellFormed(tb)
    PROVE  Grown(tb, Reconcile(tb))
<1> DEFINE new == Reconcile(tb)
<1>1. /\ DOMAIN new = DOMAIN tb
      /\ new.active = tb.active /\ new.count = tb.count /\ new.flushed = tb.count
      /\ new.rows = tb.rows
      /\ new.deleted = tb.deleted \cup {l \in Live(tb) : l # Winner(tb, tb.rows[l].pk)}
      /\ new.index = [p \in PK |-> IF LiveOf(tb, p) = {} THEN tb.index[p] ELSE Winner(tb, p)]
      /\ new.wal = tb.wal
  BY DEF Reconcile, WellFormed, IsTable
<1>2. \A p \in PK : LiveOf(tb, p) # {} => Winner(tb, p) \in Loc
  BY WinnerExists DEF LiveOf, Live, WellFormed, IsTable
<1>3. new.index \in Index
  BY <1>1, <1>2 DEF WellFormed, IsTable, Index
<1>4. new.deleted \subseteq Loc
  BY <1>1 DEF WellFormed, IsTable, Live
<1>5. Len(tb.wal) \in Nat
  BY DEF WellFormed, IsTable
<1>6. IsTable(new) /\ Bounded(new)
  <2> HIDE DEF new
  <2> QED
    BY <1>1, <1>3, <1>4 DEF WellFormed, IsTable, Bounded
<1> QED
  BY <1>1, <1>5, <1>6 DEF Grown, WellFormed

\* Loading the index file and sync_primary_index_to_active_bitmaps: an entry is the
\* file's, or the file has none and it is a live row of the key.
LEMMA LoadIndex ==
    ASSUME NEW tb, WellFormed(tb), NEW idx \in Index
    PROVE  LET new == SyncIndex([tb EXCEPT !.index = idx]) IN
           /\ DOMAIN new = DOMAIN tb
           /\ new.active = tb.active /\ new.count = tb.count /\ new.flushed = tb.flushed
           /\ new.rows = tb.rows /\ new.deleted = tb.deleted /\ new.wal = tb.wal
           /\ new.index \in Index
           /\ \A p \in PK : \/ new.index[p] = idx[p]
                            \/ idx[p] = NoLoc /\ new.index[p] \in LiveOf(tb, p)
<1> DEFINE raw == [tb EXCEPT !.index = idx]
           new == SyncIndex(raw)
           inActive(p) == {l \in LiveOf(raw, p) : l[1] = raw.active}
<1>1. /\ DOMAIN raw = DOMAIN tb
      /\ raw.active = tb.active /\ raw.count = tb.count /\ raw.flushed = tb.flushed
      /\ raw.rows = tb.rows /\ raw.deleted = tb.deleted /\ raw.index = idx /\ raw.wal = tb.wal
  BY DEF WellFormed, IsTable
<1>2. /\ DOMAIN new = DOMAIN raw
      /\ new.active = raw.active /\ new.count = raw.count /\ new.flushed = raw.flushed
      /\ new.rows = raw.rows /\ new.deleted = raw.deleted /\ new.wal = raw.wal
      /\ new.index = [p \in PK |->
             IF raw.index[p] # NoLoc \/ inActive(p) = {} THEN raw.index[p]
             ELSE CHOOSE l \in inActive(p) : \A m \in inActive(p) \ {l} : Newer(m, l)]
  <2> HIDE DEF raw
  <2> QED
    BY <1>1 DEF SyncIndex, WellFormed, IsTable
<1>3. \A p \in PK : inActive(p) \in SUBSET Loc /\ inActive(p) \subseteq LiveOf(tb, p)
  <2> HIDE DEF raw
  <2> QED
    BY <1>1 DEF LiveOf, Live, WellFormed, IsTable
<1>4. ASSUME NEW p \in PK
      PROVE  /\ new.index[p] \in Loc \cup {NoLoc}
             /\ new.index[p] = idx[p] \/ (idx[p] = NoLoc /\ new.index[p] \in LiveOf(tb, p))
  <2>1. CASE raw.index[p] # NoLoc \/ inActive(p) = {}
    BY <1>1, <1>2, <2>1 DEF Index
  <2>2. CASE ~(raw.index[p] # NoLoc \/ inActive(p) = {})
    <3> DEFINE S == inActive(p)
    <3>1. S \in SUBSET Loc /\ S # {} /\ S \subseteq LiveOf(tb, p) /\ idx[p] = NoLoc
      BY <1>1, <1>3, <2>2
    <3>2. new.index[p] = CHOOSE l \in S : \A m \in S \ {l} : Newer(m, l)
      BY <1>2, <2>2
    <3>3. \E l \in S : \A m \in S \ {l} : Newer(m, l)
      <4> HIDE DEF S
      <4> QED
        BY <3>1, OldestExists
    <3> HIDE DEF S, new, raw
    <3> QED
      BY <3>1, <3>2, <3>3
  <2> QED
    BY <2>1, <2>2
<1>5. new.index \in Index
  BY <1>2, <1>4 DEF Index
<1> HIDE DEF new
<1>6. /\ DOMAIN new = DOMAIN tb
      /\ new.active = tb.active /\ new.count = tb.count /\ new.flushed = tb.flushed
      /\ new.rows = tb.rows /\ new.deleted = tb.deleted /\ new.wal = tb.wal
  BY <1>1, <1>2
<1> QED
  BY <1>4, <1>5, <1>6 DEF new

\* The result is a table.
LEMMA LoadGrown ==
    ASSUME NEW tb, WellFormed(tb), NEW idx \in Index
    PROVE  Grown(tb, SyncIndex([tb EXCEPT !.index = idx]))
<1> DEFINE new == SyncIndex([tb EXCEPT !.index = idx])
<1>1. /\ DOMAIN new = DOMAIN tb
      /\ new.active = tb.active /\ new.count = tb.count /\ new.flushed = tb.flushed
      /\ new.rows = tb.rows /\ new.deleted = tb.deleted /\ new.wal = tb.wal /\ new.index \in Index
  BY LoadIndex
<1> HIDE DEF new
<1>2. Len(tb.wal) \in Nat
  BY DEF WellFormed, IsTable
<1>3. IsTable(new) /\ Bounded(new)
  BY <1>1 DEF WellFormed, IsTable, Bounded
<1>4. Grown(tb, new)
  BY <1>1, <1>2, <1>3 DEF Grown, WellFormed
<1> QED
  BY <1>4 DEF new

-----------------------------------------------------------------------------
(* The rows and the tombstones *)

\* Where rows can be: in sealed segments, or in the active one within its
\* record count.  Without it an appended row might land on an existing one.
Layout(tb) ==
    /\ tb.flushed <= tb.count
    /\ \A l \in DOMAIN tb.rows : l[1] < tb.active \/ (l[1] = tb.active /\ l[2] <= tb.count)

\* What an operation on an open table does to the rows: it keeps all of them, adds
\* to the active segment only, and brings no tombstoned row back.
Extended(old, new) ==
    /\ Layout(new) /\ WellFormed(new) /\ old.flushed <= new.flushed
    /\ new.active = old.active
    /\ \A l \in DOMAIN old.rows : l \in DOMAIN new.rows /\ new.rows[l] = old.rows[l]
    /\ \A l \in DOMAIN new.rows : l \in DOMAIN old.rows \/ l[1] = new.active
    /\ old.deleted \subseteq new.deleted

\* An operation that touches neither the rows nor the counters of the segment,
\* except for flushing some of what it holds.
LEMMA SameRowsExtended ==
    ASSUME NEW old, WellFormed(old), Layout(old), NEW new, WellFormed(new),
           new.rows = old.rows, new.active = old.active, new.count = old.count,
           new.flushed \in {old.flushed, old.count}, old.deleted \subseteq new.deleted
    PROVE  Extended(old, new)
<1>1. old.flushed \in Nat /\ old.count \in Nat
  BY DEF WellFormed, IsTable
<1> QED
  BY <1>1 DEF Extended, Layout

\* Two operations in a row.
LEMMA ExtendedTwice ==
    ASSUME NEW a, NEW b, NEW c, WellFormed(a), Extended(a, b), Extended(b, c)
    PROVE  Extended(a, c)
<1>1. a.flushed \in Nat /\ b.flushed \in Nat /\ c.flushed \in Nat
  BY DEF Extended, WellFormed, IsTable
<1> QED
  BY <1>1 DEF Extended

\* get_row_as_map.
LEMMA GetRowExtended ==
    ASSUME NEW tb, WellFormed(tb), Layout(tb), NEW p \in PK
    PROVE  Extended(tb, GetRow(tb, p))
<1> DEFINE new == GetRow(tb, p)
<1>1. WellFormed(new)
  BY GetRowGrown DEF Grown
<1>2. new.rows = tb.rows /\ new.active = tb.active /\ new.count = tb.count
      /\ new.flushed \in {tb.flushed, tb.count} /\ new.deleted = tb.deleted
  BY DEF GetRow, FlushBuffers, WellFormed, IsTable
<1> QED
  BY <1>1, <1>2, SameRowsExtended

\* append_record: the place after the last row is free.
LEMMA AppendExtended ==
    ASSUME NEW tb, WellFormed(tb), Layout(tb), NEW p \in PK, NEW v \in Val
    PROVE  Extended(tb, AppendRow(tb, p, v))
<1> DEFINE new == AppendRow(tb, p, v)
           l == <<tb.active, tb.count + 1>>
<1>1. WellFormed(new)
  BY AppendRowGrown DEF Grown
<1>2. /\ new.rows = [x \in DOMAIN tb.rows \cup {l} |->
                        IF x = l THEN [pk |-> p, val |-> v] ELSE tb.rows[x]]
      /\ new.active = tb.active /\ new.count = tb.count + 1 /\ new.flushed = tb.flushed
      /\ new.deleted = tb.deleted
  BY DEF AppendRow, WellFormed, IsTable
<1>3. tb.active \in Nat /\ tb.count \in Nat /\ tb.flushed \in Nat
      /\ \A x \in DOMAIN tb.rows : x[1] \in Nat /\ x[2] \in Nat
  BY DEF WellFormed, IsTable, Loc
<1>4. \A x \in DOMAIN tb.rows : x # l
  BY <1>3 DEF Layout
<1>5. Layout(new)
  <2>1. tb.flushed <= tb.count
    BY DEF Layout
  <2>2. ASSUME NEW x \in DOMAIN new.rows
        PROVE  x[1] < new.active \/ (x[1] = new.active /\ x[2] <= new.count)
    <3>1. CASE x = l
      BY <1>2, <1>3, <3>1
    <3>2. CASE x # l
      BY <1>2, <1>3, <3>2 DEF Layout
    <3> QED
      BY <3>1, <3>2
  <2> QED
    BY <1>2, <1>3, <2>1, <2>2 DEF Layout
<1>6. /\ \A x \in DOMAIN tb.rows : x \in DOMAIN new.rows /\ new.rows[x] = tb.rows[x]
      /\ \A x \in DOMAIN new.rows : x \in DOMAIN tb.rows \/ x[1] = new.active
  BY <1>2, <1>4
<1>7. tb.flushed <= new.flushed
  BY <1>2, <1>3
<1> QED
  BY <1>1, <1>2, <1>5, <1>6, <1>7 DEF Extended

\* Table::insert.
LEMMA InsertExtended ==
    ASSUME NEW tb, WellFormed(tb), Layout(tb), NEW p \in PK, NEW v \in Val
    PROVE  Extended(tb, Insert(tb, p, v))
<1> DEFINE read == GetRow(tb, p)
           dead == Tombstone(read, tb.index[p])
<1>1. Extended(tb, read) /\ WellFormed(read) /\ Layout(read)
  BY GetRowExtended DEF Extended
<1>2. CASE tb.index[p] = NoLoc
  BY <1>2, AppendExtended DEF Insert
<1>3. CASE tb.index[p] # NoLoc /\ Lookup(tb, p) = v
  BY <1>1, <1>3 DEF Insert
<1>4. CASE tb.index[p] # NoLoc /\ Lookup(tb, p) # v
  <2>1. tb.index[p] \in Loc
    BY <1>4 DEF WellFormed, IsTable, Index
  <2>2. WellFormed(dead)
    BY <1>1, <2>1, TombstoneGrown DEF Grown
  <2>3. dead.rows = read.rows /\ dead.active = read.active /\ dead.count = read.count
        /\ dead.flushed = read.flushed /\ read.deleted \subseteq dead.deleted
    BY <1>1 DEF Tombstone, WellFormed, IsTable
  <2>4. Insert(tb, p, v) = AppendRow(dead, p, v)
    BY <1>4 DEF Insert
  <2> HIDE DEF dead, read
  <2>5. Extended(read, dead) /\ Layout(dead)
    BY <1>1, <2>2, <2>3, SameRowsExtended DEF Extended
  <2>6. Extended(dead, AppendRow(dead, p, v))
    BY <2>2, <2>5, AppendExtended
  <2> QED
    BY <1>1, <2>4, <2>5, <2>6, ExtendedTwice
<1> QED
  BY <1>2, <1>3, <1>4

\* Table::delete, a replayed Delete and reconcile_orphan_rows.
LEMMA DeleteExtended ==
    ASSUME NEW tb, WellFormed(tb), Layout(tb), NEW p \in PK
    PROVE  Extended(tb, Delete(tb, p))
<1> DEFINE new == Delete(tb, p)
<1>1. WellFormed(new)
  BY DeleteGrown DEF Grown
<1>2. new.rows = tb.rows /\ new.active = tb.active /\ new.count = tb.count
      /\ new.flushed = tb.flushed /\ tb.deleted \subseteq new.deleted
  BY DEF Delete, WellFormed, IsTable
<1> QED
  BY <1>1, <1>2, SameRowsExtended

\* One replayed WAL entry: an Insert appends, a Delete only tombstones.
LEMMA ReplayExtended ==
    ASSUME NEW tb, WellFormed(tb), Layout(tb), NEW op \in WalOp
    PROVE  Extended(tb, Replay(tb, op))
<1> DEFINE new == Replay(tb, op)
<1>1. CASE op.op = "insert"
  <2>1. op.pk \in PK /\ op.val \in Val
    BY <1>1 DEF WalOp
  <2> QED
    BY <1>1, <2>1, InsertExtended DEF Replay
<1>2. CASE op.op # "insert"
  <2>1. WellFormed(new)
    BY ReplayGrown DEF Grown
  <2>2. new.rows = tb.rows /\ new.active = tb.active /\ new.count = tb.count
        /\ new.flushed = tb.flushed /\ tb.deleted \subseteq new.deleted
    BY <1>2 DEF Replay, WellFormed, IsTable
  <2> QED
    BY <2>1, <2>2, SameRowsExtended
<1> QED
  BY <1>1, <1>2

\* reconcile_orphan_rows tombstones and flushes; it moves no row.
LEMMA ReconcileExtended ==
    ASSUME NEW tb, WellFormed(tb), Layout(tb)
    PROVE  Extended(tb, Reconcile(tb))
<1> DEFINE new == Reconcile(tb)
<1>1. WellFormed(new)
  BY ReconcileGrown DEF Grown
<1>2. new.rows = tb.rows /\ new.active = tb.active /\ new.count = tb.count
      /\ new.flushed = tb.count /\ tb.deleted \subseteq new.deleted
  BY DEF Reconcile, WellFormed, IsTable
<1> QED
  BY <1>1, <1>2, SameRowsExtended

-----------------------------------------------------------------------------
(* The replay of a log *)

\* The loop of replay_wal: f gives the table after each of the first k entries.
Loop(f, k, tb, log) ==
    f = [n \in 0 .. k |-> IF n = 0 THEN tb ELSE Replay(f[n - 1], log[n])]

\* The loop has a result, whatever the log.
LEMMA LoopRuns ==
    ASSUME NEW tb, NEW log, Len(log) \in Nat
    PROVE  \E f : Loop(f, Len(log), tb, log)
<1> DEFINE Bad == {k \in 0 .. Len(log) : ~ \E f : Loop(f, k, tb, log)}
<1>1. SUFFICES ASSUME Bad # {} PROVE FALSE
  OBVIOUS
<1>2. PICK k \in Bad : \A m \in Bad : k <= m
  <2>1. Bad \in SUBSET Nat
    OBVIOUS
  <2> HIDE DEF Bad
  <2> QED BY <1>1, <2>1, LeastNat
<1>3. k \in 0 .. Len(log)
  OBVIOUS
<1>4. CASE k = 0
  <2> DEFINE f == [n \in 0 .. 0 |-> tb]
  <2>1. f = [n \in 0 .. 0 |-> IF n = 0 THEN tb ELSE Replay(f[n - 1], log[n])]
    OBVIOUS
  <2> QED BY <1>4, <2>1 DEF Loop
<1>5. CASE k # 0
  <2>1. k - 1 \in 0 .. Len(log) /\ k - 1 \notin Bad
    BY <1>2, <1>3, <1>5
  <2>2. PICK f : Loop(f, k - 1, tb, log)
    BY <2>1
  <2> DEFINE g == [n \in 0 .. k |-> IF n = k THEN Replay(f[k - 1], log[k]) ELSE f[n]]
  <2>3. \A n \in 0 .. k : g[n] = IF n = 0 THEN tb ELSE Replay(g[n - 1], log[n])
    <3> SUFFICES ASSUME NEW n \in 0 .. k
                 PROVE  g[n] = IF n = 0 THEN tb ELSE Replay(g[n - 1], log[n])
      OBVIOUS
    <3>1. CASE n = k
      BY <1>3, <1>5, <3>1
    <3>2. CASE n # k
      <4>1. n \in 0 .. k - 1 /\ (n # 0 => n - 1 \in 0 .. k - 1 /\ n - 1 # k)
        BY <1>3, <3>2
      <4>2. g[n] = f[n] /\ (n # 0 => g[n - 1] = f[n - 1])
        BY <1>3, <3>2, <4>1
      <4>3. f[n] = IF n = 0 THEN tb ELSE Replay(f[n - 1], log[n])
        BY <2>2, <4>1 DEF Loop
      <4> HIDE DEF g
      <4> QED BY <4>2, <4>3
    <3> QED BY <3>1, <3>2
  <2>4. Loop(g, k, tb, log)
    <3>1. g = [n \in 0 .. k |-> g[n]]
      OBVIOUS
    <3> HIDE DEF g
    <3> QED BY <2>3, <3>1 DEF Loop
  <2> QED BY <1>3, <2>4
<1> QED BY <1>4, <1>5

\* replay_wal extends the table, entry by entry.
LEMMA ReplayWalExtended ==
    ASSUME NEW tb, WellFormed(tb), Layout(tb), NEW log \in Seq(WalOp)
    PROVE  Extended(tb, ReplayWal(tb, log))
<1> DEFINE f == CHOOSE f : f = [n \in 0 .. Len(log) |-> IF n = 0 THEN tb ELSE Replay(f[n - 1], log[n])]
           Bad == {k \in 0 .. Len(log) : ~ Extended(tb, f[k])}
<1>1. ReplayWal(tb, log) = f[Len(log)]
  BY DEF ReplayWal
<1>2. Len(log) \in Nat /\ \A n \in 1 .. Len(log) : log[n] \in WalOp
  OBVIOUS
<1>3. Loop(f, Len(log), tb, log)
  <2>1. \E g : Loop(g, Len(log), tb, log)
    BY <1>2, LoopRuns
  <2>2. \E g : g = [n \in 0 .. Len(log) |-> IF n = 0 THEN tb ELSE Replay(g[n - 1], log[n])]
    BY <2>1 DEF Loop
  <2>3. f = [n \in 0 .. Len(log) |-> IF n = 0 THEN tb ELSE Replay(f[n - 1], log[n])]
    BY <2>2, Zenon
  <2> QED BY <2>3, Zenon DEF Loop
<1> HIDE DEF f
<1>4. ASSUME Bad # {} PROVE FALSE
  <2>1. PICK k \in Bad : \A m \in Bad : k <= m
    <3>1. Bad \in SUBSET Nat
      BY <1>2
    <3> HIDE DEF Bad
    <3> QED BY <1>4, <3>1, LeastNat
  <2>2. k \in 0 .. Len(log) /\ ~ Extended(tb, f[k])
    OBVIOUS
  <2>3. CASE k = 0
    <3>1. f[k] = tb
      BY <1>2, <1>3, <2>3 DEF Loop
    <3>2. Extended(tb, tb)
      BY SameRowsExtended
    <3> QED BY <2>2, <3>1, <3>2
  <2>4. CASE k # 0
    <3>1. k - 1 \in 0 .. Len(log) /\ k - 1 \notin Bad /\ k \in 1 .. Len(log)
      BY <1>2, <2>1, <2>2, <2>4
    <3>2. Extended(tb, f[k - 1])
      BY <3>1
    <3>3. f[k] = Replay(f[k - 1], log[k]) /\ log[k] \in WalOp
      BY <1>2, <1>3, <2>2, <2>4, <3>1 DEF Loop
    <3>4. Extended(f[k - 1], f[k])
      <4>1. WellFormed(f[k - 1]) /\ Layout(f[k - 1])
        BY <3>2 DEF Extended
      <4>2. Extended(f[k - 1], Replay(f[k - 1], log[k]))
        BY <3>3, <4>1, ReplayExtended
      <4> QED BY <3>3, <4>2
    <3> QED BY <2>2, <3>2, <3>4, ExtendedTwice
  <2> QED BY <2>3, <2>4
<1> QED BY <1>1, <1>2, <1>4

=============================================================================
