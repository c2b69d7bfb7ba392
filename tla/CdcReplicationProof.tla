------------------------ MODULE CdcReplicationProof ------------------------
(***************************************************************************)
(* The CDC worker's types, its catch-up gate and what it delivers, for     *)
(* every table, every binlog and every number of crashes.                  *)
(***************************************************************************)
EXTENDS CdcReplication, FiniteSetTheorems, SequenceTheorems, TLAPS

Content == [PK -> Val \cup {NoVal}]

\* Settled: a flushed mirror is a possible outcome of a crash.
LEMMA SettledType ==
    ASSUME NEW m \in Content
    PROVE  Settled(m) \in [PK -> SUBSET (Val \cup {NoVal})]
BY DEF Settled, Content

\* Positions: the event numbers of one kind lie in the binlog.
LEMMA PositionsInLog ==
    ASSUME log \in Seq(BinlogEvent), NEW k
    PROVE  Positions(k) \subseteq 1 .. Tip /\ Positions(k) \subseteq Nat
BY DEF Positions, Tip

\* TxCount: the number of transactions in the binlog is a natural number.
LEMMA TxCountType ==
    ASSUME log \in Seq(BinlogEvent)
    PROVE  TxCount \in Nat
<1>1. IsFiniteSet(1 .. Tip)
    <2>1. Tip \in Nat
        BY DEF Tip
    <2> QED
        BY <2>1, FS_Interval, 1 \in Int, Tip \in Int
<1>2. IsFiniteSet(Positions("gtid"))
    BY <1>1, PositionsInLog, FS_Subset
<1> QED
    BY <1>2, FS_CardinalityType DEF TxCount

\* TxEvents: the events of a transaction are well formed.
LEMMA TxEventsType ==
    ASSUME NEW n \in Nat, NEW r \in BinlogRow
    PROVE  TxEvents(n, r) \in Seq(BinlogEvent) /\ Len(TxEvents(n, r)) = 3
<1>1. NoRow \in BinlogRow
    BY DEF NoRow, BinlogRow
<1>2. /\ Event("gtid", n, NoRow) \in BinlogEvent
      /\ Event("map", n, NoRow) \in BinlogEvent
      /\ Event("row", n, r) \in BinlogEvent
    BY <1>1 DEF Event, BinlogEvent
<1> QED
    BY <1>2 DEF TxEvents
\* load_state: the initial state of the worker is well formed.
LEMMA EmptyTypes ==
    /\ EmptyCdcState \in CdcState /\ EmptyCdcState.pos = 0
    /\ NoSnapshot.rows \in Content /\ NoSnapshot = [rows |-> NoSnapshot.rows, at |-> 0]
    /\ (EmptyCdcState.anchored = FALSE) /\ (EmptyCdcState.pending = FALSE)
BY DEF EmptyCdcState, CdcState, NoSnapshot, Content

\* AnchoredAt: a checkpoint at a natural position is well formed.
LEMMA AnchoredType ==
    ASSUME NEW s \in CdcState, NEW p \in Nat
    PROVE  AnchoredAt(s, p) \in CdcState /\ AnchoredAt(s, p).pos = p
BY DEF AnchoredAt, CdcState

\* handle_rows_event: the mirror and what a crash may leave of it keep their types.
LEMMA ApplyTypes ==
    ASSUME mirror \in Content, outcomes \in [PK -> SUBSET (Val \cup {NoVal})],
           NEW r \in BinlogRow
    PROVE  /\ ApplyRow(mirror, r) \in Content
           /\ Uncertain(outcomes, r) \in [PK -> SUBSET (Val \cup {NoVal})]
BY DEF ApplyRow, Uncertain, Content, BinlogRow

\* The checkpoint of the event loop keeps the types of what it writes.
LEMMA CheckpointTypes ==
    ASSUME NEW s \in CdcState, s.pos <= Tip, NEW m \in Content,
           NEW oc \in [PK -> SUBSET (Val \cup {NoVal})], NEW due,
           st \in CdcState, st.pos <= Tip, hasty \in BOOLEAN,
           Checkpoint(s, m, oc, due)
    PROVE  /\ st' \in CdcState /\ st'.pos <= Tip
           /\ outcomes' \in [PK -> SUBSET (Val \cup {NoVal})]
           /\ hasty' \in BOOLEAN
BY SettledType DEF Checkpoint

\* The initial state is well typed.
LEMMA TypeInit == Init => TypeOK
<1> SUFFICES ASSUME Init PROVE TypeOK
    OBVIOUS
<1>1. log \in Seq(BinlogEvent) /\ Tip = 0
    BY DEF Init, Tip
<1>2. mirror \in Content
    BY DEF Init, Content
<1>3. outcomes \in [PK -> SUBSET (Val \cup {NoVal})]
    BY <1>2, SettledType DEF Init
<1>4. snap \in [rows : Content, at : 0 .. Tip]
    BY <1>1, EmptyTypes DEF Init, NoSnapshot, Content
<1>5. w \in CdcState /\ w.pos <= Tip /\ st \in CdcState /\ st.pos <= Tip
    BY <1>1, EmptyTypes DEF Init
<1>6. crashes \in 0 .. MaxCrashes /\ drops \in 0 .. MaxDrops
    BY CdcBoundsAreNat DEF Init
<1>7. maps \in BOOLEAN /\ reported \in BOOLEAN /\ openable \in BOOLEAN /\ hasty \in BOOLEAN
    BY DEF Init
<1>8. /\ source \in Content /\ purged \in 0 .. Tip /\ cursor \in 0 .. Tip /\ sent \subseteq Nat
      /\ coords \in 0 .. Tip /\ window \in 0 .. Tip /\ streak \in {0, 1} /\ lapses \subseteq LapseNames
    BY <1>1 DEF Init, Content
<1>9. pc = "down"
    BY DEF Init
<1> QED
    BY <1>1, <1>2, <1>3, <1>4, <1>5, <1>6, <1>7, <1>8, <1>9 DEF TypeOK, Content

\* MySQL's steps only extend the binlog.
LEMMA TypeMySQL == TypeOK /\ MySQL => TypeOK' /\ Tip' >= Tip
<1> SUFFICES ASSUME TypeOK, MySQL PROVE TypeOK' /\ Tip' >= Tip
    OBVIOUS
<1> USE DEF Content
<1>0. log \in Seq(BinlogEvent) /\ Tip \in Nat
    BY DEF TypeOK, Tip
<1>1. ASSUME NEW p \in PK, NEW v \in Val \cup {NoVal}, Commit(p, v)
      PROVE  TypeOK' /\ Tip' >= Tip
    <2> DEFINE op == IF v = NoVal THEN "delete" ELSE IF source[p] = NoVal THEN "write" ELSE "update"
    <2>1. RowChange(op, p, v) \in BinlogRow
        BY DEF RowChange, BinlogRow
    <2>2. TxCount + 1 \in Nat
        BY <1>0, TxCountType
    <2> DEFINE e == TxEvents(TxCount + 1, RowChange(op, p, v))
    <2>3. e \in Seq(BinlogEvent) /\ Len(e) = 3
        BY <2>1, <2>2, TxEventsType
    <2>4. log' = log \o e
        BY <1>1 DEF Commit
    <2> HIDE DEF e
    <2>5. log' \in Seq(BinlogEvent) /\ Tip' = Tip + 3
        <3>1. log \o e \in Seq(BinlogEvent) /\ Len(log \o e) = Len(log) + Len(e)
            BY <1>0, <2>3, ConcatProperties
        <3>2. Tip' = Len(log \o e) /\ log' \in Seq(BinlogEvent)
            BY <2>4, <3>1 DEF Tip
        <3> QED
            BY <2>3, <3>1, <3>2 DEF Tip
    <2>6. source' \in Content
        BY <1>1 DEF Commit, TypeOK
    <2>7. UNCHANGED <<purged, pc, w, st, stream, reported, copy, table, bounds, history>>
        BY <1>1 DEF Commit
    <2>8. 0 .. Tip \subseteq 0 .. Tip'
        BY <1>0, <2>5
    <2>9. w'.pos <= Tip' /\ st'.pos <= Tip'
        BY <1>0, <2>5, <2>7 DEF TypeOK, CdcState
    <2> QED
        BY <1>0, <2>5, <2>6, <2>7, <2>8, <2>9
        DEF TypeOK, stream, copy, table, bounds, history
<1>2. ASSUME RotateLog PROVE TypeOK' /\ Tip' >= Tip
    <2>1. Event("rotate", 0, NoRow) \in BinlogEvent
        BY DEF Event, BinlogEvent, NoRow, BinlogRow
    <2>2. log' = Append(log, Event("rotate", 0, NoRow))
        BY <1>2 DEF RotateLog
    <2>3. log' \in Seq(BinlogEvent) /\ Tip' = Tip + 1
        BY <1>0, <2>1, <2>2 DEF Tip
    <2>4. UNCHANGED <<source, purged, pc, w, st, stream, reported, copy, table, bounds, history>>
        BY <1>2 DEF RotateLog
    <2>5. 0 .. Tip \subseteq 0 .. Tip'
        BY <1>0, <2>3
    <2>6. w'.pos <= Tip' /\ st'.pos <= Tip'
        BY <1>0, <2>3, <2>4 DEF TypeOK, CdcState
    <2> QED
        BY <1>0, <2>3, <2>4, <2>5, <2>6
        DEF TypeOK, stream, copy, table, bounds, history
<1>3. ASSUME PurgeLogs PROVE TypeOK' /\ Tip' >= Tip
    <2>1. purged' \in 0 .. Tip
        BY <1>0, <1>3, PositionsInLog DEF PurgeLogs
    <2> QED
        BY <1>0, <1>3, <2>1 DEF PurgeLogs, TypeOK, Tip, stream, copy, table, bounds, history
<1> QED
    BY <1>1, <1>2, <1>3 DEF MySQL
\* TypeOK, one part per group of variables.
MySQLType == log \in Seq(BinlogEvent) /\ source \in Content /\ purged \in 0 .. Tip
PcType ==
    pc \in {"down", "snapshot", "resnapshot", "copy", "recopy", "anchor", "connect",
            "capture", "opened", "stream", "report", "static"}
IsCheckpoint(s) == s \in CdcState /\ s.pos <= Tip
StateType == PcType /\ IsCheckpoint(w) /\ IsCheckpoint(st)
StreamType == cursor \in 0 .. Tip /\ sent \subseteq Nat /\ streak \in {0, 1}
FlagType == maps \in BOOLEAN /\ reported \in BOOLEAN
CopyType == snap \in [rows : Content, at : 0 .. Tip] /\ coords \in 0 .. Tip
Outcomes == [PK -> SUBSET (Val \cup {NoVal})]
TableType == mirror \in Content /\ outcomes \in Outcomes /\ openable \in BOOLEAN
BoundsType == crashes \in 0 .. MaxCrashes /\ drops \in 0 .. MaxDrops
HistoryType == window \in 0 .. Tip /\ hasty \in BOOLEAN /\ lapses \subseteq LapseNames

\* TypeOK is the conjunction of its parts.
LEMMA TypeParts ==
    TypeOK <=> /\ MySQLType /\ StateType /\ StreamType /\ FlagType /\ CopyType
               /\ TableType /\ BoundsType /\ HistoryType
BY DEF TypeOK, MySQLType, PcType, IsCheckpoint, StateType, StreamType, FlagType, CopyType, Outcomes,
       TableType, BoundsType, HistoryType, Content

\* The parts of the next state make up its TypeOK.
LEMMA TypeJoin ==
    ASSUME MySQLType', StateType', StreamType', FlagType', CopyType', TableType', BoundsType', HistoryType'
    PROVE  TypeOK'
BY DEF TypeOK, MySQLType, PcType, IsCheckpoint, StateType, StreamType, FlagType, CopyType, Outcomes,
       TableType, BoundsType, HistoryType, Content

\* A part whose variables a worker step leaves alone keeps its type.
LEMMA PartsUnchanged ==
    ASSUME TypeOK, UNCHANGED mysql
    PROVE  /\ Tip' = Tip /\ MySQLType'
           /\ UNCHANGED <<cursor, sent, streak>> => StreamType'
           /\ UNCHANGED <<maps, reported>> => FlagType'
           /\ UNCHANGED copy => CopyType'
           /\ UNCHANGED table => TableType'
           /\ UNCHANGED bounds => BoundsType'
           /\ UNCHANGED history => HistoryType'
<1>1. Tip' = Tip
    BY DEF mysql, Tip
<1> QED
    BY <1>1, TypeParts DEF mysql, stream, copy, table, bounds, history, MySQLType, StreamType,
       FlagType, CopyType, TableType, BoundsType, HistoryType

\* The facts about a well-typed state that the steps below use.
LEMMA TypeFacts ==
    ASSUME TypeOK
    PROVE  /\ log \in Seq(BinlogEvent) /\ Tip \in Nat
           /\ Settled(mirror) \in Outcomes /\ Settled(snap.rows) \in Outcomes
           /\ \A k : Positions(k) \subseteq 1 .. Tip
           /\ {log[i].tx : i \in Positions("gtid")} \subseteq Nat
           /\ cursor < Tip => cursor + 1 \in 1 .. Tip /\ log[cursor + 1] \in BinlogEvent
           /\ MySQLType /\ StateType /\ StreamType /\ FlagType /\ CopyType
           /\ TableType /\ BoundsType /\ HistoryType
<1>1. log \in Seq(BinlogEvent) /\ Tip \in Nat /\ mirror \in Content
    BY DEF TypeOK, Tip, Content
<1>2. Settled(mirror) \in Outcomes /\ Settled(snap.rows) \in Outcomes
    BY <1>1, SettledType DEF TypeOK, Outcomes, Content
<1>3. \A k : Positions(k) \subseteq 1 .. Tip
    BY <1>1, PositionsInLog
<1>4. \A i \in 1 .. Tip : log[i] \in BinlogEvent
    BY <1>1 DEF Tip
<1>5. {log[i].tx : i \in Positions("gtid")} \subseteq Nat
    BY <1>3, <1>4 DEF BinlogEvent
<1>6. cursor \in 0 .. Tip
    BY DEF TypeOK
<1> QED
    BY <1>1, <1>2, <1>3, <1>4, <1>5, <1>6, TypeParts

\* Every step of the worker, of its environment and of the process keeps the types.
LEMMA TypeStep ==
    ASSUME TypeOK, Worker \/ CatchUpPoll \/ IdlePoll \/ StreamEnds \/ StreamError \/ Halt \/ Crash
    PROVE  TypeOK'
<1>0. /\ Tip \in Nat /\ Settled(mirror) \in Outcomes /\ Settled(snap.rows) \in Outcomes
      /\ \A k : Positions(k) \subseteq 1 .. Tip
      /\ {log[i].tx : i \in Positions("gtid")} \subseteq Nat
      /\ cursor < Tip => cursor + 1 \in 1 .. Tip /\ log[cursor + 1] \in BinlogEvent
      /\ MySQLType /\ StateType /\ StreamType /\ FlagType /\ CopyType
      /\ TableType /\ BoundsType /\ HistoryType
    BY TypeFacts
<1>1. ASSUME StartFresh PROVE TypeOK'
    <2>1. UNCHANGED mysql
        BY <1>1 DEF StartFresh, vars
    <2>2. Tip' = Tip
        BY <2>1, PartsUnchanged
    <2>3. StateType'
        BY <1>0, <1>1, <2>2 DEF StartFresh, StateType, PcType, IsCheckpoint, CdcState, LapseIf, LapseNames, Content, MySQLType
    <2>4. CopyType'
        BY <1>0, <1>1, <2>2, EmptyTypes DEF StartFresh, CopyType, LapseIf, LapseNames, Content, MySQLType
    <2>5. HistoryType'
        BY <1>0, <1>1, <2>2 DEF StartFresh, HistoryType, LapseIf, LapseNames, Content, MySQLType
    <2> QED
        BY <1>0, <1>1, <2>1, <2>2, <2>3, <2>4, <2>5, PartsUnchanged, TypeJoin DEF StartFresh, history, stream, copy, table, bounds
<1>2. ASSUME Resume PROVE TypeOK'
    <2>1. UNCHANGED mysql
        BY <1>2 DEF Resume, vars
    <2>2. Tip' = Tip
        BY <2>1, PartsUnchanged
    <2>3. StateType'
        BY <1>0, <1>2, <2>2 DEF Resume, StateType, PcType, IsCheckpoint, CdcState, LapseIf, LapseNames
    <2>4. HistoryType'
        BY <1>0, <1>2, <2>2 DEF Resume, HistoryType, LapseIf, LapseNames
    <2> QED
        BY <1>0, <1>2, <2>1, <2>2, <2>3, <2>4, PartsUnchanged, TypeJoin DEF Resume, history, stream, copy, table, bounds
<1>3. ASSUME ReadCoordinates PROVE TypeOK'
    <2>1. UNCHANGED mysql
        BY <1>3 DEF ReadCoordinates, vars
    <2>2. Tip' = Tip
        BY <2>1, PartsUnchanged
    <2>3. StateType'
        BY <1>0, <1>3, <2>2 DEF ReadCoordinates, StateType, PcType, IsCheckpoint, CdcState, LapseIf, LapseNames
    <2>4. CopyType'
        BY <1>0, <1>3, <2>2, EmptyTypes DEF ReadCoordinates, CopyType, LapseIf, LapseNames
    <2>5. HistoryType'
        BY <1>0, <1>3, <2>2 DEF ReadCoordinates, HistoryType, LapseIf, LapseNames
    <2> QED
        BY <1>0, <1>3, <2>1, <2>2, <2>3, <2>4, <2>5, PartsUnchanged, TypeJoin DEF ReadCoordinates, history, stream, copy, table, bounds
<1>4. ASSUME CopyTable PROVE TypeOK'
    <2>1. UNCHANGED mysql
        BY <1>4 DEF CopyTable, vars
    <2>2. Tip' = Tip
        BY <2>1, PartsUnchanged
    <2>3. StateType'
        BY <1>0, <1>4, <2>2 DEF CopyTable, StateType, PcType, IsCheckpoint, CdcState
    <2>4. TableType'
        <3>1. mirror' \in Content /\ outcomes' \in Outcomes
            BY <1>0, <1>4 DEF CopyTable, TableType, CopyType
        <3>2. openable' \in BOOLEAN
            BY <1>0, <1>4 DEF CopyTable, TableType
        <3> QED
            BY <3>1, <3>2 DEF TableType
    <2>5. HistoryType'
        BY <1>0, <1>4, <2>2 DEF CopyTable, HistoryType
    <2> QED
        BY <1>0, <1>4, <2>1, <2>2, <2>3, <2>4, <2>5, PartsUnchanged, TypeJoin DEF CopyTable, history, stream, copy, table, bounds
<1>5. ASSUME Anchor PROVE TypeOK'
    <2>1. UNCHANGED mysql
        BY <1>5 DEF Anchor, vars
    <2>2. Tip' = Tip
        BY <2>1, PartsUnchanged
    <2>3. StateType'
        <3> DEFINE s == AnchoredAt(w, coords)
        <3>1. s \in CdcState /\ s.pos = coords /\ coords \in 0 .. Tip
            BY <1>0, AnchoredType DEF StateType, IsCheckpoint, CopyType
        <3>2. w' = [s EXCEPT !.gtids = {}, !.pending = TRUE] /\ st' = w' /\ pc' = "connect"
            BY <1>5 DEF Anchor
        <3> HIDE DEF s
        <3>3. w' \in CdcState /\ w'.pos = coords
            BY <3>1, <3>2 DEF CdcState
        <3> QED
            BY <1>0, <2>2, <3>1, <3>2, <3>3 DEF StateType, PcType, IsCheckpoint
    <2>4. CopyType'
        BY <1>0, <1>5, <2>2, EmptyTypes DEF Anchor, CopyType
    <2>5. HistoryType'
        BY <1>0, <1>5, <2>2 DEF Anchor, HistoryType
    <2> QED
        BY <1>0, <1>5, <2>1, <2>2, <2>3, <2>4, <2>5, PartsUnchanged, TypeJoin DEF Anchor, history, stream, copy, table, bounds
<1>6. ASSUME ResolvePosition PROVE TypeOK'
    <2>1. UNCHANGED mysql
        BY <1>6 DEF ResolvePosition, vars
    <2>2. Tip' = Tip
        BY <2>1, PartsUnchanged
    <2>3. StateType'
        BY <1>0, <1>6, <2>2, AnchoredType DEF ResolvePosition, StateType, PcType, IsCheckpoint, CdcState
    <2> QED
        BY <1>0, <1>6, <2>1, <2>2, <2>3, PartsUnchanged, TypeJoin DEF ResolvePosition, history, stream, copy, table, bounds
<1>7. ASSUME CaptureGtids PROVE TypeOK'
    <2>1. UNCHANGED mysql
        BY <1>7 DEF CaptureGtids, vars
    <2>2. Tip' = Tip
        BY <2>1, PartsUnchanged
    <2>3. StateType'
        BY <1>0, <1>7, <2>2 DEF CaptureGtids, StateType, PcType, IsCheckpoint, CdcState
    <2> QED
        BY <1>0, <1>7, <2>1, <2>2, <2>3, PartsUnchanged, TypeJoin DEF CaptureGtids, history, stream, copy, table, bounds
<1>8. ASSUME OpenStream PROVE TypeOK'
    <2>1. UNCHANGED mysql
        BY <1>8 DEF OpenStream, vars
    <2>2. Tip' = Tip
        BY <2>1, PartsUnchanged
    <2>3. StateType'
        BY <1>0, <1>8, <2>2 DEF OpenStream, StateType, PcType, IsCheckpoint, CdcState
    <2>4. StreamType'
        BY <1>0, <1>8, <2>2 DEF OpenStream, StreamType, StateType, IsCheckpoint, CdcState
    <2>5. FlagType'
        BY <1>0, <1>8, <2>2 DEF OpenStream, FlagType
    <2> QED
        BY <1>0, <1>8, <2>1, <2>2, <2>3, <2>4, <2>5, PartsUnchanged, TypeJoin DEF OpenStream, history, stream, copy, table, bounds
<1>9. ASSUME FakeRotateEvent PROVE TypeOK'
    <2>1. UNCHANGED mysql
        BY <1>9 DEF FakeRotateEvent, vars
    <2>2. Tip' = Tip
        BY <2>1, PartsUnchanged
    <2>3. StateType'
        BY <1>0, <1>9, <2>2 DEF FakeRotateEvent, StateType, PcType, IsCheckpoint, CdcState
    <2>4. TableType'
        BY <1>0, <1>9, <2>2 DEF FakeRotateEvent, TableType
    <2>5. HistoryType'
        BY <1>0, <1>9, <2>2 DEF FakeRotateEvent, HistoryType
    <2> QED
        BY <1>0, <1>9, <2>1, <2>2, <2>3, <2>4, <2>5, PartsUnchanged, TypeJoin DEF FakeRotateEvent, history, stream, copy, table, bounds
<1>10. ASSUME Resync PROVE TypeOK'
    <2>1. UNCHANGED mysql
        BY <1>10 DEF Resync, vars
    <2>2. Tip' = Tip
        BY <2>1, PartsUnchanged
    <2>3. StateType'
        BY <1>0, <1>10, <2>2 DEF Resync, StateType, PcType, IsCheckpoint, CdcState, Stale, Content, MySQLType
    <2>4. CopyType'
        BY <1>0, <1>10, <2>2, EmptyTypes DEF Resync, CopyType, Stale, Content, MySQLType
    <2>5. TableType'
        <3>1. mirror' \in Content
            BY <1>0, <1>10 DEF Resync, TableType, Content
        <3>2. outcomes' \in Outcomes
            BY <1>0, <1>10, <3>1, SettledType DEF Resync, TableType, Outcomes
        <3>3. openable' \in BOOLEAN
            BY <1>0, <1>10 DEF Resync, TableType
        <3> QED
            BY <3>1, <3>2, <3>3 DEF TableType
    <2>6. HistoryType'
        BY <1>0, <1>10, <2>2 DEF Resync, HistoryType, Stale, Content, MySQLType
    <2> QED
        BY <1>0, <1>10, <2>1, <2>2, <2>3, <2>4, <2>5, <2>6, PartsUnchanged, TypeJoin DEF Resync, history, stream, copy, table, bounds
<1>11. ASSUME DiscardCheckpoint PROVE TypeOK'
    <2>1. UNCHANGED mysql
        BY <1>11 DEF DiscardCheckpoint, vars
    <2>2. Tip' = Tip
        BY <2>1, PartsUnchanged
    <2>3. StateType'
        <3>1. w' \in CdcState /\ w'.pos = 0
            BY <1>0, <1>11 DEF DiscardCheckpoint, StateType, IsCheckpoint, CdcState
        <3>2. st' = w' /\ pc' = "connect"
            BY <1>11 DEF DiscardCheckpoint
        <3> QED
            BY <1>0, <2>2, <3>1, <3>2 DEF StateType, PcType, IsCheckpoint
    <2>4. CopyType'
        BY <1>0, <1>11, <2>2, EmptyTypes DEF DiscardCheckpoint, CopyType, LapseNames, Stale
    <2>5. HistoryType'
        BY <1>0, <1>11, <2>2 DEF DiscardCheckpoint, HistoryType, LapseNames, Stale
    <2> QED
        BY <1>0, <1>11, <2>1, <2>2, <2>3, <2>4, <2>5, PartsUnchanged, TypeJoin DEF DiscardCheckpoint, history, stream, copy, table, bounds
<1>12. ASSUME SkipTransaction PROVE TypeOK'
    <2>1. UNCHANGED mysql
        BY <1>12 DEF SkipTransaction, vars
    <2>2. Tip' = Tip
        BY <2>1, PartsUnchanged
    <2>3. StateType'
        BY <1>0, <1>12, <2>2 DEF SkipTransaction, StateType, PcType, IsCheckpoint, CdcState, Sends, Advance, Checkpoint
    <2>4. StreamType'
        BY <1>0, <1>12, <2>2 DEF SkipTransaction, StreamType, Sends, Advance, Checkpoint
    <2>5. TableType'
        BY <1>0, <1>12, <2>2 DEF SkipTransaction, TableType, Sends, Advance, Checkpoint
    <2>6. HistoryType'
        BY <1>0, <1>12, <2>2 DEF SkipTransaction, HistoryType, Sends, Advance, Checkpoint
    <2> QED
        BY <1>0, <1>12, <2>1, <2>2, <2>3, <2>4, <2>5, <2>6, PartsUnchanged, TypeJoin DEF SkipTransaction, history, stream, copy, table, bounds
<1>13. ASSUME GtidEvent PROVE TypeOK'
    <2>1. UNCHANGED mysql
        BY <1>13 DEF GtidEvent, vars
    <2>2. Tip' = Tip
        BY <2>1, PartsUnchanged
    <2>3. StateType'
        <3>1. cursor + 1 \in 1 .. Tip /\ log[cursor + 1].tx \in Nat
            BY <1>0, <1>13 DEF GtidEvent, Sends, BinlogEvent
        <3>2. w' \in CdcState /\ w'.pos = cursor + 1
            <4> DEFINE g == IF GtidMode THEN w.gtids \cup {log[cursor + 1].tx} ELSE w.gtids
            <4>1. w \in CdcState /\ w.gtids \in SUBSET Nat
                BY <1>0 DEF StateType, IsCheckpoint, CdcState
            <4>2. g \in SUBSET Nat
                BY <3>1, <4>1
            <4>3. w' = [w EXCEPT !.pos = cursor + 1, !.gtids = g]
                BY <1>13 DEF GtidEvent
            <4>4. cursor + 1 \in Nat
                BY <1>0, <3>1
            <4> HIDE DEF g
            <4> QED
                BY <4>1, <4>2, <4>3, <4>4 DEF CdcState
        <3>3. st' \in {st, w'} /\ pc' = pc
            BY <1>13 DEF GtidEvent, Checkpoint
        <3> QED
            BY <1>0, <2>2, <3>1, <3>2, <3>3 DEF StateType, PcType, IsCheckpoint
    <2>4. StreamType'
        BY <1>0, <1>13, <2>2 DEF GtidEvent, StreamType, Sends, Advance, Checkpoint
    <2>5. TableType'
        BY <1>0, <1>13, <2>2 DEF GtidEvent, TableType, Sends, Advance, Checkpoint
    <2>6. HistoryType'
        BY <1>0, <1>13, <2>2 DEF GtidEvent, HistoryType, Sends, Advance, Checkpoint
    <2> QED
        BY <1>0, <1>13, <2>1, <2>2, <2>3, <2>4, <2>5, <2>6, PartsUnchanged, TypeJoin DEF GtidEvent, history, stream, copy, table, bounds
<1>14. ASSUME TableMapEvent PROVE TypeOK'
    <2>1. UNCHANGED mysql
        BY <1>14 DEF TableMapEvent, vars
    <2>2. Tip' = Tip
        BY <2>1, PartsUnchanged
    <2>3. StateType'
        BY <1>0, <1>14, <2>2 DEF TableMapEvent, StateType, PcType, IsCheckpoint, CdcState, Sends, Advance, Checkpoint
    <2>4. StreamType'
        BY <1>0, <1>14, <2>2 DEF TableMapEvent, StreamType, Sends, Advance, Checkpoint
    <2>5. FlagType'
        BY <1>0, <1>14, <2>2 DEF TableMapEvent, FlagType, Sends, Advance, Checkpoint
    <2>6. TableType'
        BY <1>0, <1>14, <2>2 DEF TableMapEvent, TableType, Sends, Advance, Checkpoint
    <2>7. HistoryType'
        BY <1>0, <1>14, <2>2 DEF TableMapEvent, HistoryType, Sends, Advance, Checkpoint
    <2> QED
        BY <1>0, <1>14, <2>1, <2>2, <2>3, <2>4, <2>5, <2>6, <2>7, PartsUnchanged, TypeJoin DEF TableMapEvent, history, stream, copy, table, bounds
<1>15. ASSUME RowsEvent PROVE TypeOK'
    <2>1. UNCHANGED mysql
        BY <1>15 DEF RowsEvent, vars
    <2>2. Tip' = Tip
        BY <2>1, PartsUnchanged
    <2>3. StateType'
        BY <1>0, <1>15, <2>2 DEF RowsEvent, StateType, PcType, IsCheckpoint, CdcState, Sends, Advance, Checkpoint
    <2>4. StreamType'
        BY <1>0, <1>15, <2>2 DEF RowsEvent, StreamType, Sends, Advance, Checkpoint
    <2>5. TableType'
        <3> DEFINE row == log[cursor + 1].row
        <3>1. row \in BinlogRow
            BY <1>0, <1>15 DEF RowsEvent, Sends, BinlogEvent
        <3>2. ApplyRow(mirror, row) \in Content /\ Uncertain(outcomes, row) \in Outcomes
            BY <1>0, <3>1, ApplyTypes DEF TableType, Outcomes
        <3>3. mirror' \in {mirror, ApplyRow(mirror, row)}
            BY <1>15 DEF RowsEvent
        <3>4. mirror' \in Content /\ Settled(mirror') \in Outcomes
            BY <1>0, <3>2, <3>3, SettledType DEF TableType, Outcomes
        <3>5. outcomes' \in {outcomes, Uncertain(outcomes, row), Settled(mirror), Settled(mirror')}
            BY <1>15 DEF RowsEvent, Checkpoint
        <3>6. outcomes' \in Outcomes
            BY <1>0, <3>2, <3>4, <3>5 DEF TableType
        <3>7. openable' \in BOOLEAN
            BY <1>0, <1>15 DEF RowsEvent, TableType
        <3> QED
            BY <3>4, <3>6, <3>7 DEF TableType
    <2>6. HistoryType'
        BY <1>0, <1>15, <2>2 DEF RowsEvent, HistoryType, Sends, Advance, Checkpoint
    <2> QED
        BY <1>0, <1>15, <2>1, <2>2, <2>3, <2>4, <2>5, <2>6, PartsUnchanged, TypeJoin DEF RowsEvent, history, stream, copy, table, bounds
<1>16. ASSUME RotateEvent PROVE TypeOK'
    <2>1. UNCHANGED mysql
        BY <1>16 DEF RotateEvent, vars
    <2>2. Tip' = Tip
        BY <2>1, PartsUnchanged
    <2>3. StateType'
        BY <1>0, <1>16, <2>2 DEF RotateEvent, StateType, PcType, IsCheckpoint, CdcState, Sends, Advance, Checkpoint
    <2>4. StreamType'
        BY <1>0, <1>16, <2>2 DEF RotateEvent, StreamType, Sends, Advance, Checkpoint
    <2>5. FlagType'
        BY <1>0, <1>16, <2>2 DEF RotateEvent, FlagType, Sends, Advance, Checkpoint
    <2>6. TableType'
        BY <1>0, <1>16, <2>2 DEF RotateEvent, TableType, Sends, Advance, Checkpoint
    <2>7. HistoryType'
        BY <1>0, <1>16, <2>2 DEF RotateEvent, HistoryType, Sends, Advance, Checkpoint
    <2> QED
        BY <1>0, <1>16, <2>1, <2>2, <2>3, <2>4, <2>5, <2>6, <2>7, PartsUnchanged, TypeJoin DEF RotateEvent, history, stream, copy, table, bounds
<1>17. ASSUME ReportLive PROVE TypeOK'
    <2>1. UNCHANGED mysql
        BY <1>17 DEF ReportLive, vars
    <2>2. Tip' = Tip
        BY <2>1, PartsUnchanged
    <2>3. StateType'
        BY <1>0, <1>17, <2>2 DEF ReportLive, StateType, PcType, IsCheckpoint, CdcState
    <2>4. FlagType'
        BY <1>0, <1>17, <2>2 DEF ReportLive, FlagType, stream
    <2>5. TableType'
        BY <1>0, <1>17, <2>2 DEF ReportLive, TableType
    <2>6. HistoryType'
        BY <1>0, <1>17, <2>2 DEF ReportLive, HistoryType
    <2> QED
        BY <1>0, <1>17, <2>1, <2>2, <2>3, <2>4, <2>5, <2>6, PartsUnchanged, TypeJoin DEF ReportLive, history, stream, copy, table, bounds
<1>18. ASSUME EnterStaticMode PROVE TypeOK'
    <2>1. UNCHANGED mysql
        BY <1>18 DEF EnterStaticMode, vars
    <2>2. Tip' = Tip
        BY <2>1, PartsUnchanged
    <2>3. StateType'
        BY <1>0, <1>18, <2>2 DEF EnterStaticMode, StateType, PcType, IsCheckpoint, CdcState, ProcessGone, EmptyCdcState, NoSnapshot, Content
    <2>4. StreamType'
        BY <1>0, <1>18, <2>2 DEF EnterStaticMode, StreamType, ProcessGone, EmptyCdcState, NoSnapshot, Content
    <2>5. FlagType'
        BY <1>0, <1>18, <2>2 DEF EnterStaticMode, FlagType, ProcessGone, EmptyCdcState, NoSnapshot, Content
    <2>6. CopyType'
        BY <1>0, <1>18, <2>2, EmptyTypes DEF EnterStaticMode, CopyType, ProcessGone, EmptyCdcState, NoSnapshot, Content
    <2>7. TableType'
        BY <1>0, <1>18, <2>2 DEF EnterStaticMode, TableType, ProcessGone, EmptyCdcState, NoSnapshot, Content
    <2>8. HistoryType'
        BY <1>0, <1>18, <2>2 DEF EnterStaticMode, HistoryType, ProcessGone, EmptyCdcState, NoSnapshot, Content
    <2> QED
        BY <1>0, <1>18, <2>1, <2>2, <2>3, <2>4, <2>5, <2>6, <2>7, <2>8, PartsUnchanged, TypeJoin DEF EnterStaticMode, history, stream, copy, table, bounds
<1>19. ASSUME CatchUpPoll PROVE TypeOK'
    <2>1. UNCHANGED mysql
        BY <1>19 DEF CatchUpPoll, vars
    <2>2. Tip' = Tip
        BY <2>1, PartsUnchanged
    <2>3. StateType'
        BY <1>0, <1>19, <2>2 DEF CatchUpPoll, StateType, PcType, IsCheckpoint, CdcState
    <2>4. StreamType'
        BY <1>0, <1>19, <2>2 DEF CatchUpPoll, StreamType
    <2>5. HistoryType'
        BY <1>0, <1>19, <2>2 DEF CatchUpPoll, HistoryType
    <2> QED
        BY <1>0, <1>19, <2>1, <2>2, <2>3, <2>4, <2>5, PartsUnchanged, TypeJoin DEF CatchUpPoll, history, stream, copy, table, bounds
<1>20. ASSUME IdlePoll PROVE TypeOK'
    <2>1. UNCHANGED mysql
        BY <1>20 DEF IdlePoll, vars
    <2>2. Tip' = Tip
        BY <2>1, PartsUnchanged
    <2> QED
        BY <1>0, <1>20, <2>1, <2>2, PartsUnchanged, TypeJoin DEF IdlePoll, vars, stream, history, copy, table, bounds, StateType, PcType, IsCheckpoint
<1>21. ASSUME StreamEnds PROVE TypeOK'
    <2>1. UNCHANGED mysql
        BY <1>21 DEF StreamEnds, vars
    <2>2. Tip' = Tip
        BY <2>1, PartsUnchanged
    <2>3. StateType'
        BY <1>0, <1>21, <2>2 DEF StreamEnds, StateType, PcType, IsCheckpoint, CdcState
    <2>4. BoundsType'
        BY <1>0, <1>21, <2>2, CdcBoundsAreNat DEF StreamEnds, BoundsType
    <2>5. HistoryType'
        BY <1>0, <1>21, <2>2 DEF StreamEnds, HistoryType
    <2> QED
        BY <1>0, <1>21, <2>1, <2>2, <2>3, <2>4, <2>5, PartsUnchanged, TypeJoin DEF StreamEnds, history, stream, copy, table, bounds
<1>22. ASSUME StreamError PROVE TypeOK'
    <2>1. UNCHANGED mysql
        BY <1>22 DEF StreamError, vars
    <2>2. Tip' = Tip
        BY <2>1, PartsUnchanged
    <2>3. StateType'
        BY <1>0, <1>22, <2>2 DEF StreamError, StateType, PcType, IsCheckpoint, CdcState
    <2>4. BoundsType'
        BY <1>0, <1>22, <2>2, CdcBoundsAreNat DEF StreamError, BoundsType
    <2>5. HistoryType'
        BY <1>0, <1>22, <2>2 DEF StreamError, HistoryType
    <2> QED
        BY <1>0, <1>22, <2>1, <2>2, <2>3, <2>4, <2>5, PartsUnchanged, TypeJoin DEF StreamError, history, stream, copy, table, bounds
<1>23. ASSUME Halt PROVE TypeOK'
    <2>1. UNCHANGED mysql
        BY <1>23 DEF Halt, vars
    <2>2. Tip' = Tip
        BY <2>1, PartsUnchanged
    <2>3. StateType'
        BY <1>0, <1>23, <2>2 DEF Halt, StateType, PcType, IsCheckpoint, CdcState, ProcessGone, EmptyCdcState, NoSnapshot, Content
    <2>4. StreamType'
        BY <1>0, <1>23, <2>2 DEF Halt, StreamType, ProcessGone, EmptyCdcState, NoSnapshot, Content
    <2>5. FlagType'
        BY <1>0, <1>23, <2>2 DEF Halt, FlagType, ProcessGone, EmptyCdcState, NoSnapshot, Content
    <2>6. CopyType'
        BY <1>0, <1>23, <2>2, EmptyTypes DEF Halt, CopyType, ProcessGone, EmptyCdcState, NoSnapshot, Content
    <2>7. TableType'
        BY <1>0, <1>23, <2>2 DEF Halt, TableType, ProcessGone, EmptyCdcState, NoSnapshot, Content
    <2>8. BoundsType'
        BY <1>0, <1>23, <2>2, CdcBoundsAreNat DEF Halt, BoundsType, ProcessGone, EmptyCdcState, NoSnapshot, Content
    <2>9. HistoryType'
        BY <1>0, <1>23, <2>2 DEF Halt, HistoryType, ProcessGone, EmptyCdcState, NoSnapshot, Content
    <2> QED
        BY <1>0, <1>23, <2>1, <2>2, <2>3, <2>4, <2>5, <2>6, <2>7, <2>8, <2>9, PartsUnchanged, TypeJoin DEF Halt, history, stream, copy, table, bounds
<1>24. ASSUME Crash PROVE TypeOK'
    <2>1. UNCHANGED mysql
        BY <1>24 DEF Crash, vars
    <2>2. Tip' = Tip
        BY <2>1, PartsUnchanged
    <2>3. StateType'
        BY <1>0, <1>24, <2>2 DEF Crash, StateType, PcType, IsCheckpoint, CdcState, LapseIf, LapseNames, Content, ProcessGone, EmptyCdcState, NoSnapshot
    <2>4. StreamType'
        BY <1>0, <1>24, <2>2 DEF Crash, StreamType, LapseIf, LapseNames, Content, ProcessGone, EmptyCdcState, NoSnapshot
    <2>5. FlagType'
        BY <1>0, <1>24, <2>2 DEF Crash, FlagType, LapseIf, LapseNames, Content, ProcessGone, EmptyCdcState, NoSnapshot
    <2>6. CopyType'
        BY <1>0, <1>24, <2>2, EmptyTypes DEF Crash, CopyType, LapseIf, LapseNames, Content, ProcessGone, EmptyCdcState, NoSnapshot
    <2>7. TableType'
        <3>1. mirror' \in Content
            BY <1>24 DEF Crash, Content
        <3>2. outcomes' \in Outcomes
            BY <1>24, <3>1, SettledType DEF Crash, Outcomes
        <3>3. openable' \in BOOLEAN
            BY <1>24 DEF Crash
        <3> QED
            BY <3>1, <3>2, <3>3 DEF TableType
    <2>8. BoundsType'
        BY <1>0, <1>24, <2>2, CdcBoundsAreNat DEF Crash, BoundsType, LapseIf, LapseNames, Content, ProcessGone, EmptyCdcState, NoSnapshot
    <2>9. HistoryType'
        BY <1>0, <1>24, <2>2 DEF Crash, HistoryType, LapseIf, LapseNames, Content, ProcessGone, EmptyCdcState, NoSnapshot
    <2> QED
        BY <1>0, <1>24, <2>1, <2>2, <2>3, <2>4, <2>5, <2>6, <2>7, <2>8, <2>9, PartsUnchanged, TypeJoin DEF Crash, history, stream, copy, table, bounds
<1> QED
    BY <1>1, <1>2, <1>3, <1>4, <1>5, <1>6, <1>7, <1>8, <1>9, <1>10, <1>11, <1>12, <1>13, <1>14, <1>15, <1>16, <1>17, <1>18, <1>19, <1>20, <1>21, <1>22, <1>23, <1>24 DEF Worker, Starting, Connecting, Streaming, Finishing

\* Type correctness of the CDC worker, MySQL and the mirror: in every reachable
\* state every variable has its type and no position of the worker, of the stream
\* or of cdc_state.json lies beyond the end of the binlog.
THEOREM CdcTypeCorrect == Spec => []TypeOK
<1>1. Init => TypeOK
    BY TypeInit
<1>2. TypeOK /\ [Next]_vars => TypeOK'
    <2> SUFFICES ASSUME TypeOK, [Next]_vars PROVE TypeOK'
        OBVIOUS
    <2>1. CASE MySQL
        BY <2>1, TypeMySQL
    <2>2. CASE Worker \/ CatchUpPoll \/ IdlePoll \/ StreamEnds \/ StreamError \/ Halt \/ Crash
        BY <2>2, TypeStep
    <2>3. CASE UNCHANGED vars
        <3>1. UNCHANGED mysql
            BY <2>3 DEF vars
        <3> QED
            BY <2>3, <3>1, TypeFacts, PartsUnchanged, TypeJoin
            DEF vars, stream, copy, table, bounds, history, StateType, PcType, IsCheckpoint
    <2> QED
        BY <2>1, <2>2, <2>3 DEF Next
<1> QED
    BY <1>1, <1>2, PTL DEF Spec

-----------------------------------------------------------------------------
(* The catch-up gate.  A state, in memory or on disk, that is anchored and     *)
(* has no catch-up pending is past the copy's window, unless a restart cleared *)
(* a pending catch-up; both stay together because every save copies one to    *)
(* the other.  In the stream the position in memory is the stream's own.      *)

PastWindow(s) == s.anchored /\ ~s.pending => s.pos >= window
GateInv ==
    /\ "clearedPending" \in lapses \/ (PastWindow(w) /\ PastWindow(st))
    /\ pc \in {"opened", "stream", "report"} => w.anchored /\ cursor = w.pos
    /\ pc = "report" => ~w.pending
    /\ pc \in {"snapshot", "copy"} => ~w.anchored

\* The gate's invariant holds initially.
LEMMA GateInit == Init => GateInv
BY EmptyTypes DEF Init, GateInv, PastWindow

\* Every step keeps the gate's invariant.
LEMMA GateStep ==
    ASSUME TypeOK, GateInv, [Next]_vars
    PROVE  GateInv'
<1> USE DEF GateInv, PastWindow
<1>0. /\ Tip \in Nat /\ w \in CdcState /\ st \in CdcState /\ window \in 0 .. Tip
      /\ w.pos \in 0 .. Tip /\ st.pos \in 0 .. Tip /\ cursor \in 0 .. Tip /\ coords \in 0 .. Tip
    BY TypeFacts DEF StateType, StreamType, CopyType, HistoryType, IsCheckpoint, CdcState
<1>1. CASE StartFresh
    BY <1>0, <1>1 DEF StartFresh, LapseIf, CdcState, stream, copy, history, vars
<1>2. CASE Resume
    BY <1>0, <1>2 DEF Resume, LapseIf, CaughtUp, CdcState, stream, copy, history, vars
<1>3. CASE ReadCoordinates
    BY <1>0, <1>3 DEF ReadCoordinates, LapseIf, CdcState, stream, copy, history, vars
<1>4. CASE CopyTable
    BY <1>0, <1>4 DEF CopyTable, CdcState, stream, copy, history, vars
<1>5. CASE Anchor
    BY <1>0, <1>5 DEF Anchor, AnchoredAt, CdcState, stream, copy, history, vars
<1>6. CASE ResolvePosition
    BY <1>0, <1>6 DEF ResolvePosition, AnchoredAt, CdcState, stream, copy, history, vars
<1>7. CASE CaptureGtids
    BY <1>0, <1>7 DEF CaptureGtids, CdcState, stream, copy, history, vars
<1>8. CASE OpenStream
    BY <1>0, <1>8 DEF OpenStream, CdcState, stream, copy, history, vars
<1>9. CASE FakeRotateEvent
    BY <1>0, <1>9 DEF FakeRotateEvent, CdcState, stream, copy, history, vars
<1>10. CASE Resync
    BY <1>0, <1>10 DEF Resync, Stale, CdcState, stream, copy, history, vars
<1>11. CASE DiscardCheckpoint
    BY <1>0, <1>11 DEF DiscardCheckpoint, Stale, CdcState, stream, copy, history, vars
<1>12. CASE SkipTransaction
    <2>1. PICK i \in Positions("row") : i > cursor /\ cursor' = i /\ w' = [w EXCEPT !.pos = i]
        BY <1>12 DEF SkipTransaction
    <2>2. i \in Nat /\ i > cursor /\ cursor' = i
        BY <2>1, TypeFacts
    <2>3. w'.anchored = w.anchored /\ w'.pending = w.pending /\ w'.pos = i
        BY <1>0, <2>1 DEF CdcState
    <2>4. st' \in {st, w'} /\ UNCHANGED <<pc, window, lapses>>
        BY <1>12 DEF SkipTransaction, Checkpoint
    <2>5. pc = "stream"
        BY <1>12 DEF SkipTransaction, Sends
    <2> QED
        <3>1. PastWindow(w) => PastWindow(w)'
            BY <1>0, <2>2, <2>3, <2>4, <2>5
        <3>2. PastWindow(w) /\ PastWindow(st) => PastWindow(st)'
            BY <2>4, <3>1
        <3> QED
            BY <2>2, <2>3, <2>4, <2>5, <3>1, <3>2
<1>13. CASE GtidEvent
    <2>1. w'.anchored = w.anchored /\ w'.pending = w.pending /\ w'.pos = cursor + 1
        BY <1>0, <1>13 DEF GtidEvent, CdcState
    <2>2. st' \in {st, w'} /\ UNCHANGED <<pc, window, lapses>> /\ cursor' = cursor + 1
        BY <1>13 DEF GtidEvent, Checkpoint, Advance
    <2>3. pc = "stream"
        BY <1>13 DEF GtidEvent, Sends
    <2> QED
        BY <1>0, <2>1, <2>2, <2>3
<1>14. CASE TableMapEvent
    BY <1>0, <1>14 DEF TableMapEvent, Sends, Advance, Checkpoint, CdcState, stream, copy, history, vars
<1>15. CASE RowsEvent
    BY <1>0, <1>15 DEF RowsEvent, Sends, Advance, Checkpoint, CdcState, stream, copy, history, vars
<1>16. CASE RotateEvent
    BY <1>0, <1>16 DEF RotateEvent, Sends, Advance, Checkpoint, CdcState, stream, copy, history, vars
<1>17. CASE ReportLive
    BY <1>0, <1>17 DEF ReportLive, CdcState, stream, copy, history, vars
<1>18. CASE EnterStaticMode
    BY <1>0, <1>18, EmptyTypes DEF EnterStaticMode, ProcessGone, CdcState, stream, copy, history, vars
<1>19. CASE CatchUpPoll
    BY <1>0, <1>19 DEF CatchUpPoll, CaughtUp, CdcState, stream, copy, history, vars
<1>20. CASE IdlePoll
    BY <1>0, <1>20 DEF IdlePoll, CdcState, stream, copy, history, vars
<1>21. CASE StreamEnds
    BY <1>0, <1>21 DEF StreamEnds, CdcState, stream, copy, history, vars
<1>22. CASE StreamError
    BY <1>0, <1>22 DEF StreamError, CdcState, stream, copy, history, vars
<1>23. CASE Halt
    BY <1>0, <1>23, EmptyTypes DEF Halt, ProcessGone, CdcState, stream, copy, history, vars
<1>24. CASE Crash
    BY <1>0, <1>24, EmptyTypes DEF Crash, ProcessGone, LapseIf, CdcState, stream, copy, history, vars
<1>25. CASE MySQL
    BY <1>25 DEF MySQL, Commit, RotateLog, PurgeLogs, stream, history
<1>26. CASE UNCHANGED vars
    BY <1>26 DEF vars, stream, history
<1> QED
    BY <1>1, <1>2, <1>3, <1>4, <1>5, <1>6, <1>7, <1>8, <1>9, <1>10, <1>11, <1>12, <1>13, <1>14, <1>15, <1>16, <1>17, <1>18, <1>19, <1>20, <1>21, <1>22, <1>23, <1>24, <1>25, <1>26
    DEF Next, Worker, Starting, Connecting, Streaming, Finishing

\* The catch-up gate of the CDC worker: no step sends the first live report of a
\* process before the events of the copy's time are delivered, however often the
\* worker is stopped, crashes, loses its stream or rebuilds the mirror, unless a
\* restart cleared a pending catch-up.
THEOREM GateTheorem == Spec => GateHolds
<1>1. Init => GateInv
    BY GateInit
<1>2. TypeOK /\ GateInv /\ [Next]_vars => GateInv'
    BY GateStep
<1>3. TypeOK /\ GateInv /\ [Next]_vars => [ReportsAfterCatchUp]_vars
    <2> SUFFICES ASSUME TypeOK, GateInv, Next PROVE ReportsAfterCatchUp
        OBVIOUS
    <2> SUFFICES ASSUME "clearedPending" \notin lapses, reported', ~reported PROVE w.pos >= window
        BY DEF ReportsAfterCatchUp
    <2>1. OpenStream \/ ReportLive
        BY DEF Next, MySQL, Commit, RotateLog, PurgeLogs, Worker, Starting, Connecting, Streaming,
               Finishing, StartFresh, Resume, ReadCoordinates, CopyTable, Anchor, ResolvePosition,
               CaptureGtids, FakeRotateEvent, Resync, DiscardCheckpoint, SkipTransaction, GtidEvent,
               TableMapEvent, RowsEvent, RotateEvent, EnterStaticMode, CatchUpPoll, IdlePoll,
               StreamEnds, StreamError, Halt, Crash, ProcessGone, vars
    <2>2. CASE OpenStream
        BY <2>2 DEF OpenStream, GateInv, PastWindow
    <2>3. CASE ReportLive
        BY <2>3 DEF ReportLive, GateInv, PastWindow
    <2> QED
        BY <2>1, <2>2, <2>3
<1> QED
    BY <1>1, <1>2, <1>3, CdcTypeCorrect, PTL DEF Spec, GateHolds

-----------------------------------------------------------------------------
(* Delivered keys are current.  The binlog determines the source: the last    *)
(* change of a key is its row.  A position is good for the mirror when every   *)
(* key without a change after it reads as in MySQL; the worker's position is,  *)
(* and, unless a position was saved ahead of the rows, so is the saved one for  *)
(* whatever a crash leaves.  A mirror that a rebuild has wiped is not good for  *)
(* the saved position, which the server has purged by then.                    *)

LogInv ==
    /\ \A i \in Positions("row") :
         /\ i - 1 \in Positions("map")
         /\ log[i].row.op = "update" => log[i].row.val # NoVal
         /\ log[i].row.pk \in PK
         /\ \A p \in PK : log[i].row.pk = p /\ Changes(p, i) = {} => log[i].row.val = source[p]
    /\ Tip \notin Positions("map")
    /\ \A i \in Positions("gtid") : log[i].tx <= TxCount
    /\ \A i, j \in Positions("gtid") : log[i].tx = log[j].tx => i = j

\* No transaction whose GTID the worker holds is still to be sent.
Behind(gtids, q) == \A i \in Positions("gtid") : log[i].tx \in gtids => i <= q
GtidInv ==
    /\ \A g \in w.gtids \cup st.gtids \cup sent : g <= TxCount
    /\ lapses = {} => /\ Behind(w.gtids, w.pos) /\ Behind(st.gtids, st.pos)
                      /\ pc \in {"opened", "stream", "report"} => Behind(sent, cursor)

\* What each place of run_impl says of the two states, as long as no gap was hit.
Running == {"connect", "opened", "stream", "report", "static"}
StageInv ==
    lapses = {} =>
        /\ openable /\ pc # "capture"
        /\ pc = "down" => ~hasty /\ outcomes = Settled(mirror)
        /\ pc \in {"snapshot", "copy"} => ~w.anchored /\ ~w.boot /\ ~st.anchored
        /\ pc \in {"resnapshot", "recopy"} => st.pos < purged
        /\ pc = "anchor" => ~st.anchored \/ st.pos < purged
        /\ pc \in Running => w.anchored /\ st.pos <= w.pos
        /\ pc = "static" => st = w
        /\ w.pos \in Positions("map") => maps
        /\ pc \in {"copy", "recopy", "anchor"} => coords \notin Positions("map")
        /\ ~w.anchored => w.pos = 0
        /\ ~st.anchored => st.pos = 0

Good(m, q) == \A p \in PK : Changes(p, q) = {} => m[p] = source[p]
CoverInv ==
    lapses = {} =>
        /\ pc \in {"snapshot", "resnapshot"} => Good(snap.rows, snap.at)
        /\ pc \in {"copy", "recopy"} => Good(snap.rows, coords)
        /\ pc = "anchor" => Good(mirror, coords)
        /\ pc \in {"stream", "report"} => Good(mirror, w.pos)
        /\ pc \in Running /\ w.pos >= purged => Good(mirror, w.pos)

\* What a crash leaves is good for the saved position.
DurableInv ==
    lapses = {} /\ ~hasty /\ st.anchored /\ st.pos >= purged =>
        \A p \in PK : Changes(p, st.pos) = {} => outcomes[p] \subseteq {source[p]}

DeliveryInv == LogInv /\ GtidInv /\ StageInv /\ CoverInv /\ DurableInv

\* A state is good for every position before one that it is good for.
LEMMA GoodEarlier ==
    ASSUME TypeOK, NEW m, NEW b \in Nat, NEW a \in Nat, a <= b, Good(m, b)
    PROVE  Good(m, a)
<1>1. \A i \in Positions("row") : i \in Nat
    BY TypeFacts
<1>2. \A p \in PK : Changes(p, b) \subseteq Changes(p, a)
    BY <1>1 DEF Changes
<1> QED
    BY <1>2 DEF Good

\* An event that changes no row.
LEMMA OtherDelivered ==
    ASSUME TypeOK, NEW q \in Nat, q + 1 \notin Positions("row")
    PROVE  /\ \A p : Changes(p, q + 1) = Changes(p, q)
           /\ \A m : Good(m, q) => Good(m, q + 1)
<1>1. \A i \in Positions("row") : i \in Nat
    BY TypeFacts
<1>2. \A i \in Positions("row") : i > q + 1 <=> i > q
    BY <1>1
<1>3. \A p : Changes(p, q + 1) = Changes(p, q)
    BY <1>2 DEF Changes
<1> QED
    BY <1>3 DEF Good

\* A row event that is applied: the last change of a key is its row.
LEMMA RowDelivered ==
    ASSUME TypeOK, LogInv, NEW q \in Nat, q + 1 \in Positions("row"), Good(mirror, q), openable
    PROVE  /\ Good(ApplyRow(mirror, log[q + 1].row), q + 1)
           /\ \A p \in PK : Changes(p, q) = {} => p # log[q + 1].row.pk
<1> DEFINE row == log[q + 1].row
           m == ApplyRow(mirror, row)
<1>1. \A i \in Positions("row") : i \in Nat
    BY TypeFacts
<1>2. row.pk \in PK /\ (row.op = "update" => row.val # NoVal)
      /\ (Changes(row.pk, q + 1) = {} => row.val = source[row.pk])
    BY DEF LogInv
<1>3. \A p \in PK : p # row.pk => Changes(p, q + 1) = Changes(p, q)
    <2>1. \A i \in Positions("row") : i > q + 1 <=> i > q /\ i # q + 1
        BY <1>1
    <2> QED
        BY <2>1 DEF Changes
<1>4. q + 1 \in Changes(row.pk, q)
    BY DEF Changes
<1>5. mirror \in [PK -> Val \cup {NoVal}]
    BY DEF TypeOK
<1> HIDE DEF row
<1>6. ASSUME NEW p \in PK, Changes(p, q + 1) = {} PROVE m[p] = source[p]
    <2>1. CASE p = row.pk
        <3>1. row.val = source[p] /\ Applies(row)
            BY <1>2, <1>6, <2>1 DEF Applies
        <3> QED
            BY <1>5, <2>1, <3>1 DEF ApplyRow
    <2>2. CASE p # row.pk
        <3>1. mirror[p] = source[p]
            BY <1>3, <1>6, <2>2 DEF Good
        <3> QED
            BY <1>5, <2>2, <3>1 DEF ApplyRow
    <2> QED
        BY <2>1, <2>2
<1> QED
    BY <1>4, <1>6 DEF Good, row

-----------------------------------------------------------------------------
(* MySQL's steps *)

\* What a commit adds to the binlog.
LEMMA CommitFacts ==
    ASSUME TypeOK, NEW p \in PK, NEW v \in Val \cup {NoVal}, Commit(p, v)
    PROVE  /\ Tip \in Nat /\ Tip' = Tip + 3 /\ \A i \in 1 .. Tip : log'[i] = log[i]
           /\ Positions("gtid")' = Positions("gtid") \cup {Tip + 1}
           /\ Positions("map")' = Positions("map") \cup {Tip + 2}
           /\ Positions("row")' = Positions("row") \cup {Tip + 3}
           /\ TxCount \in Nat /\ TxCount' = TxCount + 1 /\ log'[Tip + 1].tx = TxCount + 1
           /\ log'[Tip + 3].row.pk = p /\ log'[Tip + 3].row.val = v
           /\ log'[Tip + 3].row.op = "update" => v # NoVal
<1> DEFINE op == IF v = NoVal THEN "delete" ELSE IF source[p] = NoVal THEN "write" ELSE "update"
           e == TxEvents(TxCount + 1, RowChange(op, p, v))
<1>1. log \in Seq(BinlogEvent) /\ Tip \in Nat /\ TxCount \in Nat /\ log' = log \o e
    BY TypeFacts, TxCountType DEF Commit
<1>2. RowChange(op, p, v) \in BinlogRow
    BY DEF RowChange, BinlogRow
<1>3. e \in Seq(BinlogEvent) /\ Len(e) = 3
    BY <1>1, <1>2, TxEventsType
<1>4. /\ e[1].kind = "gtid" /\ e[2].kind = "map" /\ e[3].kind = "row" /\ e[1].tx = TxCount + 1
      /\ e[3].row = RowChange(op, p, v)
    BY DEF TxEvents, Event
<1>5. /\ RowChange(op, p, v).pk = p /\ RowChange(op, p, v).val = v
      /\ RowChange(op, p, v).op = "update" => v # NoVal
    BY DEF RowChange
<1> HIDE DEF e, op
<1>6. /\ Tip' = Tip + 3 /\ DOMAIN log' = 1 .. Tip + 3 /\ DOMAIN log = 1 .. Tip
      /\ \A i \in 1 .. Tip : log'[i] = log[i]
      /\ log'[Tip + 1] = e[1] /\ log'[Tip + 2] = e[2] /\ log'[Tip + 3] = e[3]
    <2>1. /\ Len(log \o e) = Len(log) + 3 /\ log \o e \in Seq(BinlogEvent)
          /\ \A i \in 1 .. Len(log) + 3 : (log \o e)[i] = IF i <= Len(log) THEN log[i] ELSE e[i - Len(log)]
        <3>1. log \o e \in Seq(BinlogEvent) /\ Len(log \o e) = Len(log) + Len(e)
            BY <1>1, <1>3, ConcatProperties
        <3>2. \A i \in 1 .. Len(log) + Len(e) :
                (log \o e)[i] = IF i <= Len(log) THEN log[i] ELSE e[i - Len(log)]
            BY <1>1, <1>3, ConcatProperties
        <3> QED
            BY <1>3, <3>1, <3>2
    <2>2. Tip' = Tip + 3 /\ DOMAIN log' = 1 .. Tip + 3 /\ DOMAIN log = 1 .. Tip
        BY <1>1, <2>1 DEF Tip
    <2>3. \A i \in 1 .. Tip : log'[i] = log[i]
        BY <1>1, <2>1 DEF Tip
    <2>4. ASSUME NEW k \in 1 .. 3 PROVE log'[Tip + k] = e[k]
        <3>1. Tip + k \in 1 .. Len(log) + 3 /\ ~ (Tip + k <= Len(log)) /\ Tip + k - Len(log) = k
            BY <1>1 DEF Tip
        <3> QED
            BY <1>1, <2>1, <3>1
    <2>5. 1 \in 1 .. 3 /\ 2 \in 1 .. 3 /\ 3 \in 1 .. 3
        OBVIOUS
    <2> QED
        BY <2>2, <2>3, <2>4, <2>5
<1>7. 1 .. Tip + 3 = (1 .. Tip) \cup {Tip + 1, Tip + 2, Tip + 3}
    BY <1>1
<1>8. ASSUME NEW k PROVE Positions(k)' = Positions(k) \cup {i \in {Tip + 1, Tip + 2, Tip + 3} : log'[i].kind = k}
    BY <1>6, <1>7 DEF Positions
<1>9. /\ Positions("gtid")' = Positions("gtid") \cup {Tip + 1}
      /\ Positions("map")' = Positions("map") \cup {Tip + 2}
      /\ Positions("row")' = Positions("row") \cup {Tip + 3}
    BY <1>4, <1>6, <1>8
<1>10. TxCount' = TxCount + 1
    <2>1. IsFiniteSet(1 .. Tip)
        BY <1>1, FS_Interval, 1 \in Int, Tip \in Int
    <2>2. Positions("gtid") \subseteq 1 .. Tip /\ Tip + 1 \notin 1 .. Tip
        BY <1>1, PositionsInLog
    <2>3. IsFiniteSet(Positions("gtid"))
        BY <2>1, <2>2, FS_Subset
    <2>4. Cardinality(Positions("gtid") \cup {Tip + 1}) = Cardinality(Positions("gtid")) + 1
        BY <2>2, <2>3, FS_AddElement
    <2> QED
        BY <1>9, <2>4 DEF TxCount
<1> QED
    BY <1>1, <1>4, <1>5, <1>6, <1>9, <1>10

\* A state that agrees with MySQL up to a position of the old log still does: the
\* key that was written has a change to come, the others are as they were.
LEMMA CommitChanges ==
    ASSUME TypeOK, NEW p \in PK, NEW v \in Val \cup {NoVal}, Commit(p, v)
    PROVE  /\ \A q \in 0 .. Tip : Changes(p, q)' # {}
           /\ \A k : \A q : k # p => Changes(k, q)' = Changes(k, q)
           /\ \A k \in PK : k # p => source'[k] = source[k]
           /\ source'[p] = v
           /\ \A m : \A q \in 0 .. Tip : Good(m, q) => Good(m, q)'
<1>1. /\ Tip \in Nat /\ \A i \in 1 .. Tip : log'[i] = log[i]
      /\ Positions("row")' = Positions("row") \cup {Tip + 3} /\ Positions("row") \subseteq 1 .. Tip
      /\ log'[Tip + 3].row.pk = p
    BY CommitFacts, TypeFacts
<1>2. \A q \in 0 .. Tip : Tip + 3 > q
    BY <1>1
<1>3. \A q \in 0 .. Tip : Tip + 3 \in Changes(p, q)'
    BY <1>1, <1>2 DEF Changes
<1>4. \A k : \A q : k # p => Changes(k, q)' = Changes(k, q)
    BY <1>1 DEF Changes
<1>5. (\A k \in PK : k # p => source'[k] = source[k]) /\ source'[p] = v
    BY DEF Commit, TypeOK
<1> QED
    BY <1>3, <1>4, <1>5 DEF Good

\* A binlog that got no transaction says the same of every position.
LEMMA SameTransactions ==
    ASSUME \A k \in {"gtid", "map", "row"} : Positions(k)' = Positions(k),
           \A k \in {"gtid", "map", "row"} : \A i \in Positions(k) : log'[i] = log[i],
           source' = source
    PROVE  /\ \A p, q : Changes(p, q)' = Changes(p, q)
           /\ \A m, q : Good(m, q)' <=> Good(m, q)
           /\ \A g, q : Behind(g, q)' <=> Behind(g, q)
           /\ TxCount' = TxCount
<1>1. \A p, q : Changes(p, q)' = Changes(p, q)
    BY DEF Changes
<1>2. \A g, q : Behind(g, q)' <=> Behind(g, q)
    BY DEF Behind
<1> QED
    BY <1>1, <1>2 DEF Good, TxCount

\* Kept by MySQL's steps.
LEMMA MySQLDelivery == ASSUME TypeOK, DeliveryInv, MySQL PROVE DeliveryInv'
<1>0. /\ Tip \in Nat /\ w.pos \in 0 .. Tip /\ st.pos \in 0 .. Tip /\ cursor \in 0 .. Tip
      /\ snap.at \in 0 .. Tip /\ coords \in 0 .. Tip
      /\ w.gtids \subseteq Nat /\ st.gtids \subseteq Nat /\ sent \subseteq Nat
      /\ \A k : Positions(k) \subseteq 1 .. Tip
      /\ purged \in 0 .. Tip
    BY TypeFacts DEF StateType, StreamType, CopyType, IsCheckpoint, CdcState, MySQLType
<1>1. ASSUME NEW p \in PK, NEW v \in Val \cup {NoVal}, Commit(p, v) PROVE DeliveryInv'
    <2>1. /\ Tip' = Tip + 3 /\ \A i \in 1 .. Tip : log'[i] = log[i]
          /\ Positions("gtid")' = Positions("gtid") \cup {Tip + 1}
          /\ Positions("map")' = Positions("map") \cup {Tip + 2}
          /\ Positions("row")' = Positions("row") \cup {Tip + 3}
          /\ TxCount \in Nat /\ TxCount' = TxCount + 1 /\ log'[Tip + 1].tx = TxCount + 1
          /\ log'[Tip + 3].row.pk = p /\ log'[Tip + 3].row.val = v
          /\ log'[Tip + 3].row.op = "update" => v # NoVal
        BY <1>1, CommitFacts
    <2>2. /\ \A q \in 0 .. Tip : Changes(p, q)' # {}
          /\ \A k : \A q : k # p => Changes(k, q)' = Changes(k, q)
          /\ \A k \in PK : k # p => source'[k] = source[k]
          /\ source'[p] = v
          /\ \A m : \A q \in 0 .. Tip : Good(m, q) => Good(m, q)'
        BY <1>1, CommitChanges
    <2>3. /\ UNCHANGED <<purged, pc, w, st, cursor, sent, maps, snap, coords, mirror, outcomes, openable>>
          /\ UNCHANGED <<hasty, lapses>>
        BY <1>1 DEF Commit, stream, copy, table, history
    <2>4. LogInv'
        <3>1. ASSUME NEW i \in Positions("row")
              PROVE  /\ i - 1 \in Positions("map")' /\ (log'[i].row.op = "update" => log'[i].row.val # NoVal)
                     /\ log'[i].row.pk \in PK
                     /\ \A k \in PK : log'[i].row.pk = k /\ Changes(k, i)' = {} => log'[i].row.val = source'[k]
            <4>1. i \in 1 .. Tip /\ i \in 0 .. Tip /\ log'[i] = log[i]
                BY <1>0, <2>1
            <4> QED
                BY <2>1, <2>2, <4>1 DEF DeliveryInv, LogInv
        <3>2. Tip' \notin Positions("map")'
            BY <1>0, <2>1
        <3>3. \A i \in Positions("gtid")' : log'[i].tx <= TxCount'
            <4>1. \A i \in Positions("gtid") : log'[i].tx <= TxCount /\ log'[i].tx \in Nat
                BY <1>0, <2>1, TypeFacts DEF DeliveryInv, LogInv
            <4> QED
                BY <2>1, <4>1
        <3>4. ASSUME NEW i, i = Tip + 3
              PROVE  /\ i - 1 \in Positions("map")' /\ (log'[i].row.op = "update" => log'[i].row.val # NoVal)
                     /\ log'[i].row.pk \in PK
                     /\ \A k \in PK : log'[i].row.pk = k /\ Changes(k, i)' = {} => log'[i].row.val = source'[k]
            <4>1. i - 1 = Tip + 2
                BY <1>0, <3>4
            <4>2. log'[i].row.pk = p /\ log'[i].row.val = v /\ (log'[i].row.op = "update" => v # NoVal)
                BY <2>1, <3>4
            <4>3. source'[p] = v /\ Tip + 2 \in Positions("map")'
                BY <2>1, <2>2
            <4> QED
                BY <4>1, <4>2, <4>3
        <3>5. \A i, j \in Positions("gtid")' : log'[i].tx = log'[j].tx => i = j
            <4>1. \A i \in Positions("gtid") : log'[i] = log[i] /\ log[i].tx <= TxCount /\ log[i].tx \in Nat
                BY <1>0, <2>1, TypeFacts DEF DeliveryInv, LogInv
            <4>2. \A i \in Positions("gtid") : log'[i].tx # TxCount + 1
                BY <2>1, <4>1
            <4> QED
                BY <2>1, <4>1, <4>2 DEF DeliveryInv, LogInv
        <3> QED
            BY <2>1, <3>1, <3>2, <3>3, <3>4, <3>5 DEF LogInv
    <2>5. GtidInv'
        <3>1. \A g \in w.gtids \cup st.gtids \cup sent : g \in Nat /\ g <= TxCount
            BY <1>0 DEF DeliveryInv, GtidInv
        <3>2. \A g \in w.gtids \cup st.gtids \cup sent : g <= TxCount + 1 /\ g # TxCount + 1
            BY <2>1, <3>1
        <3>3. ASSUME NEW gtids, NEW q, Behind(gtids, q), TxCount + 1 \notin gtids PROVE Behind(gtids, q)'
            BY <1>0, <2>1, <3>3 DEF Behind
        <3> QED
            BY <2>1, <2>3, <3>2, <3>3 DEF DeliveryInv, GtidInv
    <2>6. StageInv'
        <3>1. w.pos # Tip + 2 /\ coords # Tip + 2
            BY <1>0
        <3> QED
            BY <2>1, <2>3, <3>1 DEF DeliveryInv, StageInv, Settled
    <2>7. CoverInv'
        BY <1>0, <2>2, <2>3 DEF DeliveryInv, CoverInv
    <2>8. DurableInv'
        BY <1>0, <2>2, <2>3 DEF DeliveryInv, DurableInv
    <2> QED
        BY <2>4, <2>5, <2>6, <2>7, <2>8 DEF DeliveryInv
<1>2. CASE RotateLog
    <2> DEFINE e == Event("rotate", 0, NoRow)
    <2>1. log' = Append(log, e) /\ e.kind = "rotate" /\ source' = source /\ log \in Seq(BinlogEvent)
        BY <1>2, TypeFacts DEF RotateLog, Event
    <2>2. /\ DOMAIN log = 1 .. Tip /\ DOMAIN log' = 1 .. Tip + 1 /\ Tip' = Tip + 1
          /\ log'[Tip + 1] = e /\ \A i \in 1 .. Tip : log'[i] = log[i]
        BY <2>1 DEF Tip
    <2> HIDE DEF e
    <2>3. 1 .. Tip + 1 = (1 .. Tip) \cup {Tip + 1}
        BY <1>0
    <2>4. \A k \in {"gtid", "map", "row"} : Positions(k)' = Positions(k)
        BY <2>1, <2>2, <2>3 DEF Positions
    <2>5. \A k \in {"gtid", "map", "row"} : \A i \in Positions(k) : log'[i] = log[i]
        BY <1>0, <2>2
    <2>6. /\ UNCHANGED <<source, purged, pc, w, st, cursor, sent, maps, snap, coords, mirror, outcomes>>
          /\ UNCHANGED <<openable, hasty, lapses>>
        BY <1>2 DEF RotateLog, stream, copy, table, history
    <2>7. /\ \A p, q : Changes(p, q)' = Changes(p, q)
          /\ \A m, q : Good(m, q)' <=> Good(m, q)
          /\ \A g, q : Behind(g, q)' <=> Behind(g, q)
          /\ TxCount' = TxCount
        BY <2>4, <2>5, <2>6, SameTransactions
    <2>8. LogInv'
        <3>1. Tip + 1 \notin Positions("map")
            BY <1>0
        <3> QED
            BY <2>2, <2>4, <2>5, <2>6, <2>7, <3>1 DEF DeliveryInv, LogInv
    <2>9. GtidInv'
        BY <2>6, <2>7 DEF DeliveryInv, GtidInv
    <2>10. StageInv'
        BY <2>4, <2>6 DEF DeliveryInv, StageInv, Settled
    <2>11. CoverInv' /\ DurableInv'
        BY <2>6, <2>7 DEF DeliveryInv, CoverInv, DurableInv
    <2> QED
        BY <2>8, <2>9, <2>10, <2>11 DEF DeliveryInv
<1>3. CASE PurgeLogs
    <2>1. /\ UNCHANGED <<log, source, pc, w, st, cursor, sent, maps, snap, coords, mirror, outcomes>>
          /\ UNCHANGED <<openable, hasty, lapses>>
        BY <1>3 DEF PurgeLogs, stream, copy, table, history
    <2>2. purged' \in Nat /\ purged < purged'
        <3>1. PICK i \in Positions("rotate") : purged < i /\ purged' = i
            BY <1>3 DEF PurgeLogs
        <3> QED
            BY <1>0, <3>1
    <2>3. \A x \in 0 .. Tip : (x < purged => x < purged') /\ (x >= purged' => x >= purged)
        BY <1>0, <2>2
    <2>4. \A k : Positions(k)' = Positions(k)
        BY <2>1 DEF Positions
    <2>5. /\ \A p, q : Changes(p, q)' = Changes(p, q)
          /\ \A m, q : Good(m, q)' <=> Good(m, q)
          /\ \A g, q : Behind(g, q)' <=> Behind(g, q)
          /\ TxCount' = TxCount
        BY <2>1, <2>4, SameTransactions
    <2>6. LogInv' /\ GtidInv'
        BY <2>1, <2>4, <2>5 DEF DeliveryInv, LogInv, GtidInv, Tip
    <2>7. StageInv'
        BY <1>0, <2>1, <2>3, <2>4 DEF DeliveryInv, StageInv, Settled
    <2>8. CoverInv' /\ DurableInv'
        BY <1>0, <2>1, <2>3, <2>5 DEF DeliveryInv, CoverInv, DurableInv
    <2> QED
        BY <2>6, <2>7, <2>8 DEF DeliveryInv
<1> QED
    BY <1>1, <1>2, <1>3 DEF MySQL

-----------------------------------------------------------------------------
(* The worker's steps *)

\* A step of the worker leaves MySQL alone.
LEMMA SameLog ==
    ASSUME UNCHANGED mysql, LogInv
    PROVE  /\ LogInv' /\ Tip' = Tip /\ TxCount' = TxCount /\ source' = source /\ purged' = purged
           /\ \A k : Positions(k)' = Positions(k)
           /\ \A p, q : Changes(p, q)' = Changes(p, q)
           /\ \A m, q : Good(m, q)' <=> Good(m, q)
           /\ \A g, q : Behind(g, q)' <=> Behind(g, q)
<1>1. log' = log /\ source' = source /\ purged' = purged
    BY DEF mysql
<1>2. \A k : Positions(k)' = Positions(k)
    BY <1>1 DEF Positions
<1>3. /\ \A p, q : Changes(p, q)' = Changes(p, q)
      /\ \A m, q : Good(m, q)' <=> Good(m, q)
      /\ \A g, q : Behind(g, q)' <=> Behind(g, q)
      /\ TxCount' = TxCount
    BY <1>1, <1>2, SameTransactions
<1>4. LogInv'
    BY <1>1, <1>2, <1>3 DEF LogInv, Tip
<1> QED
    BY <1>1, <1>2, <1>3, <1>4 DEF Tip

\* The types that the steps below need.
LEMMA WorkerFacts ==
    ASSUME TypeOK
    PROVE  /\ Tip \in Nat /\ w \in CdcState /\ st \in CdcState
           /\ w.pos \in Nat /\ w.pos <= Tip /\ st.pos \in Nat /\ st.pos <= Tip
           /\ cursor \in Nat /\ cursor <= Tip /\ snap.at \in Nat /\ snap.at <= Tip
           /\ coords \in Nat /\ coords <= Tip /\ purged \in Nat /\ purged <= Tip
           /\ \A k : Positions(k) \subseteq 1 .. Tip /\ 0 \notin Positions(k)
           /\ \A p : Changes(p, Tip) = {}
           /\ mirror \in Content /\ outcomes \in Outcomes /\ snap.rows \in Content
<1>1. /\ Tip \in Nat /\ w \in CdcState /\ st \in CdcState
      /\ w.pos \in Nat /\ w.pos <= Tip /\ st.pos \in Nat /\ st.pos <= Tip
      /\ cursor \in Nat /\ cursor <= Tip /\ snap.at \in Nat /\ snap.at <= Tip
      /\ coords \in Nat /\ coords <= Tip /\ purged \in Nat /\ purged <= Tip
      /\ mirror \in Content /\ outcomes \in Outcomes /\ snap.rows \in Content
    BY TypeFacts DEF StateType, StreamType, CopyType, IsCheckpoint, CdcState, MySQLType, TableType
<1>2. \A k : Positions(k) \subseteq 1 .. Tip
    BY TypeFacts
<1>3. \A k : 0 \notin Positions(k)
    BY <1>1, <1>2
<1>4. \A p : Changes(p, Tip) = {}
    BY <1>1, <1>2 DEF Changes
<1> QED
    BY <1>1, <1>2, <1>3, <1>4

\* Kept by load_state, the snapshot and the copy.
LEMMA StartDelivery == ASSUME TypeOK, DeliveryInv, Starting PROVE DeliveryInv'
<1>0. /\ Tip \in Nat /\ w \in CdcState /\ st \in CdcState
      /\ w.pos \in Nat /\ w.pos <= Tip /\ st.pos \in Nat /\ st.pos <= Tip
      /\ snap.at \in Nat /\ snap.at <= Tip /\ coords \in Nat /\ coords <= Tip
      /\ \A k : Positions(k) \subseteq 1 .. Tip /\ 0 \notin Positions(k)
      /\ \A p : Changes(p, Tip) = {}
      /\ mirror \in Content /\ outcomes \in Outcomes /\ snap.rows \in Content
    BY WorkerFacts
<1>1. UNCHANGED mysql /\ LogInv
    BY DEF Starting, StartFresh, Resume, ReadCoordinates, CopyTable, Anchor, DeliveryInv
<1>2. /\ LogInv' /\ Tip' = Tip /\ TxCount' = TxCount /\ source' = source /\ purged' = purged
      /\ \A k : Positions(k)' = Positions(k)
      /\ \A p, q : Changes(p, q)' = Changes(p, q)
      /\ \A m, q : Good(m, q)' <=> Good(m, q)
      /\ \A g, q : Behind(g, q)' <=> Behind(g, q)
    BY <1>1, SameLog
<1> USE DEF DeliveryInv
<1>3. CASE StartFresh
    <2>1. /\ pc = "down" /\ pc' = "snapshot" /\ ~st.anchored /\ w' = st
          /\ snap' = [rows |-> source, at |-> Tip]
          /\ UNCHANGED <<st, sent, cursor, maps, openable, mirror, outcomes, hasty>>
          /\ lapses' = {} => lapses = {} /\ ~st.boot
        BY <1>3 DEF StartFresh, LapseIf, stream, table
    <2>2. GtidInv'
        BY <1>2, <2>1 DEF GtidInv
    <2>3. StageInv'
        BY <1>0, <1>2, <2>1 DEF StageInv, Running
    <2>4. CoverInv' /\ DurableInv'
        BY <1>2, <2>1 DEF CoverInv, DurableInv, Good, Running
    <2> QED
        BY <1>2, <2>2, <2>3, <2>4
<1>4. CASE Resume
    <2>1. /\ pc = "down" /\ pc' = "connect" /\ st.anchored /\ st' = w'
          /\ w'.anchored = st.anchored /\ w'.pos = st.pos /\ w'.gtids = st.gtids
          /\ UNCHANGED <<sent, cursor, maps, openable, mirror, outcomes, hasty>>
          /\ lapses' = {} => lapses = {} /\ st.pos \notin Positions("map")
        BY <1>0, <1>4 DEF Resume, LapseIf, stream, table, CdcState
    <2>2. GtidInv'
        BY <1>2, <2>1 DEF GtidInv
    <2>3. StageInv'
        BY <1>0, <1>2, <2>1 DEF StageInv, Running
    <2>4. lapses' = {} /\ st.pos >= purged => Good(mirror, st.pos)
        <3>1. lapses' = {} /\ st.pos >= purged =>
                \A p \in PK : Changes(p, st.pos) = {} => outcomes[p] \subseteq {source[p]} /\ outcomes[p] = {mirror[p]}
            BY <2>1 DEF StageInv, DurableInv, Settled
        <3> QED
            BY <3>1 DEF Good
    <2>5. CoverInv' /\ DurableInv'
        BY <1>2, <2>1, <2>4 DEF CoverInv, DurableInv, Running
    <2> QED
        BY <1>2, <2>2, <2>3, <2>5
<1>5. CASE ReadCoordinates
    <2>1. /\ (pc = "snapshot" /\ pc' = "copy") \/ (pc = "resnapshot" /\ pc' = "recopy")
          /\ coords' = Tip
          /\ UNCHANGED <<w, st, sent, cursor, maps, openable, mirror, outcomes, hasty, snap>>
          /\ lapses' = {} => lapses = {} /\ snap.at = Tip
        BY <1>0, <1>5 DEF ReadCoordinates, LapseIf, stream, table
    <2>2. GtidInv'
        BY <1>2, <2>1 DEF GtidInv
    <2>3. StageInv'
        BY <1>0, <1>2, <2>1 DEF StageInv, LogInv, Running
    <2>4. CoverInv' /\ DurableInv'
        BY <1>2, <2>1 DEF CoverInv, DurableInv, Running
    <2> QED
        BY <1>2, <2>2, <2>3, <2>4
<1>6. CASE CopyTable
    <2>1. /\ pc \in {"copy", "recopy"} /\ pc' = "anchor"
          /\ w'.anchored = w.anchored /\ w'.pos = w.pos /\ w'.gtids = w.gtids
          /\ st' = IF pc = "copy" THEN w' ELSE st
          /\ UNCHANGED <<sent, cursor, maps, openable, coords, lapses>>
          /\ pc = "recopy" \/ ~w.boot => mirror' = snap.rows /\ outcomes' = Settled(snap.rows) /\ ~hasty'
        BY <1>0, <1>6 DEF CopyTable, stream, copy, CdcState
    <2>2. GtidInv'
        BY <1>2, <2>1 DEF GtidInv
    <2>3. StageInv'
        BY <1>0, <1>2, <2>1 DEF StageInv, Running
    <2>4. lapses = {} => mirror' = snap.rows /\ Good(mirror', coords)
        BY <2>1 DEF StageInv, CoverInv
    <2>5. lapses = {} => ~ st'.anchored \/ st'.pos < purged
        BY <2>1 DEF StageInv
    <2>6. CoverInv'
        BY <1>2, <2>1, <2>4 DEF CoverInv, Running
    <2>7. DurableInv'
        <3>1. st'.pos \in Nat /\ purged \in Nat
            BY <1>0, <2>1, WorkerFacts
        <3> QED
            BY <1>2, <2>1, <2>5, <3>1 DEF DurableInv
    <2> QED
        BY <1>2, <2>2, <2>3, <2>6, <2>7
<1>7. CASE Anchor
    <2>1. /\ pc = "anchor" /\ pc' = "connect" /\ st' = w' /\ w'.anchored /\ w'.pos = coords /\ w'.gtids = {}
          /\ UNCHANGED <<sent, cursor, maps, openable, mirror, outcomes, lapses>>
          /\ ~hasty' => ~Unflushed
        BY <1>0, <1>7 DEF Anchor, AnchoredAt, stream, table, CdcState
    <2>2. GtidInv'
        BY <1>2, <2>1 DEF GtidInv, Behind
    <2>3. StageInv'
        BY <1>0, <1>2, <2>1 DEF StageInv, Running
    <2>4. CoverInv' /\ DurableInv'
        BY <1>2, <2>1 DEF CoverInv, DurableInv, Running, Unflushed, Good
    <2> QED
        BY <1>2, <2>2, <2>3, <2>4
<1> QED
    BY <1>3, <1>4, <1>5, <1>6, <1>7 DEF Starting

\* Kept by the steps between the checkpoint and the stream.
LEMMA ConnectDelivery == ASSUME TypeOK, GateInv, DeliveryInv, Connecting PROVE DeliveryInv'
<1>0. /\ Tip \in Nat /\ w \in CdcState /\ st \in CdcState
      /\ w.pos \in Nat /\ w.pos <= Tip /\ st.pos \in Nat /\ st.pos <= Tip
      /\ purged \in Nat
      /\ \A k : Positions(k) \subseteq 1 .. Tip /\ 0 \notin Positions(k)
      /\ \A p : Changes(p, Tip) = {}
      /\ mirror \in Content /\ outcomes \in Outcomes
    BY WorkerFacts
<1>1. UNCHANGED mysql /\ LogInv
    BY DEF Connecting, ResolvePosition, CaptureGtids, OpenStream, FakeRotateEvent, Resync,
           DiscardCheckpoint, DeliveryInv
<1>2. /\ LogInv' /\ Tip' = Tip /\ TxCount' = TxCount /\ source' = source /\ purged' = purged
      /\ \A k : Positions(k)' = Positions(k)
      /\ \A p, q : Changes(p, q)' = Changes(p, q)
      /\ \A m, q : Good(m, q)' <=> Good(m, q)
      /\ \A g, q : Behind(g, q)' <=> Behind(g, q)
    BY <1>1, SameLog
<1> USE DEF DeliveryInv
<1>3. CASE ResolvePosition
    <2>1. pc = "connect" /\ ~w.anchored /\ w'.gtids = w.gtids /\ UNCHANGED <<st, sent, lapses>>
        BY <1>0, <1>3 DEF ResolvePosition, AnchoredAt, stream, history, CdcState
    <2>2. lapses # {}
        BY <2>1 DEF StageInv, Running
    <2>3. GtidInv' /\ StageInv' /\ CoverInv' /\ DurableInv'
        BY <1>2, <2>1, <2>2 DEF GtidInv, StageInv, CoverInv, DurableInv
    <2> QED
        BY <1>2, <2>3
<1>4. CASE CaptureGtids
    <2>1. /\ pc = "capture" /\ w'.gtids = {log[i].tx : i \in Positions("gtid")}
          /\ UNCHANGED <<st, sent, lapses>>
        BY <1>0, <1>4 DEF CaptureGtids, stream, history, CdcState
    <2>2. lapses # {} /\ \A g \in w'.gtids : g <= TxCount
        BY <1>1, <2>1 DEF StageInv, LogInv
    <2>3. GtidInv' /\ StageInv' /\ CoverInv' /\ DurableInv'
        BY <1>2, <2>1, <2>2 DEF GtidInv, StageInv, CoverInv, DurableInv
    <2> QED
        BY <1>2, <2>3
<1>5. CASE OpenStream
    <2>1. /\ pc = "connect" /\ pc' = "opened" /\ cursor' = w.pos /\ sent' \subseteq w.gtids
          /\ UNCHANGED <<w, st, maps, openable, mirror, outcomes, hasty, lapses>>
        BY <1>5 DEF OpenStream, table, history
    <2>2. GtidInv'
        BY <1>2, <2>1 DEF GtidInv, Behind
    <2>3. StageInv'
        BY <1>2, <2>1 DEF StageInv, Running
    <2>4. CoverInv' /\ DurableInv'
        BY <1>2, <2>1 DEF CoverInv, DurableInv, Running
    <2> QED
        BY <1>2, <2>2, <2>3, <2>4
<1>6. CASE FakeRotateEvent
    <2>1. /\ pc = "opened" /\ pc' = "stream" /\ w.pos >= purged /\ st' = w /\ outcomes' = Settled(mirror)
          /\ UNCHANGED <<w, sent, cursor, maps, openable, mirror, lapses>>
        BY <1>6 DEF FakeRotateEvent, stream
    <2>2. GtidInv'
        BY <1>2, <2>1 DEF GtidInv
    <2>3. StageInv'
        BY <1>0, <1>2, <2>1 DEF StageInv, Running
    <2>4. lapses = {} => Good(mirror, w.pos)
        BY <2>1 DEF CoverInv, Running
    <2>5. CoverInv' /\ DurableInv'
        BY <1>2, <2>1, <2>4 DEF CoverInv, DurableInv, Running, Settled, Good
    <2> QED
        BY <1>2, <2>2, <2>3, <2>5
<1>7. CASE Resync
    <2>1. /\ pc \in {"connect", "opened"} /\ pc' = "resnapshot" /\ w.pos < purged
          /\ snap' = [rows |-> source, at |-> Tip]
          /\ UNCHANGED <<w, st, sent, cursor, maps, openable, lapses>>
        BY <1>7 DEF Resync, Stale, stream
    <2>2. lapses = {} => st.pos < purged
        BY <1>0, <2>1 DEF StageInv, Running
    <2>3. GtidInv'
        BY <1>2, <2>1 DEF GtidInv
    <2>4. StageInv'
        BY <1>0, <1>2, <2>1, <2>2 DEF StageInv, Running
    <2>5. CoverInv'
        BY <1>2, <2>1 DEF CoverInv, Good, Running
    <2>6. DurableInv'
        BY <1>0, <1>2, <2>1, <2>2 DEF DurableInv
    <2> QED
        BY <1>2, <2>3, <2>4, <2>5, <2>6
<1>8. CASE DiscardCheckpoint
    <2>1. w'.gtids = {} /\ st' = w' /\ sent' = sent /\ lapses' # {}
        BY <1>0, <1>8 DEF DiscardCheckpoint, stream, CdcState
    <2>2. GtidInv' /\ StageInv' /\ CoverInv' /\ DurableInv'
        BY <1>2, <2>1 DEF GtidInv, StageInv, CoverInv, DurableInv
    <2> QED
        BY <1>2, <2>2
<1> QED
    BY <1>3, <1>4, <1>5, <1>6, <1>7, <1>8 DEF Connecting

\* Kept by an event that moves worker and stream to position q, after which the
\* mirror is good for q, with or without a checkpoint.
LEMMA EventDelivery ==
    ASSUME TypeOK, DeliveryInv, UNCHANGED mysql, UNCHANGED <<pc, sent, openable, lapses>>,
           pc = "stream", NEW q \in Nat, w.pos <= q, cursor' = q, w'.pos = q,
           w'.anchored = w.anchored, \A g \in w'.gtids : g <= TxCount,
           lapses = {} => /\ cursor <= q /\ Behind(w'.gtids, q) /\ Good(mirror', q)
                          /\ q \in Positions("map") => maps'
                          /\ \A p \in PK : Changes(p, st.pos) = {} =>
                                outcomes'[p] \in {outcomes[p], {mirror'[p]}},
           \/ st' = st /\ hasty' = hasty
           \/ st' = w' /\ outcomes' = Settled(mirror')
    PROVE  DeliveryInv'
<1>0. w.pos \in Nat /\ st.pos \in Nat /\ purged \in Nat /\ cursor \in Nat
    BY WorkerFacts
<1>1. /\ LogInv' /\ Tip' = Tip /\ TxCount' = TxCount /\ source' = source /\ purged' = purged
      /\ \A k : Positions(k)' = Positions(k)
      /\ \A p, x : Changes(p, x)' = Changes(p, x)
      /\ \A m, x : Good(m, x)' <=> Good(m, x)
      /\ \A g, x : Behind(g, x)' <=> Behind(g, x)
    BY SameLog DEF DeliveryInv
<1> USE DEF DeliveryInv
<1>2. GtidInv'
    <2>1. lapses = {} => Behind(sent, cursor) /\ (Behind(sent, cursor) => Behind(sent, q))
        <3>1. \A i \in Positions("gtid") : i \in Nat
            BY TypeFacts
        <3> QED
            BY <1>0, <3>1 DEF GtidInv, Behind
    <2> QED
        BY <1>1, <2>1 DEF GtidInv
<1>3. StageInv'
    BY <1>0, <1>1 DEF StageInv, Running
<1>4. CoverInv'
    BY <1>1 DEF CoverInv, Running
<1>5. DurableInv'
    <2>1. CASE st' = w' /\ outcomes' = Settled(mirror')
        BY <1>1, <2>1 DEF DurableInv, Settled, Good
    <2>2. CASE st' = st /\ hasty' = hasty
        <3>1. lapses = {} => Good(mirror', st.pos)
            <4>1. lapses = {} => st.pos <= q
                BY <1>0 DEF StageInv, Running
            <4> QED
                BY <1>0, <4>1, GoodEarlier
        <3> QED
            BY <1>1, <2>2, <3>1 DEF DurableInv, Good
    <2> QED
        BY <2>1, <2>2
<1> QED
    BY <1>1, <1>2, <1>3, <1>4, <1>5

\* Kept by the events of the stream.  No transaction is passed over: the GTIDs given
\* to the server are those of events that were read before.
LEMMA StreamDelivery == ASSUME TypeOK, GateInv, DeliveryInv, Streaming PROVE DeliveryInv'
<1>0. /\ Tip \in Nat /\ w \in CdcState /\ st \in CdcState /\ w.pos \in Nat /\ st.pos \in Nat
      /\ cursor \in Nat /\ cursor <= Tip
      /\ mirror \in Content /\ outcomes \in Outcomes
    BY WorkerFacts
<1>1. UNCHANGED mysql /\ LogInv /\ UNCHANGED <<pc, sent, openable, lapses>>
    BY DEF Streaming, SkipTransaction, GtidEvent, TableMapEvent, RowsEvent, RotateEvent, DeliveryInv
<1>2. pc = "stream" /\ cursor = w.pos /\ cursor < Tip
    BY DEF Streaming, SkipTransaction, GtidEvent, TableMapEvent, RowsEvent, RotateEvent, Sends, GateInv
<1>3. \A k : Sends(k) => cursor + 1 \in Positions(k)
    BY <1>0, TypeFacts DEF Sends, Positions, Tip
<1>4. \A k : Sends(k) /\ k # "row" => cursor + 1 \notin Positions("row")
    BY DEF Sends, Positions
<1>5. \A k : Sends(k) /\ k # "map" => cursor + 1 \notin Positions("map")
    BY DEF Sends, Positions
<1>6. /\ \A g \in w.gtids : g <= TxCount
      /\ lapses = {} => /\ Good(mirror, cursor) /\ Behind(w.gtids, cursor) /\ Behind(sent, cursor)
                        /\ openable /\ (cursor \in Positions("map") => maps)
    BY <1>2 DEF DeliveryInv, GtidInv, CoverInv, StageInv
<1>7. lapses = {} => Behind(w.gtids, cursor + 1)
    <2>1. \A i \in Positions("gtid") : i \in Nat
        BY TypeFacts
    <2> QED
        BY <1>0, <1>6, <2>1 DEF Behind
<1>8. ASSUME NEW k, k # "row", Sends(k), lapses = {} PROVE Good(mirror, cursor + 1)
    BY <1>0, <1>4, <1>6, <1>8, OtherDelivered
<1>9. cursor + 1 \in Nat /\ w.pos <= cursor + 1 /\ cursor <= cursor + 1
    BY <1>0, <1>2
<1>10. CASE SkipTransaction
    <2>1. PICK i \in Positions("row") : i > cursor /\ cursor' = i /\ w' = [w EXCEPT !.pos = i]
        BY <1>10 DEF SkipTransaction
    <2>2. lapses # {}
        <3>1. Sends("gtid") /\ log[cursor + 1].tx \in sent
            BY <1>10 DEF SkipTransaction
        <3>2. lapses = {} => cursor + 1 <= cursor
            BY <1>3, <1>6, <3>1 DEF Behind
        <3> QED
            BY <1>0, <3>2
    <2>3. i \in Nat /\ w'.pos = i /\ w'.anchored = w.anchored /\ w'.gtids = w.gtids
        BY <1>0, <2>1, TypeFacts DEF CdcState
    <2>4. (st' = st /\ hasty' = hasty) \/ (st' = w' /\ outcomes' = Settled(mirror'))
        BY <1>10 DEF SkipTransaction, Checkpoint
    <2>5. w.pos <= i
        BY <1>0, <1>2, <2>1, <2>3
    <2> QED
        BY <1>1, <1>2, <1>6, <2>1, <2>2, <2>3, <2>4, <2>5, EventDelivery
<1>11. CASE GtidEvent
    <2>1. /\ Sends("gtid") /\ cursor' = cursor + 1 /\ w'.pos = cursor + 1 /\ w'.anchored = w.anchored
          /\ w'.gtids \in {w.gtids, w.gtids \cup {log[cursor + 1].tx}}
          /\ mirror' = mirror /\ maps' = maps
          /\ (st' = st /\ hasty' = hasty /\ outcomes' = outcomes) \/ (st' = w' /\ outcomes' = Settled(mirror'))
        BY <1>0, <1>11 DEF GtidEvent, Advance, Checkpoint, CdcState
    <2>2. cursor + 1 \in Positions("gtid") /\ log[cursor + 1].tx <= TxCount
        BY <1>1, <1>3, <2>1 DEF LogInv
    <2>3. \A i \in Positions("gtid") : log[i].tx = log[cursor + 1].tx => i <= cursor + 1
        BY <1>1, <1>9, <2>2 DEF LogInv
    <2>4. lapses = {} => Behind(w'.gtids, cursor + 1)
        BY <1>7, <2>1, <2>3 DEF Behind
    <2>5. \A g \in w'.gtids : g <= TxCount
        BY <1>6, <2>1, <2>2
    <2>6. lapses = {} => Good(mirror', cursor + 1) /\ cursor + 1 \notin Positions("map")
        BY <1>5, <1>8, <2>1
    <2>7. \A p \in PK : outcomes'[p] \in {outcomes[p], {mirror'[p]}}
        BY <2>1 DEF Settled
    <2> QED
        BY <1>1, <1>2, <1>9, <2>1, <2>4, <2>5, <2>6, <2>7, EventDelivery
<1>12. CASE TableMapEvent
    <2>1. /\ Sends("map") /\ cursor' = cursor + 1 /\ w'.pos = cursor + 1 /\ w'.anchored = w.anchored
          /\ w'.gtids = w.gtids /\ mirror' = mirror /\ maps'
          /\ (st' = st /\ hasty' = hasty /\ outcomes' = outcomes) \/ (st' = w' /\ outcomes' = Settled(mirror'))
        BY <1>0, <1>12 DEF TableMapEvent, Advance, Checkpoint, CdcState
    <2>2. lapses = {} => Good(mirror', cursor + 1)
        BY <1>8, <2>1
    <2>3. \A p \in PK : outcomes'[p] \in {outcomes[p], {mirror'[p]}}
        BY <2>1 DEF Settled
    <2> QED
        BY <1>1, <1>2, <1>6, <1>7, <1>9, <2>1, <2>2, <2>3, EventDelivery
<1>13. CASE RotateEvent
    <2>1. /\ Sends("rotate") /\ cursor' = cursor + 1 /\ w'.pos = cursor + 1 /\ w'.anchored = w.anchored
          /\ w'.gtids = w.gtids /\ mirror' = mirror
          /\ st' = w' /\ outcomes' = Settled(mirror')
        BY <1>0, <1>13 DEF RotateEvent, Advance, Checkpoint, CdcState
    <2>2. lapses = {} => Good(mirror', cursor + 1) /\ cursor + 1 \notin Positions("map")
        BY <1>5, <1>8, <2>1
    <2>3. \A p \in PK : outcomes'[p] \in {outcomes[p], {mirror'[p]}}
        BY <2>1 DEF Settled
    <2> QED
        BY <1>1, <1>2, <1>6, <1>7, <1>9, <2>1, <2>2, <2>3, EventDelivery
<1>14. CASE RowsEvent
    <2> DEFINE row == log[cursor + 1].row
    <2>1. /\ Sends("row") /\ cursor' = cursor + 1 /\ w'.pos = cursor + 1 /\ w'.anchored = w.anchored
          /\ w'.gtids = w.gtids
        BY <1>0, <1>14 DEF RowsEvent, Advance, CdcState
    <2>2. maps => /\ mirror' = ApplyRow(mirror, row)
                  /\ \/ st' = st /\ hasty' = hasty /\ outcomes' = Uncertain(outcomes, row)
                     \/ st' = st /\ hasty' = hasty /\ outcomes' = Settled(mirror')
                     \/ st' = w' /\ outcomes' = Settled(mirror')
        BY <1>14 DEF RowsEvent, Checkpoint
    <2>3. (st' = st /\ hasty' = hasty) \/ (st' = w' /\ outcomes' = Settled(mirror'))
        BY <1>14 DEF RowsEvent, Checkpoint
    <2>4. cursor + 1 \in Positions("row") /\ cursor + 1 \notin Positions("map")
        BY <1>3, <1>5, <2>1
    <2>5. lapses = {} => maps
        <3>1. \A i : i = cursor + 1 => i - 1 = cursor
            BY <1>0
        <3>2. \A i \in Positions("row") : i - 1 \in Positions("map")
            BY <1>1 DEF LogInv
        <3>3. PICK i \in Positions("row") : i = cursor + 1
            BY <2>4
        <3>4. i - 1 \in Positions("map") /\ i - 1 = cursor
            BY <3>1, <3>2, <3>3
        <3>5. cursor \in Positions("map")
            BY <3>4
        <3> QED
            BY <1>6, <3>5
    <2>6. lapses = {} => Good(mirror', cursor + 1) /\ \A p \in PK : Changes(p, cursor) = {} => p # row.pk
        BY <1>0, <1>1, <1>6, <2>2, <2>4, <2>5, RowDelivered
    <2>7. ASSUME lapses = {}, NEW p \in PK, Changes(p, st.pos) = {}
          PROVE  outcomes'[p] \in {outcomes[p], {mirror'[p]}}
        <3>1. Changes(p, cursor) = {}
            <4>1. st.pos <= cursor
                BY <1>2, <2>7 DEF DeliveryInv, StageInv, Running
            <4>2. \A i \in Positions("row") : i \in Nat
                BY TypeFacts
            <4>3. Changes(p, cursor) \subseteq Changes(p, st.pos)
                BY <1>0, <4>1, <4>2 DEF Changes
            <4> QED
                BY <2>7, <4>3
        <3>2. p # row.pk
            BY <2>6, <2>7, <3>1
        <3>3. Uncertain(outcomes, row)[p] = outcomes[p]
            BY <1>0, <3>2 DEF Uncertain, Outcomes
        <3> QED
            BY <2>2, <2>5, <2>7, <3>3 DEF Settled
    <2> QED
        BY <1>1, <1>2, <1>6, <1>7, <1>9, <2>1, <2>3, <2>4, <2>6, <2>7, EventDelivery
<1> QED
    BY <1>10, <1>11, <1>12, <1>13, <1>14 DEF Streaming

\* Kept by the polls, the report, the loss of the stream, stops and crashes.
LEMMA StopDelivery ==
    ASSUME TypeOK, GateInv, DeliveryInv,
           Finishing \/ CatchUpPoll \/ IdlePoll \/ StreamEnds \/ StreamError \/ Halt \/ Crash
    PROVE  DeliveryInv'
<1>0. /\ Tip \in Nat /\ w \in CdcState /\ st \in CdcState /\ w.pos \in Nat /\ st.pos \in Nat
      /\ purged \in Nat /\ \A k : 0 \notin Positions(k)
      /\ mirror \in Content /\ outcomes \in Outcomes
    BY WorkerFacts
<1>1. UNCHANGED mysql /\ LogInv
    BY DEF Finishing, ReportLive, EnterStaticMode, CatchUpPoll, IdlePoll, StreamEnds, StreamError,
           Halt, Crash, DeliveryInv, vars
<1>2. /\ LogInv' /\ Tip' = Tip /\ TxCount' = TxCount /\ source' = source /\ purged' = purged
      /\ \A k : Positions(k)' = Positions(k)
      /\ \A p, q : Changes(p, q)' = Changes(p, q)
      /\ \A m, q : Good(m, q)' <=> Good(m, q)
      /\ \A g, q : Behind(g, q)' <=> Behind(g, q)
    BY <1>1, SameLog
<1>3. EmptyCdcState.gtids = {} /\ EmptyCdcState.pos = 0 /\ ~EmptyCdcState.anchored
    BY DEF EmptyCdcState
<1>4. lapses = {} /\ Good(mirror, w.pos) /\ pc \in Running => Good(mirror, st.pos)
    BY <1>0, GoodEarlier DEF DeliveryInv, StageInv
<1> USE DEF DeliveryInv
<1>5. CASE ReportLive
    <2>1. /\ pc = "report" /\ pc' = "stream"
          /\ UNCHANGED <<w, st, sent, cursor, maps, openable, mirror, lapses>>
          /\ (outcomes' = outcomes /\ hasty' = hasty) \/ outcomes' = Settled(mirror)
        BY <1>5 DEF ReportLive, stream
    <2>2. GtidInv'
        BY <1>2, <2>1 DEF GtidInv
    <2>3. StageInv'
        BY <1>2, <2>1 DEF StageInv, Running
    <2>4. CoverInv'
        BY <1>2, <2>1 DEF CoverInv, Running
    <2>5. lapses = {} => Good(mirror, st.pos)
        BY <1>4, <2>1 DEF CoverInv, Running
    <2>6. DurableInv'
        BY <1>2, <2>1, <2>5 DEF DurableInv, Settled, Good
    <2> QED
        BY <1>2, <2>2, <2>3, <2>4, <2>6
<1>6. CASE EnterStaticMode
    <2>1. /\ pc = "static" /\ pc' = "down" /\ w' = EmptyCdcState /\ sent' = {} /\ ~hasty'
          /\ outcomes' = Settled(mirror) /\ UNCHANGED <<st, openable, mirror, lapses>>
        BY <1>6 DEF EnterStaticMode, ProcessGone
    <2>2. GtidInv'
        BY <1>2, <1>3, <2>1 DEF GtidInv, Behind
    <2>3. StageInv'
        BY <1>0, <1>2, <1>3, <2>1 DEF StageInv, Running
    <2>4. CoverInv'
        BY <1>2, <2>1 DEF CoverInv, Running
    <2>5. lapses = {} /\ st.pos >= purged => Good(mirror, st.pos)
        BY <2>1 DEF CoverInv, StageInv, Running
    <2>6. DurableInv'
        BY <1>2, <2>1, <2>5 DEF DurableInv, Settled, Good
    <2> QED
        BY <1>2, <2>2, <2>3, <2>4, <2>6
<1>7. CASE CatchUpPoll
    <2>1. /\ pc = "stream" /\ UNCHANGED <<sent, cursor, maps, openable, mirror, outcomes, lapses>>
          /\ \/ UNCHANGED <<pc, w, st, hasty>>
             \/ /\ pc' = "report" /\ st' = w' /\ (~hasty' => ~Unflushed)
                /\ w'.anchored = w.anchored /\ w'.pos = w.pos /\ w'.gtids = w.gtids
        BY <1>0, <1>7 DEF CatchUpPoll, table, CdcState
    <2>2. GtidInv'
        BY <1>2, <2>1 DEF GtidInv
    <2>3. StageInv'
        BY <1>0, <1>2, <2>1 DEF StageInv, Running
    <2>4. CoverInv'
        BY <1>2, <2>1 DEF CoverInv, Running
    <2>5. DurableInv'
        BY <1>2, <2>1 DEF DurableInv, CoverInv, Unflushed, Good
    <2> QED
        BY <1>2, <2>2, <2>3, <2>4, <2>5
<1>8. CASE IdlePoll
    <2>1. UNCHANGED <<pc, w, st, sent, cursor, maps, openable, mirror, outcomes, hasty, lapses>>
        BY <1>8 DEF IdlePoll, vars, stream, table, history
    <2>2. pc = "stream"
        BY <1>8 DEF IdlePoll
    <2>3. GtidInv' /\ StageInv' /\ CoverInv' /\ DurableInv'
        BY <1>2, <2>1, <2>2 DEF GtidInv, StageInv, CoverInv, DurableInv, Running
    <2> QED
        BY <1>2, <2>3
<1>9. CASE StreamEnds \/ StreamError
    <2>1. /\ pc = "stream" /\ pc' \in {"connect", "static"} /\ st' = w /\ (~hasty' => ~Unflushed)
          /\ UNCHANGED <<w, sent, cursor, maps, openable, mirror, outcomes, lapses>>
        BY <1>9 DEF StreamEnds, StreamError, stream, table
    <2>2. GtidInv'
        BY <1>2, <2>1 DEF GtidInv
    <2>3. StageInv'
        BY <1>0, <1>2, <2>1 DEF StageInv, Running
    <2>4. CoverInv'
        BY <1>2, <2>1 DEF CoverInv, Running
    <2>5. DurableInv'
        BY <1>2, <2>1 DEF DurableInv, CoverInv, Unflushed, Good
    <2> QED
        BY <1>2, <2>2, <2>3, <2>4, <2>5
<1>10. CASE Halt
    <2>1. /\ pc \in {"copy", "connect", "stream"} /\ pc' = "down" /\ w' = EmptyCdcState /\ sent' = {} /\ ~hasty'
          /\ st' = w /\ outcomes' = Settled(mirror) /\ UNCHANGED <<openable, mirror, lapses>>
        BY <1>10 DEF Halt, ProcessGone
    <2>2. GtidInv'
        BY <1>2, <1>3, <2>1 DEF GtidInv, Behind
    <2>3. StageInv'
        BY <1>0, <1>2, <1>3, <2>1 DEF StageInv, Running
    <2>4. CoverInv'
        BY <1>2, <2>1 DEF CoverInv, Running
    <2>5. lapses = {} /\ w.anchored /\ w.pos >= purged => Good(mirror, w.pos)
        BY <2>1 DEF CoverInv, StageInv, Running
    <2>6. DurableInv'
        BY <1>2, <2>1, <2>5 DEF DurableInv, Settled, Good
    <2> QED
        BY <1>2, <2>2, <2>3, <2>4, <2>6
<1>11. CASE Crash
    <2>1. /\ pc' = "down" /\ w' = EmptyCdcState /\ sent' = {} /\ ~hasty' /\ st' = st
          /\ outcomes' = Settled(mirror') /\ \A p \in PK : mirror'[p] \in outcomes[p]
          /\ lapses' = {} => lapses = {} /\ ~hasty /\ (openable => openable')
        BY <1>11 DEF Crash, ProcessGone, LapseIf
    <2>2. GtidInv'
        BY <1>2, <1>3, <2>1 DEF GtidInv, Behind
    <2>3. StageInv'
        BY <1>0, <1>2, <1>3, <2>1 DEF StageInv, Running
    <2>4. CoverInv'
        BY <1>2, <2>1 DEF CoverInv, Running
    <2>5. DurableInv'
        BY <1>2, <2>1 DEF DurableInv, Settled
    <2> QED
        BY <1>2, <2>2, <2>3, <2>4, <2>5
<1> QED
    BY <1>5, <1>6, <1>7, <1>8, <1>9, <1>10, <1>11 DEF Finishing

\* The invariant holds initially: nothing was logged, nothing is anchored.
LEMMA DeliveryInit == Init => DeliveryInv
<1> SUFFICES ASSUME Init PROVE DeliveryInv
    OBVIOUS
<1>1. log = <<>> /\ \A k : Positions(k) = {}
    BY DEF Init, Positions
<1>2. w = EmptyCdcState /\ st = EmptyCdcState /\ sent = {} /\ pc = "down"
    BY DEF Init
<1>3. EmptyCdcState.gtids = {} /\ EmptyCdcState.pos = 0 /\ ~EmptyCdcState.anchored
    BY DEF EmptyCdcState
<1>4. LogInv /\ GtidInv
    BY <1>1, <1>2, <1>3 DEF LogInv, GtidInv, Behind
<1>5. StageInv
    BY <1>1, <1>2, <1>3 DEF StageInv, Running, Init
<1>6. CoverInv /\ DurableInv
    BY <1>2, <1>3 DEF CoverInv, DurableInv, Running
<1> QED
    BY <1>4, <1>5, <1>6 DEF DeliveryInv

\* run_impl as a whole: while streaming, a key with no change left to deliver reads
\* as in MySQL, for any keys, binlogs, crashes, lost streams, rebuilds and settings,
\* unless one of the gaps that the model names was hit.
THEOREM DeliveryTheorem == Spec => []DeliveredKeysAreCurrent
<1>1. TypeOK /\ GateInv /\ DeliveryInv /\ [Next]_vars => DeliveryInv'
    <2> SUFFICES ASSUME TypeOK, GateInv, DeliveryInv, [Next]_vars PROVE DeliveryInv'
        OBVIOUS
    <2>1. CASE MySQL
        BY <2>1, MySQLDelivery
    <2>2. CASE Worker
        BY <2>2, StartDelivery, ConnectDelivery, StreamDelivery, StopDelivery DEF Worker
    <2>3. CASE CatchUpPoll \/ IdlePoll \/ StreamEnds \/ StreamError \/ Halt \/ Crash
        BY <2>3, StopDelivery
    <2>4. CASE UNCHANGED vars
        <3>1. UNCHANGED mysql
            BY <2>4 DEF vars
        <3>2. /\ LogInv' /\ purged' = purged /\ source' = source /\ TxCount' = TxCount
              /\ \A k : Positions(k)' = Positions(k)
              /\ \A p, q : Changes(p, q)' = Changes(p, q)
              /\ \A m, q : Good(m, q)' <=> Good(m, q)
              /\ \A g, q : Behind(g, q)' <=> Behind(g, q)
            BY <3>1, SameLog DEF DeliveryInv
        <3>3. UNCHANGED <<pc, w, st, sent, cursor, maps, openable, mirror, outcomes, hasty, lapses, snap, coords>>
            BY <2>4 DEF vars, stream, table, history, copy
        <3> QED
            BY <3>2, <3>3 DEF DeliveryInv, GtidInv, StageInv, CoverInv, DurableInv, Running, Settled
    <2> QED
        BY <2>1, <2>2, <2>3, <2>4 DEF Next
<1>2. TypeOK /\ GateInv /\ [Next]_vars => GateInv'
    BY GateStep
<1>3. GateInv /\ DeliveryInv => DeliveredKeysAreCurrent
    <2> SUFFICES ASSUME GateInv, DeliveryInv, InStream, lapses = {}, NEW p \in PK PROVE Current(p)
        BY DEF DeliveredKeysAreCurrent
    <2>1. pc \in {"stream", "report"} /\ cursor = w.pos
        BY DEF InStream, GateInv
    <2> QED
        BY <2>1 DEF DeliveryInv, CoverInv, Good, Current
<1> QED
    BY <1>1, <1>2, <1>3, DeliveryInit, GateInit, CdcTypeCorrect, PTL DEF Spec
=============================================================================
