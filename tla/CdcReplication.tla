--------------------------- MODULE CdcReplication ---------------------------
(***************************************************************************)
(* One CDC worker (run_impl of core/cdc/mod.rs) replicating one MySQL      *)
(* table into a mirror: snapshot, checkpoint, binlog stream, catch-up      *)
(* gate, reconnects, rebuild after checkpoint loss, shutdowns and crashes. *)
(*                                                                         *)
(* The binlog is a sequence of events and a position is the number of      *)
(* events before it.  The mirror is what MirrorTable keeps of its promise: *)
(* a flush makes the contents durable, and a crash before it leaves, per   *)
(* touched key, any of the contents since the last flush (an update also   *)
(* no row at all), and possibly a log that cannot be opened.               *)
(***************************************************************************)
EXTENDS Naturals, Sequences, FiniteSets

CONSTANTS
    PK,             \* primary key values
    Val,            \* row contents apart from the key
    NoVal,          \* "no row"
    GtidMode,       \* master_gtid_enabled
    ResyncOnGap,    \* ~BITTICE_CDC_SKIP_MIRROR_RESYNC_ON_GAP
    WaitForResume,  \* BITTICE_STAGED_WAIT_FOR_RESUME_CATCHUP
    MaxTx,          \* bound: transactions committed by MySQL
    MaxRotates,     \* bound: binlog files closed
    MaxCrashes,     \* bound: process deaths
    MaxDrops        \* bound: stream ends, stream errors and orderly stops

ASSUME NoValIsNoValue == NoVal \notin Val
ASSUME ModesAreBoolean == {GtidMode, ResyncOnGap, WaitForResume} \subseteq BOOLEAN
ASSUME CdcBoundsAreNat == {MaxTx, MaxRotates, MaxCrashes, MaxDrops} \subseteq Nat

VARIABLES
    log,       \* MySQL: the binlog
    source,    \* MySQL: the table
    purged,    \* MySQL: events no longer on the server
    pc,        \* where run_impl is
    w,         \* the worker's CdcState
    st,        \* cdc_state.json
    cursor,    \* the stream: events sent or skipped so far
    sent,      \* the stream: the GTID set it was opened with
    maps,      \* table_map_events holds the table's map
    streak,    \* repl_caught_up_streak
    reported,  \* live_startup_reported: the HTTP port may open
    snap,      \* the open consistent snapshot: its rows and when it was taken
    coords,    \* coords_pre_bootstrap
    mirror,    \* what readers of the mirror see, per key
    outcomes,  \* what they may see after a crash, per key
    openable,  \* Table::open succeeds
    crashes,   \* process deaths so far          (bounded by MaxCrashes)
    drops,     \* streams lost, orderly stops    (bounded by MaxDrops)
    hasty,     \* history: st was saved ahead of a flush
    window,    \* history: the binlog's length when the last copy was anchored
    lapses     \* history: the gaps below that were hit

mysql == <<log, source, purged>>
stream == <<cursor, sent, maps, streak>>
copy == <<snap, coords>>
table == <<mirror, outcomes, openable>>
bounds == <<crashes, drops>>
history == <<hasty, window, lapses>>
vars == <<mysql, pc, w, st, stream, reported, copy, table, bounds, history>>

-----------------------------------------------------------------------------
(* Data *)

\* Row events, and the events of one transaction: its GTID (an anonymous one
\* without GTID_MODE), the table map and the row.
NoRow == [op |-> "none", pk |-> NoVal, val |-> NoVal]
RowChange(op, pk, v) == [op |-> op, pk |-> pk, val |-> v]
Event(kind, tx, row) == [kind |-> kind, tx |-> tx, row |-> row]
TxEvents(n, row) == <<Event("gtid", n, NoRow), Event("map", n, NoRow), Event("row", n, row)>>

Positions(kind) == {i \in DOMAIN log : log[i].kind = kind}
Tip == Len(log)
TxCount == Cardinality(Positions("gtid"))
Changes(pk, after) == {i \in Positions("row") : i > after /\ log[i].row.pk = pk}

\* CdcState.  "anchored" is ~binlog_file.is_empty().
EmptyCdcState == [anchored |-> FALSE, pos |-> 0, gtids |-> {}, boot |-> FALSE, pending |-> FALSE]
NoSnapshot == [rows |-> [p \in PK |-> NoVal], at |-> 0]
\* Mutated form of AnchoredAt: the position of the next event is taken.
AnchoredAtNext(s, p) == [s EXCEPT !.anchored = TRUE, !.pos = p + 1]

AnchoredAt(s, p) == [s EXCEPT !.anchored = TRUE, !.pos = p]

\* cdc_replication_caught_up_to_tip
CaughtUp(s) == s.anchored /\ s.pos >= Tip

Settled(m) == [p \in PK |-> {m[p]}]
Unflushed == \E p \in PK : outcomes[p] # {mirror[p]}

LapseNames == {"snapshotGap", "orphanCopy", "clearedPending", "midTransaction",
               "hastySave", "unopenable", "tipAnchor"}
LapseIf(x, cond) == IF cond THEN {x} ELSE {}

-----------------------------------------------------------------------------
(* MySQL *)

Commit(pk, v) ==
    /\ TxCount < MaxTx /\ v # source[pk]
    /\ LET op == IF v = NoVal THEN "delete" ELSE IF source[pk] = NoVal THEN "write" ELSE "update"
       IN  log' = log \o TxEvents(TxCount + 1, RowChange(op, pk, v))
    /\ source' = [source EXCEPT ![pk] = v]
    /\ UNCHANGED <<purged, pc, w, st, stream, reported, copy, table, bounds, history>>

RotateLog ==
    /\ Cardinality(Positions("rotate")) < MaxRotates
    /\ log' = Append(log, Event("rotate", 0, NoRow))
    /\ UNCHANGED <<source, purged, pc, w, st, stream, reported, copy, table, bounds, history>>

\* Closed files are purged as a whole.
PurgeLogs ==
    /\ \E i \in Positions("rotate") : purged < i /\ purged' = i
    /\ UNCHANGED <<log, source, pc, w, st, stream, reported, copy, table, bounds, history>>

-----------------------------------------------------------------------------
(* Starting *)

\* load_state, and START TRANSACTION WITH CONSISTENT SNAPSHOT when there is no
\* checkpoint.  A table in bootstrapped_tables is not copied again.
StartFresh ==
    /\ pc = "down" /\ ~st.anchored
    /\ w' = st
    /\ snap' = [rows |-> source, at |-> Tip] /\ pc' = "snapshot"
    /\ lapses' = lapses \cup LapseIf("orphanCopy", st.boot)
    /\ UNCHANGED <<mysql, st, stream, reported, coords, table, bounds, hasty, window>>

\* load_state with a checkpoint: a pending catch-up is taken for stale and
\* cleared; BITTICE_STAGED_WAIT_FOR_RESUME_CATCHUP sets it again if there is a gap.
Resume ==
    /\ pc = "down" /\ st.anchored
    /\ w' = [st EXCEPT !.pending = WaitForResume /\ ~CaughtUp(st)]
    /\ st' = w' /\ pc' = "connect"
    /\ lapses' = lapses
           \cup LapseIf("clearedPending", st.pending /\ ~w'.pending /\ st.pos < window)
           \cup LapseIf("midTransaction", st.pos \in Positions("map"))
    /\ UNCHANGED <<mysql, stream, reported, copy, table, bounds, hasty, window>>

\* query_master_coordinates inside the snapshot.  START TRANSACTION takes no
\* lock, so MySQL may have committed since.
ReadCoordinates ==
    /\ pc \in {"snapshot", "resnapshot"}
    /\ coords' = Tip
    /\ pc' = IF pc = "snapshot" THEN "copy" ELSE "recopy"
    /\ lapses' = lapses \cup LapseIf("snapshotGap", Tip > snap.at)
    /\ UNCHANGED <<mysql, w, st, stream, reported, snap, table, bounds, hasty, window>>

\* bootstrap_table in FullSnapshot mode (wiped, filled from SELECT *, flushed and
\* closed), the save of bootstrapped_tables that follows it at startup, and the
\* COMMIT of the snapshot.  A crash halfway is one before the save.
CopyTable ==
    LET copies == pc = "recopy" \/ ~w.boot IN
    /\ pc \in {"copy", "recopy"}
    /\ copies => openable
    /\ IF copies THEN mirror' = snap.rows /\ outcomes' = Settled(snap.rows) /\ hasty' = FALSE
                 ELSE UNCHANGED <<mirror, outcomes, hasty>>
    /\ w' = [w EXCEPT !.boot = TRUE]
    /\ st' = IF pc = "copy" THEN w' ELSE st
    /\ pc' = "anchor"
    /\ UNCHANGED <<mysql, stream, reported, copy, openable, bounds, window, lapses>>

\* Mutated form of Anchor: gtid_executed is seeded from the server after the copy.
AnchorSeedsGtids ==
    /\ pc = "anchor"
    /\ w' = [AnchoredAt(w, coords) EXCEPT !.gtids = {log[i].tx : i \in Positions("gtid")}, !.pending = TRUE]
    /\ st' = w' /\ pc' = "connect" /\ hasty' = (hasty \/ Unflushed)
    /\ window' = Tip /\ snap' = NoSnapshot /\ coords' = 0
    /\ UNCHANGED <<mysql, stream, reported, table, bounds, lapses>>

\* The checkpoint after a copy: the snapshot's coordinates, no GTIDs, catch-up
\* pending.
Anchor ==
    /\ pc = "anchor"
    /\ w' = [AnchoredAt(w, coords) EXCEPT !.gtids = {}, !.pending = TRUE]
    /\ st' = w' /\ pc' = "connect" /\ hasty' = (hasty \/ Unflushed)
    /\ window' = Tip /\ snap' = NoSnapshot /\ coords' = 0
    /\ UNCHANGED <<mysql, stream, reported, table, bounds, lapses>>

-----------------------------------------------------------------------------
(* Connecting *)

\* resolve_binlog_position after the checkpoint was discarded ...
ResolvePosition ==
    /\ pc = "connect" /\ ~w.anchored
    /\ w' = AnchoredAt(w, Tip)
    /\ pc' = IF GtidMode THEN "capture" ELSE "connect"
    /\ UNCHANGED <<mysql, st, stream, reported, copy, table, bounds, history>>

\* ... and its maybe_capture_gtid_executed, a later query.
CaptureGtids ==
    /\ pc = "capture"
    /\ w' = [w EXCEPT !.gtids = {log[i].tx : i \in Positions("gtid")}]
    /\ pc' = "connect"
    /\ UNCHANGED <<mysql, st, stream, reported, copy, table, bounds, history>>

\* get_binlog_stream from the saved file and position, and the live report.
OpenStream ==
    /\ pc = "connect" /\ w.anchored
    /\ cursor' = w.pos /\ streak' = 0
    /\ sent' = IF GtidMode THEN w.gtids ELSE {}
    /\ reported' = (reported \/ ~w.pending)
    /\ pc' = "opened"
    /\ UNCHANGED <<mysql, w, st, maps, copy, table, bounds, history>>

\* The artificial RotateEvent the server sends first; as on every RotateEvent the
\* tables are flushed and the state is saved.
FakeRotateEvent ==
    /\ pc = "opened" /\ w.pos >= purged
    /\ outcomes' = Settled(mirror) /\ hasty' = FALSE /\ st' = w
    /\ pc' = "stream"
    /\ UNCHANGED <<mysql, w, stream, reported, copy, mirror, openable, bounds, window, lapses>>

\* Error 1236, when the stream is requested or as the first thing read from it.
Stale == pc \in {"connect", "opened"} /\ w.anchored /\ w.pos < purged
Resyncs == ResyncOnGap /\ w.boot

\* Error 1236, resync_mirror_after_checkpoint_loss_mvcc: wipe (skipped when the
\* table cannot be opened), then snapshot; ReadCoordinates, CopyTable and Anchor
\* follow.
Resync ==
    /\ Stale /\ Resyncs
    /\ IF openable THEN /\ mirror' = [p \in PK |-> NoVal]
                        /\ outcomes' = Settled(mirror') /\ hasty' = FALSE
                   ELSE UNCHANGED <<mirror, outcomes, hasty>>
    /\ snap' = [rows |-> source, at |-> Tip] /\ pc' = "resnapshot"
    /\ UNCHANGED <<mysql, w, st, stream, reported, coords, openable, bounds, window, lapses>>

\* Error 1236 without a rebuild, or a rebuild that failed because the table does
\* not open: the checkpoint is discarded.
DiscardCheckpoint ==
    /\ (Stale /\ ~Resyncs) \/ (pc = "recopy" /\ ~openable)
    /\ w' = [w EXCEPT !.anchored = FALSE, !.pos = 0, !.gtids = {}]
    /\ st' = w' /\ pc' = "connect" /\ hasty' = (hasty \/ Unflushed)
    /\ lapses' = lapses \cup {"tipAnchor"} /\ snap' = NoSnapshot /\ coords' = 0
    /\ UNCHANGED <<mysql, stream, reported, table, bounds, window>>

-----------------------------------------------------------------------------
(* Streaming *)

\* handle_rows_event on the mirror.  An UPDATE of a key the mirror lacks is
\* completed from MySQL, and skipped if MySQL has no such row any more.
Applies(row) ==
    openable /\ (row.op = "update" /\ mirror[row.pk] = NoVal => source[row.pk] # NoVal)
ApplyRow(m, row) == IF Applies(row) THEN [m EXCEPT ![row.pk] = row.val] ELSE m
Uncertain(oc, row) ==
    IF Applies(row) THEN [oc EXCEPT ![row.pk] = @ \cup {row.val, NoVal}] ELSE oc

\* The end of the event loop: flush_all_mirror_tables, then save_state, on every
\* rotation and whenever the interval or the burst limit is reached.
Checkpoint(s, m, oc, due) ==
    \/ ~due /\ st' = st /\ outcomes' = oc /\ hasty' = hasty
    \/ st' = s /\ outcomes' = Settled(m) /\ hasty' = FALSE

Sends(kind) == pc = "stream" /\ cursor < Tip /\ log[cursor + 1].kind = kind
Advance == cursor' = cursor + 1 /\ streak' = IF w.pending THEN 0 ELSE streak

\* The server passes over a transaction in the GTID set it was given; the
\* heartbeat it sends instead carries the position.
SkipTransaction ==
    /\ Sends("gtid") /\ log[cursor + 1].tx \in sent
    /\ \E i \in Positions("row") :
          /\ i > cursor /\ log[i].tx = log[cursor + 1].tx
          /\ cursor' = i /\ w' = [w EXCEPT !.pos = i]
    /\ streak' = IF w.pending THEN 0 ELSE streak
    /\ Checkpoint(w', mirror, outcomes, FALSE)
    /\ UNCHANGED <<mysql, pc, sent, maps, reported, copy, mirror, openable, bounds, window, lapses>>

\* EventData::GtidEvent, merged into gtid_executed before the rows that follow.
GtidEvent ==
    /\ Sends("gtid") /\ log[cursor + 1].tx \notin sent
    /\ Advance
    /\ w' = [w EXCEPT !.pos = cursor + 1,
                      !.gtids = IF GtidMode THEN @ \cup {log[cursor + 1].tx} ELSE @]
    /\ Checkpoint(w', mirror, outcomes, FALSE)
    /\ UNCHANGED <<mysql, pc, sent, maps, reported, copy, mirror, openable, bounds, window, lapses>>

\* EventData::TableMapEvent
TableMapEvent ==
    /\ Sends("map")
    /\ Advance /\ maps' = TRUE /\ w' = [w EXCEPT !.pos = cursor + 1]
    /\ Checkpoint(w', mirror, outcomes, FALSE)
    /\ UNCHANGED <<mysql, pc, sent, reported, copy, mirror, openable, bounds, window, lapses>>

\* EventData::RowsEvent: skipped without a table map and when the table cannot be
\* opened; otherwise applied, with the table's own flush from time to time.
RowsEvent ==
    LET row == log[cursor + 1].row IN
    /\ Sends("row")
    /\ Advance /\ w' = [w EXCEPT !.pos = cursor + 1]
    /\ IF maps
       THEN /\ mirror' = ApplyRow(mirror, row)
            /\ \E oc \in {Uncertain(outcomes, row), Settled(mirror')} :
                   Checkpoint(w', mirror', oc, FALSE)
       ELSE /\ mirror' = mirror
            /\ Checkpoint(w', mirror, outcomes, FALSE)
    /\ UNCHANGED <<mysql, pc, sent, maps, reported, copy, openable, bounds, window, lapses>>

\* EventData::RotateEvent
RotateEvent ==
    /\ Sends("rotate")
    /\ Advance /\ maps' = FALSE /\ w' = [w EXCEPT !.pos = cursor + 1]
    /\ Checkpoint(w', mirror, outcomes, TRUE)
    /\ UNCHANGED <<mysql, pc, sent, reported, copy, mirror, openable, bounds, window, lapses>>

\* Mutated form of CatchUpPoll: the coordinates are not compared.
CatchUpPollUnchecked ==
    /\ pc = "stream" /\ w.pending
    /\ IF streak = 0
       THEN streak' = 1 /\ UNCHANGED <<pc, w, st, hasty>>
       ELSE /\ streak' = 0 /\ pc' = "report"
            /\ w' = [w EXCEPT !.pending = FALSE]
            /\ st' = w' /\ hasty' = (hasty \/ Unflushed)
    /\ UNCHANGED <<mysql, cursor, sent, maps, reported, copy, table, bounds, window, lapses>>

\* Mutated form of CatchUpPoll: the streak never reaches two.
CatchUpPollForgets ==
    /\ pc = "stream" /\ w.pending
    /\ streak' = 0
    /\ UNCHANGED <<mysql, pc, w, st, hasty, cursor, sent, maps, reported, copy, table, bounds, window, lapses>>

\* The idle branch while catch-up is pending: two polls in a row at the server's
\* tip, with no event between them, end it.  The state is saved here ...
CatchUpPoll ==
    /\ pc = "stream" /\ w.pending
    /\ IF ~CaughtUp(w)
       THEN streak' = 0 /\ UNCHANGED <<pc, w, st, hasty>>
       ELSE IF streak = 0
       THEN streak' = 1 /\ UNCHANGED <<pc, w, st, hasty>>
       ELSE /\ streak' = 0 /\ pc' = "report"
            /\ w' = [w EXCEPT !.pending = FALSE]
            /\ st' = w' /\ hasty' = (hasty \/ Unflushed)
    /\ UNCHANGED <<mysql, cursor, sent, maps, reported, copy, table, bounds, window, lapses>>

\* ... and, the first time, the tables are flushed and the report is sent.
ReportLive ==
    /\ pc = "report"
    /\ IF reported THEN UNCHANGED <<outcomes, hasty>>
                   ELSE outcomes' = Settled(mirror) /\ hasty' = FALSE
    /\ reported' = TRUE /\ pc' = "stream"
    /\ UNCHANGED <<mysql, w, st, stream, copy, mirror, openable, bounds, window, lapses>>

\* The idle branch otherwise: the MySQL host answers the health check.
IdlePoll ==
    /\ pc = "stream" /\ cursor = Tip /\ ~w.pending
    /\ UNCHANGED vars

-----------------------------------------------------------------------------
(* Losing the stream, stopping, dying *)

\* The worker's memory goes with the process.
ProcessGone ==
    /\ pc' = "down" /\ w' = EmptyCdcState /\ reported' = FALSE
    /\ cursor' = 0 /\ sent' = {} /\ maps' = FALSE /\ streak' = 0
    /\ snap' = NoSnapshot /\ coords' = 0

\* stream.next() is None, or the stream is silent too long: save and reconnect.
StreamEnds ==
    /\ pc = "stream" /\ drops < MaxDrops
    /\ st' = w /\ hasty' = (hasty \/ Unflushed) /\ pc' = "connect"
    /\ drops' = drops + 1
    /\ UNCHANGED <<mysql, w, stream, reported, copy, table, crashes, window, lapses>>

\* A stream error or too many failed health checks: save, then ...
StreamError ==
    /\ pc = "stream" /\ drops < MaxDrops
    /\ st' = w /\ hasty' = (hasty \/ Unflushed) /\ pc' = "static"
    /\ drops' = drops + 1
    /\ UNCHANGED <<mysql, w, stream, reported, copy, table, crashes, window, lapses>>

\* ... enter_static_mode: flush and stop the engine.
EnterStaticMode ==
    /\ pc = "static"
    /\ outcomes' = Settled(mirror) /\ hasty' = FALSE /\ ProcessGone
    /\ UNCHANGED <<mysql, st, mirror, openable, bounds, window, lapses>>

\* engine_halt_requested: fast_exit_flush, save, return.
Halt ==
    /\ pc \in {"copy", "connect", "stream"} /\ drops < MaxDrops
    /\ outcomes' = Settled(mirror) /\ hasty' = FALSE
    /\ st' = w /\ drops' = drops + 1 /\ ProcessGone
    /\ UNCHANGED <<mysql, mirror, openable, crashes, window, lapses>>

\* SIGKILL, OOM or panic.
Crash ==
    /\ pc # "down" /\ crashes < MaxCrashes
    /\ mirror' \in {m \in [PK -> Val \cup {NoVal}] : \A p \in PK : m[p] \in outcomes[p]}
    /\ outcomes' = Settled(mirror')
    /\ \E broken \in {FALSE, Unflushed} :
          /\ openable' = (openable /\ ~broken)
          /\ lapses' = lapses \cup LapseIf("unopenable", broken) \cup LapseIf("hastySave", hasty)
    /\ hasty' = FALSE /\ crashes' = crashes + 1 /\ ProcessGone
    /\ UNCHANGED <<mysql, st, drops, window>>

-----------------------------------------------------------------------------

Init ==
    /\ log = <<>> /\ source \in [PK -> Val \cup {NoVal}] /\ purged = 0
    /\ pc = "down" /\ w = EmptyCdcState /\ st = EmptyCdcState
    /\ cursor = 0 /\ sent = {} /\ maps = FALSE /\ streak = 0 /\ reported = FALSE
    /\ mirror = [p \in PK |-> NoVal] /\ outcomes = Settled(mirror) /\ openable = TRUE
    /\ snap = NoSnapshot /\ coords = 0 /\ window = 0
    /\ crashes = 0 /\ drops = 0 /\ hasty = FALSE /\ lapses = {}

MySQL == (\E p \in PK, v \in Val \cup {NoVal} : Commit(p, v)) \/ RotateLog \/ PurgeLogs

Starting == StartFresh \/ Resume \/ ReadCoordinates \/ CopyTable \/ Anchor
Connecting == ResolvePosition \/ CaptureGtids \/ OpenStream \/ FakeRotateEvent
              \/ Resync \/ DiscardCheckpoint
Streaming == SkipTransaction \/ GtidEvent \/ TableMapEvent \/ RowsEvent \/ RotateEvent
Finishing == ReportLive \/ EnterStaticMode

\* What the worker does by itself; "down" is left because the container is
\* restarted.
Worker == Starting \/ Connecting \/ Streaming \/ Finishing

Next ==
    \/ MySQL \/ Worker \/ CatchUpPoll \/ IdlePoll
    \/ StreamEnds \/ StreamError \/ Halt \/ Crash

Spec == Init /\ [][Next]_vars

\* The worker is one task that is always scheduled, and its idle branch runs
\* every 50 ms while nothing arrives.
FairSpec == Spec /\ WF_vars(Worker) /\ WF_vars(CatchUpPoll)

-----------------------------------------------------------------------------
(* Properties *)

CdcState == [anchored : BOOLEAN, pos : Nat, gtids : SUBSET Nat, boot : BOOLEAN, pending : BOOLEAN]
BinlogRow == [op : {"none", "write", "update", "delete"}, pk : PK \cup {NoVal}, val : Val \cup {NoVal}]
BinlogEvent == [kind : {"gtid", "map", "row", "rotate"}, tx : Nat, row : BinlogRow]

\* Every variable of the worker, of MySQL and of the mirror has its type, and no
\* position lies beyond the end of the binlog.
TypeOK ==
    /\ log \in Seq(BinlogEvent) /\ source \in [PK -> Val \cup {NoVal}] /\ purged \in 0 .. Tip
    /\ pc \in {"down", "snapshot", "resnapshot", "copy", "recopy", "anchor", "connect",
               "capture", "opened", "stream", "report", "static"}
    /\ w \in CdcState /\ w.pos <= Tip /\ st \in CdcState /\ st.pos <= Tip
    /\ cursor \in 0 .. Tip /\ sent \subseteq Nat /\ maps \in BOOLEAN
    /\ streak \in {0, 1} /\ reported \in BOOLEAN
    /\ snap \in [rows : [PK -> Val \cup {NoVal}], at : 0 .. Tip]
    /\ coords \in 0 .. Tip /\ window \in 0 .. Tip
    /\ mirror \in [PK -> Val \cup {NoVal}]
    /\ outcomes \in [PK -> SUBSET (Val \cup {NoVal})] /\ openable \in BOOLEAN
    /\ crashes \in 0 .. MaxCrashes /\ drops \in 0 .. MaxDrops
    /\ hasty \in BOOLEAN /\ lapses \subseteq LapseNames

InStream == pc \in {"stream", "report"}
Current(pk) == Changes(pk, cursor) = {} => mirror[pk] = source[pk]

\* run_impl as a whole: while streaming, a key with no change left to deliver
\* reads as in MySQL, whatever snapshots, redeliveries, reconnects, rebuilds and
\* crashes came before, unless one of the named gaps was hit.
DeliveredKeysAreCurrent == InStream /\ lapses = {} => \A p \in PK : Current(p)

\* The catch-up gate: the first live report of a process, which opens the HTTP
\* port, is sent only when the events of the copy's time have been delivered.
ReportsAfterCatchUp ==
    "clearedPending" \notin lapses /\ reported' /\ ~reported => w.pos >= window
GateHolds == [][ReportsAfterCatchUp]_vars

\* When MySQL falls silent and the process stays up, the worker reports live and
\* the mirror ends up equal to the source, unless a named gap was hit.
EventuallyLiveAndEqual == <>[](reported /\ (lapses = {} => mirror = source))
=============================================================================
