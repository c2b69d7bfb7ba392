----------------------------- MODULE TableCache -----------------------------
(***************************************************************************)
(* The cache of open tables shared by the CDC workers, the HTTP and gRPC   *)
(* handlers and the startup compaction: TableManager of                    *)
(* server/table_manager.rs, with the calls those threads make around it.   *)
(*                                                                         *)
(* A table is handed out as an Arc, so an instance removed from the cache  *)
(* lives on while a thread holds it, and its Drop calls Table::close once  *)
(* more.  Locks are read off the program counters:                         *)
(*   - the per-key mutex of opening_locks in KeyHeld;                      *)
(*   - the RwLock tables, written in TablesWritten, read in "flushing"     *)
(*     (the other acquisitions begin and end within one step);             *)
(*   - the RwLock of each instance in "writing" and "reading".             *)
(* The order of two waiting threads is left open, as std::sync leaves it.  *)
(***************************************************************************)
EXTENDS Naturals, FiniteSets

CONSTANTS
    Key,        \* "entity/table"
    Worker,     \* CDC workers, one per source database
    Client,     \* request handlers and the startup compaction
    Owner,      \* the worker that applies a table's events
    Inst,       \* identities of Table values; reused once nobody holds one
    None,
    MaxOpenHard,  \* BITTICE_MAX_OPEN_TABLES
    Buffer,       \* BITTICE_OPS_CACHE_BUFFER
    OpsChoices,   \* the sets of tables .bittice_ops.json may name
    MaxCalls,     \* bound: calls made by all threads
    MaxRefresh    \* bound: reloads of .bittice_ops.json

Thread == Worker \cup Client

ASSUME OwnersAreWorkers == Owner \in [Key -> Worker]
ASSUME RolesAreDisjoint == Worker \cap Client = {}
ASSUME FinitelyMany == IsFiniteSet(Key) /\ IsFiniteSet(Worker) /\ IsFiniteSet(Client)
ASSUME NoneIsNobody == None \notin Key /\ None \notin Inst
ASSUME LimitsAreNat == MaxOpenHard \in Nat /\ Buffer \in Nat
ASSUME OpsNameTables == OpsChoices \subseteq SUBSET Key
ASSUME CacheBoundsAreNat == MaxCalls \in Nat /\ MaxRefresh \in Nat

VARIABLES
    cache,      \* tables: the instance cached for a key, or None
    openCount,  \* open_count
    dirty,      \* dirty_tables
    ops,        \* query_priority_keys, {} for None
    cdcActive,  \* cdc_active_tables
    inst,       \* the Table values, by identity
    pc, call, key, ref, surplus, todo,  \* per thread: where it is, what it runs, its locals
    lost,       \* history: tables whose rows were applied to a closed instance
    calls, refreshes

manager == <<cache, openCount, dirty, ops, cdcActive>>
locals == <<call, key, ref, surplus, todo>>
bounds == <<calls, refreshes>>
vars == <<manager, inst, pc, locals, lost, bounds>>

-----------------------------------------------------------------------------
(* State                                                                   *)

WorkerCalls == {"rows", "bootstrap", "checkpoint"}
ClientCalls == {"query", "compact"}

PCs == {"idle", "wantKey", "recheck", "limit", "evict", "evicting", "closing", "open",
        "opened", "got", "writing", "reading", "release", "closeTable", "closeOut",
        "drop", "flush", "flushing", "save"}

\* "closed": close has taken the active segment out of the table
Free == [key |-> None, st |-> "free"]
Instance == [key : Key, st : {"clean", "volatile", "closed"}] \cup {Free}

KeyHeld == {"recheck", "limit", "evict", "evicting", "closing", "open", "opened"}
TablesWritten == {"evicting", "closing"}

Held(i) == (\E k \in Key : cache[k] = i) \/ (\E t \in Thread : ref[t] = i)
IsOpen(i) == inst[i].st \in {"clean", "volatile"}

\* the locks, as a thread t that wants them finds them
KeyLockFree(k) == \A u \in Thread : ~(pc[u] \in KeyHeld /\ key[u] = k)
TablesReadable == \A u \in Thread : pc[u] \notin TablesWritten
TablesWritable == \A u \in Thread : pc[u] \notin TablesWritten \cup {"flushing"}
InstReadable(i) == \A u \in Thread : ~(pc[u] = "writing" /\ ref[u] = i)
InstWritable(i) == \A u \in Thread : ~(pc[u] \in {"writing", "reading"} /\ ref[u] = i)

MaxOpen ==
    LET limit == Cardinality(ops) + Buffer
    IN  IF ops # {} /\ limit < MaxOpenHard THEN limit ELSE MaxOpenHard

Cached == {k \in Key : cache[k] # None}

\* evict_lru closes the tables of lower rank first
Rank(k) ==
    IF k \in cdcActive
    THEN IF ops # {} /\ k \notin ops THEN 2 ELSE 4
    ELSE IF k \in ops THEN 3 ELSE 1

\* what evict_lru leaves room for
Target == IF MaxOpen > 50 THEN MaxOpen \div 2 ELSE IF MaxOpen = 0 THEN 0 ELSE MaxOpen - 1

Init ==
    /\ cache = [k \in Key |-> None]
    /\ openCount = 0
    /\ dirty = {}
    /\ ops = {}
    /\ cdcActive = {}
    /\ inst = [i \in Inst |-> Free]
    /\ pc = [t \in Thread |-> "idle"]
    /\ call = [t \in Thread |-> "none"]
    /\ key = [t \in Thread |-> None]
    /\ ref = [t \in Thread |-> None]
    /\ surplus = [t \in Thread |-> 0]
    /\ todo = [t \in Thread |-> {}]
    /\ lost = {}
    /\ calls = 0
    /\ refreshes = 0

Goto(t, l) == pc' = [pc EXCEPT ![t] = l]

\* The call returns and its locals are gone.
Return(t) ==
    /\ Goto(t, "idle")
    /\ call' = [call EXCEPT ![t] = "none"]
    /\ key' = [key EXCEPT ![t] = None]

-----------------------------------------------------------------------------
(* get_table_with_mode                                                     *)

\* A handler asks for a table: the fast path, or on to the per-key mutex.
GetTable(t, k, c) ==
    /\ pc[t] = "idle"
    /\ calls < MaxCalls
    /\ \/ t \in Worker /\ c \in {"rows", "bootstrap"} /\ Owner[k] = t
       \/ t \in Client /\ c = "query"
       \/ t \in Client /\ c = "compact" /\ k \in ops
    /\ TablesReadable
    /\ calls' = calls + 1
    /\ call' = [call EXCEPT ![t] = c]
    /\ key' = [key EXCEPT ![t] = k]
    /\ ref' = [ref EXCEPT ![t] = cache[k]]
    /\ Goto(t, IF cache[k] # None THEN "got" ELSE "wantKey")
    /\ UNCHANGED <<manager, inst, surplus, todo, lost, refreshes>>

\* Mutated form of LockKey: the table is opened without the per-key mutex.
LockKeyAlways(t) ==
    /\ pc[t] = "wantKey"
    /\ Goto(t, "recheck")
    /\ UNCHANGED <<manager, inst, locals, lost, bounds>>

LockKey(t) ==
    /\ pc[t] = "wantKey"
    /\ KeyLockFree(key[t])
    /\ Goto(t, "recheck")
    /\ UNCHANGED <<manager, inst, locals, lost, bounds>>

\* Another thread may have opened the table while this one waited.
Recheck(t) ==
    /\ pc[t] = "recheck"
    /\ TablesReadable
    /\ ref' = [ref EXCEPT ![t] = cache[key[t]]]
    /\ Goto(t, IF cache[key[t]] # None THEN "got" ELSE "limit")
    /\ UNCHANGED <<manager, inst, call, key, surplus, todo, lost, bounds>>

\* Mutated form of CheckLimit: one table more than max_open.
CheckLimitOffByOne(t) ==
    /\ pc[t] = "limit"
    /\ LET n == IF openCount > MaxOpen THEN openCount - Target ELSE 0
       IN  /\ surplus' = [surplus EXCEPT ![t] = n]
           /\ Goto(t, IF n > 0 THEN "evict" ELSE "open")
    /\ UNCHANGED <<manager, inst, call, key, ref, todo, lost, bounds>>

\* open_count is read here and acted on later: nothing keeps it from changing.
CheckLimit(t) ==
    /\ pc[t] = "limit"
    /\ LET n == IF openCount >= MaxOpen /\ openCount > Target THEN openCount - Target ELSE 0
       IN  /\ surplus' = [surplus EXCEPT ![t] = n]
           /\ Goto(t, IF n > 0 THEN "evict" ELSE "open")
    /\ UNCHANGED <<manager, inst, call, key, ref, todo, lost, bounds>>

OpenTable(t) ==
    /\ pc[t] = "open"
    /\ \E i \in Inst :
         /\ inst[i] = Free
         /\ inst' = [inst EXCEPT ![i] = [key |-> key[t], st |-> "clean"]]
         /\ ref' = [ref EXCEPT ![t] = i]
    /\ openCount' = openCount + 1
    /\ Goto(t, "opened")
    /\ UNCHANGED <<cache, dirty, ops, cdcActive, call, key, surplus, todo, lost, bounds>>

\* Table::open returns an error: the caller logs it and gives up.
OpenFails(t) ==
    /\ pc[t] = "open"
    /\ Return(t)
    /\ UNCHANGED <<manager, inst, ref, surplus, todo, lost, bounds>>

\* A table found in the cache wins, and the new instance is discarded unsaved.
InsertTable(t) ==
    LET k == key[t]
        taken == cache[k] # None
    IN  /\ pc[t] = "opened"
        /\ TablesWritable
        /\ openCount' = IF taken THEN openCount - 1 ELSE openCount
        /\ inst' = IF taken THEN [inst EXCEPT ![ref[t]] = Free] ELSE inst
        /\ ref' = IF taken THEN [ref EXCEPT ![t] = cache[k]] ELSE ref
        /\ cache' = IF taken THEN cache ELSE [cache EXCEPT ![k] = ref[t]]
        /\ Goto(t, "got")
        /\ UNCHANGED <<dirty, ops, cdcActive, call, key, surplus, todo, lost, bounds>>

-----------------------------------------------------------------------------
(* evict_lru, inside get_table_with_mode and under its per-key mutex       *)

\* The victims, in any order that closes lower ranks first: the order within
\* a rank is that of a HashMap, and the model leaves the rest open as well.
LockTables(t) ==
    /\ pc[t] = "evict"
    /\ TablesWritable
    /\ \E victims \in SUBSET Cached :
         /\ IF surplus[t] < Cardinality(Cached)
            THEN Cardinality(victims) = surplus[t]
            ELSE victims = Cached
         /\ \A v \in victims, k \in Cached \ victims : Rank(v) <= Rank(k)
         /\ todo' = [todo EXCEPT ![t] = victims]
    /\ surplus' = [surplus EXCEPT ![t] = 0]
    /\ Goto(t, IF Cached = {} THEN "open" ELSE "evicting")
    /\ UNCHANGED <<manager, inst, call, key, ref, lost, bounds>>

\* Mutated form of EvictOne: the victim is closed and stays in the cache.
EvictOneKeepsEntry(t) ==
    /\ pc[t] = "evicting"
    /\ \E v \in todo[t] :
         /\ ref' = [ref EXCEPT ![t] = cache[v]]
         /\ todo' = [todo EXCEPT ![t] = @ \ {v}]
    /\ openCount' = openCount - 1
    /\ Goto(t, "closing")
    /\ UNCHANGED <<cache, dirty, ops, cdcActive, inst, call, key, surplus, lost, bounds>>

EvictOne(t) ==
    /\ pc[t] = "evicting"
    /\ \E v \in todo[t] :
         /\ ref' = [ref EXCEPT ![t] = cache[v]]
         /\ cache' = [cache EXCEPT ![v] = None]
         /\ todo' = [todo EXCEPT ![t] = @ \ {v}]
    /\ openCount' = openCount - 1
    /\ Goto(t, "closing")
    /\ UNCHANGED <<dirty, ops, cdcActive, inst, call, key, surplus, lost, bounds>>

\* Letting go of an instance.  The last holder's Drop runs close once more.
Released(i, t) ==
    IF \E u \in Thread \ {t} : ref[u] = i THEN inst[i]
    ELSE IF \E k \in Key : cache[k] = i THEN inst[i] ELSE Free

\* table.close() waits for the readers and the writer of the victim, with
\* tables still locked for writing.
CloseVictim(t) ==
    LET i == ref[t]
    IN  /\ pc[t] = "closing"
        /\ InstWritable(i)
        /\ inst' = [inst EXCEPT ![i] = IF Released(i, t) = Free THEN Free
                                        ELSE [@ EXCEPT !.st = "closed"]]
        /\ ref' = [ref EXCEPT ![t] = None]
        /\ Goto(t, "evicting")
        /\ UNCHANGED <<manager, call, key, surplus, todo, lost, bounds>>

EvictEnd(t) ==
    /\ pc[t] = "evicting"
    /\ todo[t] = {}
    /\ Goto(t, "open")
    /\ UNCHANGED <<manager, inst, locals, lost, bounds>>

-----------------------------------------------------------------------------
(* What the callers do with the table                                      *)

\* The instance may have been closed between get_table and this lock.
LockTable(t) ==
    /\ pc[t] = "got"
    /\ \/ call[t] = "query" /\ InstReadable(ref[t]) /\ Goto(t, "reading")
       \/ call[t] # "query" /\ InstWritable(ref[t]) /\ Goto(t, "writing")
    /\ UNCHANGED <<manager, inst, locals, lost, bounds>>

\* handle_rows_event: rows, mark_dirty, mark_cdc_active and, every so often, a
\* flush.  A closed table has no active segment: the rows go nowhere but the
\* log, which the Drop of the instance truncates.
Apply(t) ==
    LET k == key[t]
    IN  /\ pc[t] = "writing"
        /\ call[t] = "rows"
        /\ \/ IsOpen(ref[t]) /\ lost' = lost
              /\ \E s \in {"clean", "volatile"} : inst' = [inst EXCEPT ![ref[t]].st = s]
           \/ ~IsOpen(ref[t]) /\ lost' = lost \cup {k} /\ UNCHANGED inst
        /\ dirty' = dirty \cup {k}
        /\ cdcActive' = IF ops = {} \/ k \in ops THEN cdcActive \cup {k} ELSE cdcActive
        /\ Goto(t, "release")
        /\ UNCHANGED <<cache, openCount, ops, locals, bounds>>

\* The copy of a table, or its compaction.  Both end in a flush and start a new
\* active segment, on a closed table too; one that has nothing to do only flushes.
Rewrite(t) ==
    /\ pc[t] = "writing"
    /\ call[t] \in {"bootstrap", "compact"}
    /\ \/ inst' = [inst EXCEPT ![ref[t]].st = "clean"]
       \/ ~IsOpen(ref[t]) /\ UNCHANGED inst
    /\ Goto(t, "release")
    /\ UNCHANGED <<manager, locals, lost, bounds>>

Read(t) ==
    /\ pc[t] = "reading"
    /\ Goto(t, "release")
    /\ UNCHANGED <<manager, inst, locals, lost, bounds>>

\* The Arc goes out of scope; a copy or a compaction goes on to close_table.
Release(t) ==
    /\ pc[t] \in {"release", "drop"}
    /\ inst' = [inst EXCEPT ![ref[t]] = Released(ref[t], t)]
    /\ ref' = [ref EXCEPT ![t] = None]
    /\ IF pc[t] = "release" /\ call[t] \in {"bootstrap", "compact"}
       THEN Goto(t, "closeTable") /\ UNCHANGED <<call, key>>
       ELSE Return(t)
    /\ UNCHANGED <<manager, surplus, todo, lost, bounds>>

\* Mutated form of CloseTable: open_count goes down though no table was cached.
CloseTableCountsTwice(t) ==
    LET k == key[t]
        found == cache[k] # None
    IN  /\ pc[t] = "closeTable"
        /\ TablesWritable
        /\ ref' = [ref EXCEPT ![t] = cache[k]]
        /\ cache' = [cache EXCEPT ![k] = None]
        /\ openCount' = openCount - 1
        /\ IF found THEN Goto(t, "closeOut") /\ UNCHANGED <<call, key>> ELSE Return(t)
        /\ UNCHANGED <<dirty, ops, cdcActive, inst, surplus, todo, lost, bounds>>

\* close_table: out of the cache under the lock, closed after it is dropped.
CloseTable(t) ==
    LET k == key[t]
        found == cache[k] # None
    IN  /\ pc[t] = "closeTable"
        /\ TablesWritable
        /\ ref' = [ref EXCEPT ![t] = cache[k]]
        /\ cache' = [cache EXCEPT ![k] = None]
        /\ openCount' = IF found THEN openCount - 1 ELSE openCount
        /\ IF found THEN Goto(t, "closeOut") /\ UNCHANGED <<call, key>> ELSE Return(t)
        /\ UNCHANGED <<dirty, ops, cdcActive, inst, surplus, todo, lost, bounds>>

CloseOut(t) ==
    /\ pc[t] = "closeOut"
    /\ InstWritable(ref[t])
    /\ inst' = [inst EXCEPT ![ref[t]].st = "closed"]
    /\ Goto(t, "drop")
    /\ UNCHANGED <<manager, locals, lost, bounds>>

-----------------------------------------------------------------------------
(* The checkpoint of a worker: flush_dirty_tables, then save_state         *)

\* Mutated form of FlushDrain: the position is saved before the flush.
FlushDrainSavesFirst(t) ==
    /\ pc[t] = "idle"
    /\ t \in Worker
    /\ calls < MaxCalls
    /\ calls' = calls + 1
    /\ call' = [call EXCEPT ![t] = "checkpoint"]
    /\ todo' = todo
    /\ dirty' = dirty
    /\ Goto(t, "save")
    /\ UNCHANGED <<cache, openCount, ops, cdcActive, inst, key, ref, surplus, lost, refreshes>>

\* One set of dirty tables serves every worker: the first to come drains it.
FlushDrain(t) ==
    /\ pc[t] = "idle"
    /\ t \in Worker
    /\ calls < MaxCalls
    /\ calls' = calls + 1
    /\ call' = [call EXCEPT ![t] = "checkpoint"]
    /\ todo' = [todo EXCEPT ![t] = dirty]
    /\ dirty' = {}
    /\ Goto(t, IF dirty = {} THEN "save" ELSE "flush")
    /\ UNCHANGED <<cache, openCount, ops, cdcActive, inst, key, ref, surplus, lost, refreshes>>

FlushLock(t) ==
    /\ pc[t] = "flush"
    /\ TablesReadable
    /\ Goto(t, "flushing")
    /\ UNCHANGED <<manager, inst, locals, lost, bounds>>

\* Mutated form of FlushOne: a key that is no longer cached is tried again and again.
FlushOneInsists(t) ==
    /\ pc[t] = "flushing"
    /\ \E v \in todo[t] :
         \/ cache[v] = None /\ UNCHANGED <<inst, todo>>
         \/ /\ cache[v] # None
            /\ InstWritable(cache[v])
            /\ inst' = [inst EXCEPT ![cache[v]].st = "clean"]
            /\ todo' = [todo EXCEPT ![t] = @ \ {v}]
    /\ UNCHANGED <<manager, pc, call, key, ref, surplus, lost, bounds>>

\* A key that is no longer cached is passed over.
FlushOne(t) ==
    /\ pc[t] = "flushing"
    /\ \E v \in todo[t] :
         /\ \/ cache[v] = None /\ UNCHANGED inst
            \/ /\ cache[v] # None
               /\ InstWritable(cache[v])
               /\ inst' = [inst EXCEPT ![cache[v]].st = "clean"]
         /\ todo' = [todo EXCEPT ![t] = @ \ {v}]
    /\ UNCHANGED <<manager, pc, call, key, ref, surplus, lost, bounds>>

FlushEnd(t) ==
    /\ pc[t] = "flushing"
    /\ todo[t] = {}
    /\ Goto(t, "save")
    /\ UNCHANGED <<manager, inst, locals, lost, bounds>>

SaveState(t) ==
    /\ pc[t] = "save"
    /\ Return(t)
    /\ UNCHANGED <<manager, inst, ref, surplus, todo, lost, bounds>>

-----------------------------------------------------------------------------
\* .bittice_ops.json is loaded again; the limit follows from ops (MaxOpen).
SetQueryPriorityKeys(s) ==
    /\ refreshes < MaxRefresh
    /\ refreshes' = refreshes + 1
    /\ ops' = s
    /\ UNCHANGED <<cache, openCount, dirty, cdcActive, inst, pc, locals, lost, calls>>

\* Every call that the bound admits has returned.
Done ==
    /\ calls = MaxCalls
    /\ \A t \in Thread : pc[t] = "idle"
    /\ UNCHANGED vars

Step(t) ==
    \/ LockKey(t) \/ Recheck(t) \/ CheckLimit(t) \/ OpenTable(t) \/ OpenFails(t)
    \/ InsertTable(t) \/ LockTables(t) \/ EvictOne(t) \/ CloseVictim(t) \/ EvictEnd(t)
    \/ LockTable(t) \/ Apply(t) \/ Rewrite(t) \/ Read(t) \/ Release(t)
    \/ CloseTable(t) \/ CloseOut(t)
    \/ FlushLock(t) \/ FlushOne(t) \/ FlushEnd(t) \/ SaveState(t)

Next ==
    \/ \E t \in Thread : Step(t)
    \/ \E t \in Thread : FlushDrain(t)
    \/ \E t \in Thread, k \in Key, c \in WorkerCalls \cup ClientCalls : GetTable(t, k, c)
    \/ \E s \in OpsChoices : SetQueryPriorityKeys(s)
    \/ Done

Spec == Init /\ [][Next]_vars

\* A thread that can run is run; nobody is made to call.
Fairness == \A t \in Thread : WF_vars(Step(t))

FairSpec == Spec /\ Fairness

-----------------------------------------------------------------------------
(* Properties                                                              *)

\* The state is well formed: open_count in particular never wraps below zero.
TypeOK ==
    /\ cache \in [Key -> Inst \cup {None}]
    /\ openCount \in Nat
    /\ dirty \subseteq Key
    /\ ops \subseteq Key
    /\ cdcActive \subseteq Key
    /\ inst \in [Inst -> Instance]
    /\ pc \in [Thread -> PCs]
    /\ call \in [Thread -> WorkerCalls \cup ClientCalls \cup {"none"}]
    /\ key \in [Thread -> Key \cup {None}]
    /\ ref \in [Thread -> Inst \cup {None}]
    /\ surplus \in [Thread -> Nat]
    /\ todo \in [Thread -> SUBSET Key]
    /\ lost \subseteq Key
    /\ calls \in Nat
    /\ refreshes \in Nat

\* get_table_with_mode's comment, "Should not happen under the per-key lock":
\* a thread that has opened a table never finds another one cached for the key.
OpenedOnce == \A t \in Thread : pc[t] = "opened" => cache[key[t]] = None

\* The cache never hands out a table that close has been run on: evict_lru and
\* close_table take it out first, and Table::open makes a new one.
CachedTablesAreOpen == \A k \in Key : cache[k] # None => IsOpen(cache[k]) /\ inst[cache[k]].key = k

\* The limit on open tables is checked without a lock over all keys, so each
\* thread may pass it once too often, and no more than that.
CacheIsBounded ==
    Cardinality(Cached) < (IF MaxOpenHard = 0 THEN 1 ELSE MaxOpenHard) + Cardinality(Thread)

\* flush_dirty_tables before save_state: when a worker saves its position, a row
\* it has applied is in a BufWriter only if another worker has drained the
\* table's dirty mark and not yet flushed it, or the table is out of the cache
\* and the thread that still holds it has not yet closed or dropped it.
SavedRowsAreDurable ==
    \A w \in Worker, i \in Inst :
        pc[w] = "save" /\ inst[i].st = "volatile" /\ Owner[inst[i].key] = w =>
            \E u \in Thread \ {w} :
                \/ pc[u] \in {"flush", "flushing"} /\ inst[i].key \in todo[u]
                \/ ref[u] = i /\ cache[inst[i].key] # i

\* Every call returns: evict_lru and flush_dirty_tables wait for tables while
\* holding the cache's lock, and nobody holding a table waits for that lock.
CallsReturn == \A t \in Thread : pc[t] # "idle" ~> pc[t] = "idle"
=============================================================================
