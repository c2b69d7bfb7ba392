-------------------------- MODULE TableCacheProof --------------------------
(***************************************************************************)
(* Proofs about TableCache for every number of tables, workers, clients    *)
(* and calls: the defensive branch of get_table_with_mode is dead, the     *)
(* cache never hands out a closed table, and what a worker has applied is  *)
(* flushed before its position is saved, or about to be flushed by a       *)
(* thread that can be named.  open_count of TableManager counts the cached *)
(* tables and those about to be cached, so that it never wraps below zero, *)
(* and the cache grows beyond max_open only as far as the unlocked check   *)
(* of that limit lets it.                                                  *)
(***************************************************************************)
EXTENDS TableCache, FiniteSetTheorems, TLAPS

-----------------------------------------------------------------------------
(* The inductive invariant of OpenedOnce and CachedTablesAreOpen           *)

CacheTypes ==
    /\ cache \in [Key -> Inst \cup {None}]
    /\ dirty \subseteq Key
    /\ inst \in [Inst -> Instance]
    /\ pc \in [Thread -> PCs]
    /\ call \in [Thread -> WorkerCalls \cup ClientCalls \cup {"none"}]
    /\ key \in [Thread -> Key \cup {None}]
    /\ ref \in [Thread -> Inst \cup {None}]
    /\ todo \in [Thread -> SUBSET Key]

\* The per-key mutex.
KeyMutex ==
    \A t, u \in Thread :
        pc[t] \in KeyHeld /\ pc[u] \in KeyHeld /\ key[t] = key[u] => t = u

\* The write lock of tables excludes every other holder.
TablesMutex ==
    \A t, u \in Thread :
        pc[t] \in TablesWritten /\ pc[u] \in TablesWritten \cup {"flushing"} => t = u

\* A thread in a call on one table knows its key.
KeyKnown ==
    \A t \in Thread :
        pc[t] \notin {"idle", "flush", "flushing", "save"} => key[t] \in Key

\* Past the second look, the key stays out of the cache.
NotCached ==
    \A t \in Thread : pc[t] \in KeyHeld \ {"recheck"} => cache[key[t]] = None

\* A table just opened is known to its opener alone.
Fresh ==
    \A t \in Thread : pc[t] = "opened" =>
        /\ ref[t] \in Inst
        /\ inst[ref[t]].key = key[t]
        /\ inst[ref[t]].st = "clean"
        /\ \A u \in Thread : ref[u] = ref[t] => u = t
        /\ \A k \in Key : cache[k] # ref[t]

\* A table about to be closed has left the cache for good.
OutOfCache ==
    \A t \in Thread : pc[t] \in {"closing", "closeOut", "drop"} =>
        ref[t] \in Inst /\ \A k \in Key : cache[k] # ref[t]

\* evict_lru's victims are cached until it takes them out.
VictimsCached ==
    \A t \in Thread : pc[t] \in TablesWritten =>
        \A v \in todo[t] : cache[v] # None

\* A table that a thread holds has not been dropped.
RefsLive ==
    \A t \in Thread :
        /\ ref[t] # None => inst[ref[t]] # Free
        /\ pc[t] \in {"got", "writing", "reading", "release"} => ref[t] \in Inst

CacheInv ==
    /\ CacheTypes
    /\ KeyMutex
    /\ TablesMutex
    /\ KeyKnown
    /\ NotCached
    /\ CachedTablesAreOpen
    /\ Fresh
    /\ OutOfCache
    /\ VictimsCached
    /\ RefsLive

-----------------------------------------------------------------------------
(* The inductive invariant of SavedRowsAreDurable                          *)

\* A thread holds a table only between get_table and the end of the call.
NoStrayRefs ==
    \A t \in Thread :
        pc[t] \in {"idle", "wantKey", "recheck", "limit", "evict", "evicting", "open",
                   "closeTable", "flush", "flushing", "save"} => ref[t] = None

\* A thread works on the table it asked for; row events come from the owner.
RefsMatch ==
    \A t \in Thread :
        /\ pc[t] \in {"got", "writing", "reading", "release"} => inst[ref[t]].key = key[t]
        /\ call[t] = "rows" => t = Owner[key[t]]

\* No instance is leaked: one that was not dropped is cached or held.
NoLeak == \A i \in Inst : inst[i] # Free => Held(i)

\* A worker in its checkpoint has left no dirty mark of its own behind.
OwnMarksDrained ==
    \A w \in Worker, k \in Key :
        pc[w] \in {"flush", "flushing", "save"} /\ Owner[k] = w => k \notin dirty

\* Rows in a BufWriter: marked, drained and about to be flushed, or in a table
\* outside the cache whose holder will close or drop it.
VolatileIsTracked ==
    \A i \in Inst : inst[i].st = "volatile" =>
        \/ inst[i].key \in dirty
        \/ \E u \in Thread : pc[u] \in {"flush", "flushing"} /\ inst[i].key \in todo[u]
        \/ cache[inst[i].key] # i

DurableInv ==
    /\ NoStrayRefs
    /\ RefsMatch
    /\ NoLeak
    /\ OwnMarksDrained
    /\ VolatileIsTracked

-----------------------------------------------------------------------------
(* One lemma per action: CacheInv is kept                                  *)

USE NoneIsNobody DEF manager, locals, bounds, Goto, Return, Instance, Free, PCs, WorkerCalls,
    ClientCalls, IsOpen, KeyHeld, TablesWritten, TablesReadable, TablesWritable, Released

USE DEF CacheInv, CacheTypes, KeyMutex, TablesMutex, KeyKnown, NotCached, CachedTablesAreOpen,
        Fresh, OutOfCache, VictimsCached, RefsLive

\* Kept by waiting for the per-key mutex.
LEMMA LockKeyKeeps ==
    ASSUME CacheInv, NEW t \in Thread, LockKey(t) PROVE CacheInv'
BY SMTT(60) DEF LockKey, KeyLockFree

\* Kept by the second look into the cache.
LEMMA RecheckKeeps ==
    ASSUME CacheInv, NEW t \in Thread, Recheck(t) PROVE CacheInv'
BY SMTT(60) DEF Recheck

\* Kept by the check of max_open.
LEMMA CheckLimitKeeps ==
    ASSUME CacheInv, NEW t \in Thread, CheckLimit(t) PROVE CacheInv'
BY SMTT(60) DEF CheckLimit

\* Kept by Table::open.
LEMMA OpenTableKeeps ==
    ASSUME CacheInv, NEW t \in Thread, OpenTable(t) PROVE CacheInv'
BY SMTT(60) DEF OpenTable

\* Kept by a failed Table::open.
LEMMA OpenFailsKeeps ==
    ASSUME CacheInv, NEW t \in Thread, OpenFails(t) PROVE CacheInv'
BY SMTT(60) DEF OpenFails

\* Kept by evict_lru's choice of victims.
LEMMA LockTablesKeeps ==
    ASSUME CacheInv, NEW t \in Thread, LockTables(t) PROVE CacheInv'
BY SMTT(60) DEF LockTables, Cached

\* Kept by evict_lru's removal of a victim.
LEMMA EvictOneKeeps ==
    ASSUME CacheInv, NEW t \in Thread, EvictOne(t) PROVE CacheInv'
BY SMTT(60) DEF EvictOne

\* Kept by evict_lru's close of a victim.
LEMMA CloseVictimKeeps ==
    ASSUME CacheInv, NEW t \in Thread, CloseVictim(t) PROVE CacheInv'
BY SMTT(60) DEF CloseVictim

\* Kept by the end of evict_lru.
LEMMA EvictEndKeeps ==
    ASSUME CacheInv, NEW t \in Thread, EvictEnd(t) PROVE CacheInv'
BY SMTT(60) DEF EvictEnd

\* Kept by handle_rows_event.
LEMMA ApplyKeeps ==
    ASSUME CacheInv, NEW t \in Thread, Apply(t) PROVE CacheInv'
BY SMTT(60) DEF Apply

\* Kept by a copy or a compaction.
LEMMA RewriteKeeps ==
    ASSUME CacheInv, NEW t \in Thread, Rewrite(t) PROVE CacheInv'
BY SMTT(60) DEF Rewrite

\* Kept by a query.
LEMMA ReadKeeps ==
    ASSUME CacheInv, NEW t \in Thread, Read(t) PROVE CacheInv'
BY SMTT(60) DEF Read

\* Kept by the close of close_table.
LEMMA CloseOutKeeps ==
    ASSUME CacheInv, NEW t \in Thread, CloseOut(t) PROVE CacheInv'
BY SMTT(60) DEF CloseOut

\* Kept by flush_dirty_tables' read lock.
LEMMA FlushLockKeeps ==
    ASSUME CacheInv, NEW t \in Thread, FlushLock(t) PROVE CacheInv'
BY SMTT(60) DEF FlushLock

\* Kept by flush_dirty_tables' flush of a table.
LEMMA FlushOneKeeps ==
    ASSUME CacheInv, NEW t \in Thread, FlushOne(t) PROVE CacheInv'
BY SMTT(60) DEF FlushOne

\* Kept by the end of flush_dirty_tables.
LEMMA FlushEndKeeps ==
    ASSUME CacheInv, NEW t \in Thread, FlushEnd(t) PROVE CacheInv'
BY SMTT(60) DEF FlushEnd

\* Kept by save_state.
LEMMA SaveStateKeeps ==
    ASSUME CacheInv, NEW t \in Thread, SaveState(t) PROVE CacheInv'
BY SMTT(60) DEF SaveState

\* Kept by flush_dirty_tables' drain.
LEMMA FlushDrainKeeps ==
    ASSUME CacheInv, NEW t \in Thread, FlushDrain(t) PROVE CacheInv'
BY SMTT(60) DEF FlushDrain

\* Kept by get_table's fast path.
LEMMA GetTableKeeps ==
    ASSUME CacheInv, NEW t \in Thread, NEW k \in Key,
           NEW c \in WorkerCalls \cup ClientCalls, GetTable(t, k, c)
    PROVE  CacheInv'
BY SMTT(60) DEF GetTable

\* Kept by the insertion of a new table, which finds no other in the cache.
LEMMA InsertTableKeeps ==
    ASSUME CacheInv, NEW t \in Thread, InsertTable(t) PROVE CacheInv'
<1>1. /\ pc[t] = "opened"
      /\ key[t] \in Key
      /\ cache[key[t]] = None
      /\ ref[t] \in Inst
      /\ TablesWritable
      /\ cache' = [cache EXCEPT ![key[t]] = ref[t]]
      /\ pc' = [pc EXCEPT ![t] = "got"]
      /\ UNCHANGED <<inst, ref, call, key, todo, dirty>>
  BY DEF InsertTable
<1>2. CacheTypes'
  BY <1>1, SMTT(60)
<1>3. KeyMutex'
  BY <1>1, SMTT(60)
<1>4. TablesMutex'
  BY <1>1, SMTT(60)
<1>5. KeyKnown'
  BY <1>1, SMTT(60)
<1>6. NotCached'
  BY <1>1, SMTT(60)
<1>7. CachedTablesAreOpen'
  BY <1>1, SMTT(60)
<1>8. Fresh'
  BY <1>1, SMTT(60)
<1>9. OutOfCache'
  BY <1>1, SMTT(60)
<1>10. VictimsCached'
  BY <1>1, SMTT(60)
<1>11. RefsLive'
  BY <1>1, SMTT(60)
<1>q. QED BY <1>2, <1>3, <1>4, <1>5, <1>6, <1>7, <1>8, <1>9, <1>10, <1>11

\* Kept by close_table's removal.
LEMMA CloseTableKeeps ==
    ASSUME CacheInv, NEW t \in Thread, CloseTable(t) PROVE CacheInv'
<1>1. CacheTypes'
  BY SMTT(60) DEF CloseTable
<1>2. KeyMutex'
  BY SMTT(60) DEF CloseTable
<1>3. TablesMutex'
  BY SMTT(60) DEF CloseTable
<1>4. KeyKnown'
  BY SMTT(60) DEF CloseTable
<1>5. NotCached'
  BY SMTT(60) DEF CloseTable
<1>6. CachedTablesAreOpen'
  BY SMTT(60) DEF CloseTable
<1>7. Fresh'
  BY SMTT(60) DEF CloseTable
<1>8. OutOfCache'
  BY SMTT(60) DEF CloseTable
<1>9. VictimsCached'
  BY SMTT(60) DEF CloseTable
<1>10. RefsLive'
  BY SMTT(60) DEF CloseTable
<1>q. QED BY <1>1, <1>2, <1>3, <1>4, <1>5, <1>6, <1>7, <1>8, <1>9, <1>10

\* Kept by taking a table's lock.
LEMMA LockTableKeeps ==
    ASSUME CacheInv, NEW t \in Thread, LockTable(t) PROVE CacheInv'
<1>1. CacheTypes'
  BY SMTT(60) DEF LockTable
<1>2. KeyMutex'
  BY SMTT(60) DEF LockTable
<1>3. TablesMutex'
  BY SMTT(60) DEF LockTable
<1>4. KeyKnown'
  BY SMTT(60) DEF LockTable
<1>5. NotCached'
  BY SMTT(60) DEF LockTable
<1>6. CachedTablesAreOpen'
  BY SMTT(60) DEF LockTable
<1>7. Fresh'
  BY SMTT(60) DEF LockTable
<1>8. OutOfCache'
  BY SMTT(60) DEF LockTable
<1>9. VictimsCached'
  BY SMTT(60) DEF LockTable
<1>10. RefsLive'
  BY SMTT(60) DEF LockTable
<1>q. QED BY <1>1, <1>2, <1>3, <1>4, <1>5, <1>6, <1>7, <1>8, <1>9, <1>10

\* Kept by dropping the Arc.
LEMMA ReleaseKeeps ==
    ASSUME CacheInv, NEW t \in Thread, Release(t) PROVE CacheInv'
<1>1. CacheTypes'
  BY SMTT(60) DEF Release
<1>2. KeyMutex'
  BY SMTT(60) DEF Release
<1>3. TablesMutex'
  BY SMTT(60) DEF Release
<1>4. KeyKnown'
  BY SMTT(60) DEF Release
<1>5. NotCached'
  BY SMTT(60) DEF Release
<1>6. CachedTablesAreOpen'
  BY SMTT(60) DEF Release
<1>7. Fresh'
  BY SMTT(60) DEF Release
<1>8. OutOfCache'
  BY SMTT(60) DEF Release
<1>9. VictimsCached'
  BY SMTT(60) DEF Release
<1>10. RefsLive'
  BY SMTT(60) DEF Release
<1>q. QED BY <1>1, <1>2, <1>3, <1>4, <1>5, <1>6, <1>7, <1>8, <1>9, <1>10

\* CacheInv is inductive.
LEMMA CacheInvKept == CacheInv /\ [Next]_vars => CacheInv'
<1> SUFFICES ASSUME CacheInv, [Next]_vars PROVE CacheInv'
  OBVIOUS
<1>1. ASSUME NEW t \in Thread, Step(t) PROVE CacheInv'
  BY <1>1, LockKeyKeeps, RecheckKeeps, CheckLimitKeeps, OpenTableKeeps, OpenFailsKeeps,
     InsertTableKeeps, LockTablesKeeps, EvictOneKeeps, CloseVictimKeeps, EvictEndKeeps,
     LockTableKeeps, ApplyKeeps, RewriteKeeps, ReadKeeps, ReleaseKeeps, CloseTableKeeps,
     CloseOutKeeps, FlushLockKeeps, FlushOneKeeps, FlushEndKeeps, SaveStateKeeps DEF Step
<1>2. ASSUME NEW t \in Thread, FlushDrain(t) PROVE CacheInv'
  BY <1>2, FlushDrainKeeps
<1>3. ASSUME NEW t \in Thread, NEW k \in Key, NEW c \in WorkerCalls \cup ClientCalls,
             GetTable(t, k, c)
      PROVE  CacheInv'
  BY <1>3, GetTableKeeps
<1>4. ASSUME NEW s \in OpsChoices, SetQueryPriorityKeys(s) PROVE CacheInv'
  BY <1>4 DEF SetQueryPriorityKeys
<1>5. CASE UNCHANGED vars
  BY <1>5 DEF vars
<1> QED BY <1>1, <1>2, <1>3, <1>4, <1>5 DEF Next, Done

\* CacheInv holds at the start.
LEMMA CacheInvInit == Init => CacheInv
BY DEF Init

\* CacheInv holds in every reachable state.
THEOREM CacheInvariant == Spec => []CacheInv
BY CacheInvInit, CacheInvKept, PTL DEF Spec

\* For any number of threads and tables, a thread that has opened a table finds
\* the cache without one: the branch of get_table_with_mode that discards the new
\* table is dead.
THEOREM OpenedOnceTheorem == Spec => []OpenedOnce
<1>1. CacheInv => OpenedOnce
  BY DEF OpenedOnce
<1> QED BY <1>1, CacheInvariant, PTL

\* For any number of threads and tables, what the cache hands out is open and is
\* the table asked for, although tables are closed while other threads hold them.
THEOREM CachedTheorem == Spec => []CachedTablesAreOpen
<1>1. CacheInv => CachedTablesAreOpen
  OBVIOUS
<1> QED BY <1>1, CacheInvariant, PTL

-----------------------------------------------------------------------------
(* One lemma per action: DurableInv is kept                                *)

USE OwnersAreWorkers, RolesAreDisjoint DEF Thread, Held, DurableInv, NoStrayRefs, RefsMatch,
        NoLeak, OwnMarksDrained, VolatileIsTracked

\* Kept by waiting for the per-key mutex.
LEMMA LockKeyDurable ==
    ASSUME CacheInv, CacheInv', DurableInv, NEW t \in Thread, LockKey(t) PROVE DurableInv'
BY SMTT(60) DEF LockKey, KeyLockFree

\* Kept by the second look into the cache.
LEMMA RecheckDurable ==
    ASSUME CacheInv, CacheInv', DurableInv, NEW t \in Thread, Recheck(t) PROVE DurableInv'
BY SMTT(60) DEF Recheck

\* Kept by the check of max_open.
LEMMA CheckLimitDurable ==
    ASSUME CacheInv, CacheInv', DurableInv, NEW t \in Thread, CheckLimit(t) PROVE DurableInv'
BY SMTT(60) DEF CheckLimit

\* Kept by Table::open.
LEMMA OpenTableDurable ==
    ASSUME CacheInv, CacheInv', DurableInv, NEW t \in Thread, OpenTable(t) PROVE DurableInv'
BY SMTT(60) DEF OpenTable

\* Kept by a failed Table::open.
LEMMA OpenFailsDurable ==
    ASSUME CacheInv, CacheInv', DurableInv, NEW t \in Thread, OpenFails(t) PROVE DurableInv'
BY SMTT(60) DEF OpenFails

\* Kept by evict_lru's choice of victims.
LEMMA LockTablesDurable ==
    ASSUME CacheInv, CacheInv', DurableInv, NEW t \in Thread, LockTables(t) PROVE DurableInv'
BY SMTT(60) DEF LockTables, Cached

\* Kept by evict_lru's removal of a victim.
LEMMA EvictOneDurable ==
    ASSUME CacheInv, CacheInv', DurableInv, NEW t \in Thread, EvictOne(t) PROVE DurableInv'
BY SMTT(60) DEF EvictOne

\* Kept by evict_lru's close of a victim.
LEMMA CloseVictimDurable ==
    ASSUME CacheInv, CacheInv', DurableInv, NEW t \in Thread, CloseVictim(t) PROVE DurableInv'
BY SMTT(60) DEF CloseVictim

\* Kept by the end of evict_lru.
LEMMA EvictEndDurable ==
    ASSUME CacheInv, CacheInv', DurableInv, NEW t \in Thread, EvictEnd(t) PROVE DurableInv'
BY SMTT(60) DEF EvictEnd

\* Kept by taking a table's lock.
LEMMA LockTableDurable ==
    ASSUME CacheInv, CacheInv', DurableInv, NEW t \in Thread, LockTable(t) PROVE DurableInv'
BY SMTT(60) DEF LockTable

\* Kept by handle_rows_event.
LEMMA ApplyDurable ==
    ASSUME CacheInv, CacheInv', DurableInv, NEW t \in Thread, Apply(t) PROVE DurableInv'
BY SMTT(60) DEF Apply

\* Kept by a copy or a compaction.
LEMMA RewriteDurable ==
    ASSUME CacheInv, CacheInv', DurableInv, NEW t \in Thread, Rewrite(t) PROVE DurableInv'
BY SMTT(60) DEF Rewrite

\* Kept by a query.
LEMMA ReadDurable ==
    ASSUME CacheInv, CacheInv', DurableInv, NEW t \in Thread, Read(t) PROVE DurableInv'
BY SMTT(60) DEF Read

\* Kept by dropping the Arc.
LEMMA ReleaseDurable ==
    ASSUME CacheInv, CacheInv', DurableInv, NEW t \in Thread, Release(t) PROVE DurableInv'
BY SMTT(60) DEF Release

\* Kept by the close of close_table.
LEMMA CloseOutDurable ==
    ASSUME CacheInv, CacheInv', DurableInv, NEW t \in Thread, CloseOut(t) PROVE DurableInv'
BY SMTT(60) DEF CloseOut

\* Kept by flush_dirty_tables' read lock.
LEMMA FlushLockDurable ==
    ASSUME CacheInv, CacheInv', DurableInv, NEW t \in Thread, FlushLock(t) PROVE DurableInv'
BY SMTT(60) DEF FlushLock

\* Kept by flush_dirty_tables' flush of a table.
LEMMA FlushOneDurable ==
    ASSUME CacheInv, CacheInv', DurableInv, NEW t \in Thread, FlushOne(t) PROVE DurableInv'
BY SMTT(60) DEF FlushOne

\* Kept by the end of flush_dirty_tables.
LEMMA FlushEndDurable ==
    ASSUME CacheInv, CacheInv', DurableInv, NEW t \in Thread, FlushEnd(t) PROVE DurableInv'
BY SMTT(60) DEF FlushEnd

\* Kept by save_state.
LEMMA SaveStateDurable ==
    ASSUME CacheInv, CacheInv', DurableInv, NEW t \in Thread, SaveState(t) PROVE DurableInv'
BY SMTT(60) DEF SaveState

\* Kept by flush_dirty_tables' drain.
LEMMA FlushDrainDurable ==
    ASSUME CacheInv, CacheInv', DurableInv, NEW t \in Thread, FlushDrain(t) PROVE DurableInv'
BY SMTT(60) DEF FlushDrain

\* Kept by get_table's fast path.
LEMMA GetTableDurable ==
    ASSUME CacheInv, CacheInv', DurableInv, NEW t \in Thread, NEW k \in Key,
           NEW c \in WorkerCalls \cup ClientCalls, GetTable(t, k, c)
    PROVE  DurableInv'
BY SMTT(60) DEF GetTable

\* Kept by the insertion of a new table: it holds no rows yet.
LEMMA InsertTableDurable ==
    ASSUME CacheInv, CacheInv', DurableInv, NEW t \in Thread, InsertTable(t) PROVE DurableInv'
<1>1. /\ pc[t] = "opened"
      /\ key[t] \in Key
      /\ cache[key[t]] = None
      /\ cache' = [cache EXCEPT ![key[t]] = ref[t]]
      /\ pc' = [pc EXCEPT ![t] = "got"]
      /\ inst[ref[t]].st = "clean"
      /\ inst[ref[t]].key = key[t]
      /\ UNCHANGED <<inst, ref, call, key, todo, dirty>>
  BY DEF InsertTable
<1>2. NoStrayRefs'
  BY <1>1, SMTT(60)
<1>3. RefsMatch'
  BY <1>1, SMTT(60)
<1>4. NoLeak'
  BY <1>1, SMTT(60)
<1>5. OwnMarksDrained'
  BY <1>1, SMTT(60)
<1>6. VolatileIsTracked'
  BY <1>1, SMTT(60)
<1>q. QED BY <1>2, <1>3, <1>4, <1>5, <1>6

\* Kept by close_table's removal.
LEMMA CloseTableDurable ==
    ASSUME CacheInv, CacheInv', DurableInv, NEW t \in Thread, CloseTable(t) PROVE DurableInv'
<1>1. NoStrayRefs'
  BY SMTT(60) DEF CloseTable
<1>2. RefsMatch'
  BY SMTT(60) DEF CloseTable
<1>3. NoLeak'
  BY SMTT(60) DEF CloseTable
<1>4. OwnMarksDrained'
  BY SMTT(60) DEF CloseTable
<1>5. VolatileIsTracked'
  BY SMTT(60) DEF CloseTable
<1>q. QED BY <1>1, <1>2, <1>3, <1>4, <1>5

\* DurableInv is inductive relative to CacheInv.
LEMMA DurableInvKept == CacheInv /\ CacheInv' /\ DurableInv /\ [Next]_vars => DurableInv'
<1> SUFFICES ASSUME CacheInv, CacheInv', DurableInv, [Next]_vars PROVE DurableInv'
  OBVIOUS
<1>1. ASSUME NEW t \in Thread, Step(t) PROVE DurableInv'
  BY <1>1, LockKeyDurable, RecheckDurable, CheckLimitDurable, OpenTableDurable,
     OpenFailsDurable, InsertTableDurable, LockTablesDurable, EvictOneDurable,
     CloseVictimDurable, EvictEndDurable, LockTableDurable, ApplyDurable, RewriteDurable,
     ReadDurable, ReleaseDurable, CloseTableDurable, CloseOutDurable, FlushLockDurable,
     FlushOneDurable, FlushEndDurable, SaveStateDurable DEF Step
<1>2. ASSUME NEW t \in Thread, FlushDrain(t) PROVE DurableInv'
  BY <1>2, FlushDrainDurable
<1>3. ASSUME NEW t \in Thread, NEW k \in Key, NEW c \in WorkerCalls \cup ClientCalls,
             GetTable(t, k, c)
      PROVE  DurableInv'
  BY <1>3, GetTableDurable
<1>4. ASSUME NEW s \in OpsChoices, SetQueryPriorityKeys(s) PROVE DurableInv'
  BY <1>4 DEF SetQueryPriorityKeys
<1>5. CASE UNCHANGED vars
  BY <1>5 DEF vars
<1> QED BY <1>1, <1>2, <1>3, <1>4, <1>5 DEF Next, Done

\* DurableInv holds at the start.
LEMMA DurableInvInit == Init => DurableInv
BY DEF Init

\* Rows that a worker's saved position covers are flushed, or another thread is
\* about to flush, close or drop the table they are in.
THEOREM DurabilityTheorem == Spec => []SavedRowsAreDurable
<1>1. CacheInv /\ DurableInv => SavedRowsAreDurable
  BY SMTT(60) DEF SavedRowsAreDurable
<1>2. Spec => []DurableInv
  BY CacheInvariant, DurableInvInit, DurableInvKept, PTL DEF Spec
<1> QED BY <1>1, <1>2, CacheInvariant, PTL

-----------------------------------------------------------------------------
(* open_count and the size of the cache                                    *)

HIDE DEF manager, locals, bounds, Goto, Return, Instance, Free, PCs, WorkerCalls, ClientCalls, IsOpen,
        KeyHeld, TablesWritten, TablesReadable, TablesWritable, Released, CacheInv, CacheTypes,
        KeyMutex, TablesMutex, KeyKnown, NotCached, CachedTablesAreOpen, Fresh, OutOfCache,
        VictimsCached, RefsLive, Thread, Held, DurableInv, NoStrayRefs, RefsMatch, NoLeak,
        OwnMarksDrained, VolatileIsTracked

\* Threads between Table::open and the insertion into the cache.
Opened == {t \in Thread : pc[t] = "opened"}

CountInv ==
    /\ openCount = Cardinality(Cached) + Cardinality(Opened)
    /\ surplus \in [Thread -> Nat]
    /\ ops \subseteq Key
    /\ cdcActive \subseteq Key
    /\ lost \subseteq Key
    /\ calls \in Nat
    /\ refreshes \in Nat

\* The sets that open_count counts are finite.
LEMMA CountsAreNat ==
    /\ IsFiniteSet(Cached) /\ Cardinality(Cached) \in Nat
    /\ IsFiniteSet(Opened) /\ Cardinality(Opened) \in Nat
<1>1. IsFiniteSet(Thread)
  BY FinitelyMany, FS_Union DEF Thread
<1>2. IsFiniteSet(Cached)
  BY FinitelyMany, FS_Subset DEF Cached
<1>3. IsFiniteSet(Opened)
  BY <1>1, FS_Subset DEF Opened
<1> QED BY <1>2, <1>3, FS_CardinalityType

\* What evict_lru aims for is a natural number.
LEMMA TargetIsNat == ops \subseteq Key => Target \in Nat
<1> SUFFICES ASSUME ops \subseteq Key PROVE Target \in Nat
  OBVIOUS
<1>1. Cardinality(ops) \in Nat
  BY FinitelyMany, FS_Subset, FS_CardinalityType
<1>2. MaxOpen \in Nat
  BY <1>1, LimitsAreNat DEF MaxOpen
<1> QED BY <1>2 DEF Target

\* Neither set changes: nor does the count.
LEMMA CountUnchanged ==
    ASSUME CountInv, UNCHANGED <<cache, openCount>>, Opened' = Opened
    PROVE  openCount' = Cardinality(Cached)' + Cardinality(Opened)'
<1>1. Cached' = Cached
  BY DEF Cached
<1> QED BY <1>1 DEF CountInv

\* The steps that touch neither the cache nor a table just opened.
LEMMA QuietSteps ==
    ASSUME CacheInv, CountInv, NEW t \in Thread,
           \/ LockKey(t) \/ Recheck(t) \/ CheckLimit(t) \/ OpenFails(t) \/ LockTables(t)
           \/ CloseVictim(t) \/ EvictEnd(t) \/ LockTable(t) \/ Apply(t) \/ Rewrite(t)
           \/ Read(t) \/ Release(t) \/ CloseOut(t) \/ FlushLock(t) \/ FlushOne(t)
           \/ FlushEnd(t) \/ SaveState(t) \/ FlushDrain(t)
    PROVE  CountInv'
<1>1. UNCHANGED <<cache, openCount>>
  BY DEF LockKey, Recheck, CheckLimit, OpenFails, LockTables, CloseVictim, EvictEnd, LockTable,
         Apply, Rewrite, Read, Release, CloseOut, FlushLock, FlushOne, FlushEnd, SaveState,
         FlushDrain, manager
<1>2. Opened' = Opened
  BY DEF Opened, LockKey, Recheck, CheckLimit, OpenFails, LockTables, CloseVictim, EvictEnd,
         LockTable, Apply, Rewrite, Read, Release, CloseOut, FlushLock, FlushOne, FlushEnd,
         SaveState, FlushDrain, manager, Goto, Return, CacheInv, CacheTypes
<1>3. surplus' \in [Thread -> Nat]
  BY TargetIsNat, CountsAreNat
     DEF CountInv, LockKey, Recheck, CheckLimit, OpenFails, LockTables, CloseVictim, EvictEnd,
         LockTable, Apply, Rewrite, Read, Release, CloseOut, FlushLock, FlushOne, FlushEnd,
         SaveState, FlushDrain, locals
<1>4. /\ ops' \subseteq Key
      /\ cdcActive' \subseteq Key
      /\ lost' \subseteq Key
      /\ calls' \in Nat
      /\ refreshes' \in Nat
  BY DEF CountInv, CacheInv, KeyKnown, LockKey, Recheck, CheckLimit, OpenFails, LockTables,
         CloseVictim, EvictEnd, LockTable, Apply, Rewrite, Read, Release, CloseOut, FlushLock,
         FlushOne, FlushEnd, SaveState, FlushDrain, manager, bounds
<1> QED BY <1>1, <1>2, <1>3, <1>4, CountUnchanged DEF CountInv

\* Table::open has succeeded: one more.
LEMMA OpenTableCounts ==
    ASSUME CacheInv, CountInv, NEW t \in Thread, OpenTable(t) PROVE CountInv'
<1>1. /\ Cached' = Cached
      /\ Opened' = Opened \cup {t}
      /\ t \notin Opened
      /\ openCount' = openCount + 1
  BY DEF OpenTable, Cached, Opened, Goto, CacheInv, CacheTypes
<1>2. Cardinality(Opened') = Cardinality(Opened) + 1
  BY <1>1, CountsAreNat, FS_AddElement
<1> QED BY <1>1, <1>2, CountsAreNat DEF CountInv, OpenTable, bounds

\* The table enters the cache: it was counted before.
LEMMA InsertTableCounts ==
    ASSUME CacheInv, CountInv, NEW t \in Thread, InsertTable(t) PROVE CountInv'
<1>1. cache[key[t]] = None /\ key[t] \in Key /\ ref[t] \in Inst
  BY DEF InsertTable, CacheInv, NotCached, KeyKnown, KeyHeld, Fresh
<1>2. /\ Cached' = Cached \cup {key[t]}
      /\ key[t] \notin Cached
      /\ Opened' = Opened \ {t}
      /\ t \in Opened
      /\ openCount' = openCount
  BY <1>1, NoneIsNobody DEF InsertTable, Cached, Opened, Goto, CacheInv, CacheTypes
<1>3. Cardinality(Opened') = Cardinality(Opened) - 1
  BY <1>2, CountsAreNat, FS_RemoveElement
<1>4. Cardinality(Cached') = Cardinality(Cached) + 1
  BY <1>2, CountsAreNat, FS_AddElement
<1> QED BY <1>2, <1>3, <1>4, CountsAreNat DEF CountInv, InsertTable, bounds

\* evict_lru takes a table out: one less.
LEMMA EvictOneCounts ==
    ASSUME CacheInv, CountInv, NEW t \in Thread, EvictOne(t) PROVE CountInv'
<1>1. PICK v \in todo[t] : cache' = [cache EXCEPT ![v] = None]
  BY DEF EvictOne
<1>2. v \in Key /\ cache[v] # None
  BY DEF EvictOne, CacheInv, CacheTypes, VictimsCached, TablesWritten
<1>3. /\ Cached' = Cached \ {v}
      /\ v \in Cached
      /\ Opened' = Opened
      /\ openCount' = openCount - 1
  BY <1>1, <1>2 DEF EvictOne, Cached, Opened, Goto, CacheInv, CacheTypes
<1>4. Cardinality(Cached') = Cardinality(Cached) - 1
  BY <1>3, CountsAreNat, FS_RemoveElement
<1> QED BY <1>3, <1>4, CountsAreNat DEF CountInv, EvictOne, bounds

\* close_table counts down only for a table it has found.
LEMMA CloseTableCounts ==
    ASSUME CacheInv, CountInv, NEW t \in Thread, CloseTable(t) PROVE CountInv'
<1>1. key[t] \in Key /\ cache' = [cache EXCEPT ![key[t]] = None]
  BY DEF CloseTable, CacheInv, KeyKnown
<1>2. /\ Cached' = Cached \ {key[t]}
      /\ key[t] \in Cached <=> cache[key[t]] # None
      /\ openCount' = IF cache[key[t]] # None THEN openCount - 1 ELSE openCount
  BY <1>1 DEF CloseTable, Cached, CacheInv, CacheTypes
<1>3. Opened' = Opened
  BY DEF CloseTable, Opened, Goto, Return, CacheInv, CacheTypes
<1>4. Cardinality(Cached') = IF key[t] \in Cached THEN Cardinality(Cached) - 1 ELSE Cardinality(Cached)
  BY <1>2, CountsAreNat, FS_RemoveElement
<1> QED BY <1>2, <1>3, <1>4, CountsAreNat DEF CountInv, CloseTable, bounds

\* CountInv is inductive relative to CacheInv.
LEMMA CountInvKept == CacheInv /\ CountInv /\ [Next]_vars => CountInv'
<1> SUFFICES ASSUME CacheInv, CountInv, [Next]_vars PROVE CountInv'
  OBVIOUS
<1>1. ASSUME NEW t \in Thread, Step(t) PROVE CountInv'
  BY <1>1, QuietSteps, OpenTableCounts, InsertTableCounts, EvictOneCounts, CloseTableCounts
     DEF Step
<1>2. ASSUME NEW t \in Thread, FlushDrain(t) PROVE CountInv'
  BY <1>2, QuietSteps
<1>3. ASSUME NEW t \in Thread, NEW k \in Key, NEW c \in WorkerCalls \cup ClientCalls,
             GetTable(t, k, c)
      PROVE  CountInv'
  <2>1. Opened' = Opened
    BY <1>3 DEF GetTable, Opened, Goto, CacheInv, CacheTypes
  <2> QED BY <1>3, <2>1, CountUnchanged DEF CountInv, GetTable, manager
<1>4. ASSUME NEW s \in OpsChoices, SetQueryPriorityKeys(s) PROVE CountInv'
  <2>1. Opened' = Opened
    BY <1>4 DEF SetQueryPriorityKeys, Opened
  <2> QED BY <1>4, <2>1, CountUnchanged, OpsNameTables DEF CountInv, SetQueryPriorityKeys, locals
<1>5. CASE UNCHANGED vars
  <2>1. Opened' = Opened
    BY <1>5 DEF vars, Opened
  <2> QED BY <1>5, <2>1, CountUnchanged DEF CountInv, vars, manager, locals, bounds
<1> QED BY <1>1, <1>2, <1>3, <1>4, <1>5 DEF Next, Done

\* CountInv holds at the start: nothing is open.
LEMMA CountInvInit == Init => CountInv
<1> SUFFICES ASSUME Init PROVE CountInv
  OBVIOUS
<1>1. Cached = {} /\ Opened = {}
  BY DEF Init, Cached, Opened
<1> QED BY <1>1, FS_EmptySet DEF Init, CountInv

\* The state of the cache is well formed for any number of threads and tables;
\* open_count, which is decremented without a check, never wraps.
THEOREM CacheTypeCorrect == Spec => []TypeOK
<1>1. CacheInv /\ CountInv => TypeOK
  BY CountsAreNat DEF TypeOK, CacheInv, CacheTypes, CountInv
<1>2. Spec => []CountInv
  BY CacheInvariant, CountInvInit, CountInvKept, PTL DEF Spec
<1> QED BY <1>1, <1>2, CacheInvariant, PTL

-----------------------------------------------------------------------------
(* The inductive invariant of CacheIsBounded                               *)

\* Threads that will open a table, or have, and have yet to cache it: those
\* that max_open no longer holds back.
Busy == {t \in Thread : pc[t] \in {"open", "opened"}}

\* The limit as evict_lru respects it: one table can always be opened.
Limit == IF MaxOpenHard = 0 THEN 1 ELSE MaxOpenHard

\* Every thread beyond the limit is counted once: when it passes the check the
\* cache is below the limit, when it comes out of evict_lru it has made room,
\* or found nothing to evict.
BoundInv ==
    /\ Cardinality(Cached) + Cardinality(Busy) < Limit + Cardinality(Thread)
    /\ \A t \in Thread : pc[t] = "evict" => surplus[t] > 0
    /\ \A t \in Thread : pc[t] \in TablesWritten =>
         Cardinality(Cached \ todo[t]) + Cardinality(Busy) + 1 < Limit + Cardinality(Thread)

\* The sets of BoundInv are finite, and there are no more busy threads than threads.
LEMMA BoundsAreNat ==
    /\ IsFiniteSet(Thread) /\ Cardinality(Thread) \in Nat
    /\ IsFiniteSet(Busy) /\ Cardinality(Busy) \in Nat
    /\ \A T \in SUBSET Key : IsFiniteSet(T) /\ Cardinality(T) \in Nat
    /\ \A B \in SUBSET Thread : IsFiniteSet(B) /\ Cardinality(B) \in Nat
    /\ Limit \in Nat \ {0}
<1>1. IsFiniteSet(Thread)
  BY FinitelyMany, FS_Union DEF Thread
<1>2. \A B \in SUBSET Thread : IsFiniteSet(B) /\ Cardinality(B) \in Nat
  BY <1>1, FS_Subset, FS_CardinalityType
<1>3. \A T \in SUBSET Key : IsFiniteSet(T) /\ Cardinality(T) \in Nat
  BY FinitelyMany, FS_Subset, FS_CardinalityType
<1>4. Busy \in SUBSET Thread
  BY DEF Busy
<1> QED BY <1>1, <1>2, <1>3, <1>4, FS_CardinalityType, LimitsAreNat DEF Limit

\* A set of threads that leaves one out is smaller than all the threads.
LEMMA FewerThreads ==
    ASSUME NEW B \in SUBSET Thread, NEW t \in Thread, t \notin B
    PROVE  Cardinality(B) + 1 <= Cardinality(Thread)
<1>1. B \cup {t} \in SUBSET Thread
  OBVIOUS
<1>2. Cardinality(B \cup {t}) = Cardinality(B) + 1
  BY BoundsAreNat, FS_AddElement
<1> QED BY <1>1, <1>2, BoundsAreNat, FS_Subset

\* Nothing is cached, nobody passes the limit, no victim is spared: kept.
LEMMA BoundKept ==
    ASSUME BoundInv, CacheTypes, CacheTypes',
           Cached' \subseteq Cached, Busy' \subseteq Busy,
           \A t \in Thread : pc'[t] = "evict" => pc[t] = "evict" /\ surplus'[t] = surplus[t],
           \A t \in Thread : pc'[t] \in TablesWritten =>
               pc[t] \in TablesWritten /\ Cached' \ todo'[t] \subseteq Cached \ todo[t]
    PROVE  BoundInv'
<1>1. Cached \subseteq Key /\ Busy \subseteq Thread
  BY DEF Cached, Busy
<1>2. /\ Cardinality(Cached') <= Cardinality(Cached) /\ Cardinality(Cached') \in Nat
      /\ Cardinality(Busy') <= Cardinality(Busy) /\ Cardinality(Busy') \in Nat
  BY <1>1, BoundsAreNat, FS_Subset
<1>3. Cardinality(Cached') + Cardinality(Busy') < Limit + Cardinality(Thread)
  BY <1>1, <1>2, BoundsAreNat DEF BoundInv
<1>4. ASSUME NEW t \in Thread, pc'[t] \in TablesWritten
      PROVE  Cardinality(Cached' \ todo'[t]) + Cardinality(Busy') + 1
               < Limit + Cardinality(Thread)
  <2>1. /\ Cached \ todo[t] \in SUBSET Key
        /\ Cached' \ todo'[t] \in SUBSET (Cached \ todo[t])
        /\ Cached' \ todo'[t] \in SUBSET Key
    BY <1>1, <1>4
  <2>2. Cardinality(Cached' \ todo'[t]) <= Cardinality(Cached \ todo[t])
    BY <2>1, BoundsAreNat, FS_Subset
  <2>3. Cardinality(Cached \ todo[t]) + Cardinality(Busy) + 1 < Limit + Cardinality(Thread)
    BY <1>4 DEF BoundInv
  <2> QED BY <1>2, <2>1, <2>2, <2>3, BoundsAreNat
<1>5. \A t \in Thread : pc'[t] = "evict" => surplus'[t] > 0
  BY DEF BoundInv
<1> HIDE DEF TablesWritten
<1> QED BY <1>3, <1>4, <1>5 DEF BoundInv, Limit

\* The check of max_open: whoever passes it found the cache below the limit.
LEMMA CheckLimitBounds ==
    ASSUME CacheInv, CacheInv', CountInv, BoundInv, NEW t \in Thread, CheckLimit(t)
    PROVE  BoundInv'
<1> USE DEF TablesWritten
<1>1. MaxOpen \in Nat /\ MaxOpen <= MaxOpenHard
  <2>1. Cardinality(ops) \in Nat
    BY FinitelyMany, FS_Subset, FS_CardinalityType DEF CountInv
  <2> QED BY <2>1, LimitsAreNat DEF MaxOpen
<1>2. Target \in Nat /\ (MaxOpen = 0 => Target = 0) /\ (MaxOpen > 0 => Target < MaxOpen)
  BY <1>1 DEF Target
<1>3. Cardinality(Cached) <= openCount /\ openCount \in Nat
  BY CountsAreNat DEF CountInv
<1>4. Cached' = Cached /\ todo' = todo
  BY DEF CheckLimit, Cached, manager
<1>5. CASE openCount >= MaxOpen /\ openCount > Target
  <2>1. pc' = [pc EXCEPT ![t] = "evict"] /\ surplus' = [surplus EXCEPT ![t] = openCount - Target]
    <3>1. openCount - Target > 0
      BY <1>2, <1>3, <1>5
    <3> QED BY <1>5, <3>1 DEF CheckLimit, Goto
  <2>2. Busy' \subseteq Busy
    BY <2>1 DEF Busy, CacheInv, CacheTypes
  <2>3. BoundInv!1' /\ BoundInv!3'
    <3>1. \A u \in Thread : pc'[u] \in TablesWritten => pc[u] \in TablesWritten
      BY <2>1 DEF CacheInv, CacheTypes
    <3>2. Cached \subseteq Key /\ Cardinality(Busy') <= Cardinality(Busy) /\ Cardinality(Busy') \in Nat
      BY <2>2, BoundsAreNat, FS_Subset DEF Cached, Busy
    <3> QED BY <1>4, <3>1, <3>2, BoundsAreNat DEF BoundInv, Limit
  <2>4. BoundInv!2'
    BY <1>2, <1>3, <1>5, <2>1 DEF BoundInv, CountInv, CacheInv, CacheTypes
  <2> QED BY <2>3, <2>4 DEF BoundInv
<1>6. CASE ~ (openCount >= MaxOpen /\ openCount > Target)
  <2>1. pc' = [pc EXCEPT ![t] = "open"] /\ surplus' = [surplus EXCEPT ![t] = 0]
    <3> DEFINE n == IF openCount >= MaxOpen /\ openCount > Target THEN openCount - Target ELSE 0
    <3>1. n = 0 /\ ~ (n > 0)
      BY <1>6
    <3> QED BY <3>1 DEF CheckLimit, Goto
  <2>2. Cardinality(Cached) < Limit
    BY <1>1, <1>2, <1>3, <1>6, CountsAreNat, LimitsAreNat DEF Limit
  <2>3. Busy' \in SUBSET Thread
    BY DEF Busy
  <2>4. Cardinality(Busy') <= Cardinality(Thread) /\ Cardinality(Busy') \in Nat
    BY <2>3, BoundsAreNat, FS_Subset
  <2>5. ASSUME NEW u \in Thread, pc'[u] \in TablesWritten
        PROVE  Cardinality(Cached' \ todo'[u]) + Cardinality(Busy') + 1
                 < Limit + Cardinality(Thread)
    <3>1. u \notin Busy'
      BY <2>5 DEF Busy
    <3>2. Cardinality(Busy') + 1 <= Cardinality(Thread)
      BY <2>3, <3>1, FewerThreads
    <3>3. Cached \in SUBSET Key /\ Cached \ todo[u] \in SUBSET Cached
      BY DEF Cached
    <3>4. Cardinality(Cached \ todo[u]) <= Cardinality(Cached)
          /\ Cardinality(Cached \ todo[u]) \in Nat
      BY <3>3, CountsAreNat, BoundsAreNat, FS_Subset
    <3> QED BY <1>4, <2>2, <2>4, <3>2, <3>4, CountsAreNat, BoundsAreNat
  <2>6. \A u \in Thread : pc'[u] = "evict" => surplus'[u] > 0
    BY <2>1 DEF BoundInv, CountInv, CacheInv, CacheTypes
  <2> HIDE DEF TablesWritten
  <2> QED BY <1>4, <2>2, <2>4, <2>5, <2>6, CountsAreNat, BoundsAreNat DEF BoundInv, Limit
<1> QED BY <1>5, <1>6

\* The table enters the cache and its thread is no longer busy.
LEMMA InsertTableBounds ==
    ASSUME CacheInv, CacheInv', BoundInv, NEW t \in Thread, InsertTable(t) PROVE BoundInv'
<1>1. cache[key[t]] = None /\ key[t] \in Key /\ ref[t] \in Inst
  BY DEF InsertTable, CacheInv, NotCached, KeyKnown, KeyHeld, Fresh
<1>2. /\ Cached' = Cached \cup {key[t]} /\ key[t] \notin Cached
      /\ Busy' = Busy \ {t} /\ t \in Busy
  BY <1>1, NoneIsNobody DEF InsertTable, Cached, Busy, Goto, CacheInv, CacheTypes
<1>3. /\ Cardinality(Busy') = Cardinality(Busy) - 1
      /\ Cardinality(Cached') = Cardinality(Cached) + 1
  BY <1>2, CountsAreNat, BoundsAreNat, FS_RemoveElement, FS_AddElement
<1>4. \A u \in Thread : pc'[u] \notin TablesWritten
  BY DEF InsertTable, TablesWritable, TablesWritten, Goto, CacheInv, CacheTypes
<1>5. \A u \in Thread : pc'[u] = "evict" => pc[u] = "evict" /\ surplus'[u] = surplus[u]
  BY DEF InsertTable, Goto, CacheInv, CacheTypes
<1> QED BY <1>3, <1>4, <1>5, CountsAreNat, BoundsAreNat DEF BoundInv, Limit

\* evict_lru chooses its victims: at least one, or all there are.
LEMMA LockTablesBounds ==
    ASSUME CacheInv, CacheInv', CountInv, BoundInv, NEW t \in Thread, LockTables(t) PROVE BoundInv'
<1>1. /\ Cached' = Cached
      /\ \A u \in Thread : pc[u] \notin TablesWritten
      /\ pc[t] = "evict" /\ surplus[t] \in Nat /\ surplus[t] > 0
  BY DEF LockTables, TablesWritable, TablesWritten, Cached, manager, BoundInv, CountInv
<1>2. \A u \in Thread : pc'[u] = "evict" => pc[u] = "evict" /\ surplus'[u] = surplus[u]
  BY DEF LockTables, Goto, CacheInv, CacheTypes, CountInv
<1>3. CASE Cached = {}
  <2>1. Busy' \in SUBSET Thread /\ \A u \in Thread : pc'[u] \notin TablesWritten
    BY <1>1, <1>3 DEF LockTables, Goto, TablesWritten, Busy, CacheInv, CacheTypes
  <2>2. Cardinality(Busy') <= Cardinality(Thread) /\ Cardinality(Busy') \in Nat
    BY <2>1, BoundsAreNat, FS_Subset
  <2>3. Cardinality(Cached') = 0
    BY <1>1, <1>3, FS_EmptySet
  <2> QED BY <1>2, <2>1, <2>2, <2>3, BoundsAreNat DEF BoundInv, Limit
<1>4. CASE Cached # {}
  <2>1. PICK victims \in SUBSET Cached :
          /\ IF surplus[t] < Cardinality(Cached)
             THEN Cardinality(victims) = surplus[t]
             ELSE victims = Cached
          /\ todo' = [todo EXCEPT ![t] = victims]
    BY DEF LockTables
  <2>2. pc' = [pc EXCEPT ![t] = "evicting"]
    BY <1>4 DEF LockTables, Goto
  <2>3. Busy' = Busy /\ t \notin Busy /\ Busy \in SUBSET Thread
    BY <1>1, <2>2 DEF Busy, CacheInv, CacheTypes
  <2>4. Cached \in SUBSET Key /\ todo'[t] = victims
    BY <2>1 DEF Cached, CacheInv, CacheTypes
  <2>5. Cardinality(Cached \ victims) + Cardinality(Busy) + 1 < Limit + Cardinality(Thread)
    <3>1. CASE surplus[t] < Cardinality(Cached)
      <4>1. Cardinality(victims) = surplus[t]
        BY <2>1, <3>1
      <4>2. Cardinality(Cached \ victims) = Cardinality(Cached) - Cardinality(Cached \cap victims)
        BY CountsAreNat, FS_Difference
      <4>3. Cached \cap victims = victims
        OBVIOUS
      <4>4. Cardinality(Cached \ victims) = Cardinality(Cached) - surplus[t]
        BY <4>1, <4>2, <4>3
      <4>5. Cardinality(Cached) + Cardinality(Busy) < Limit + Cardinality(Thread)
        BY DEF BoundInv
      <4> QED BY <1>1, <4>4, <4>5, CountsAreNat, BoundsAreNat
    <3>2. CASE ~ (surplus[t] < Cardinality(Cached))
      <4>1. Cached \ victims = {}
        BY <2>1, <3>2
      <4>2. Cardinality(Busy) + 1 <= Cardinality(Thread)
        BY <2>3, FewerThreads
      <4>3. Cardinality(Cached \ victims) = 0
        BY <4>1, FS_EmptySet
      <4> QED BY <4>2, <4>3, BoundsAreNat
    <3> QED BY <3>1, <3>2
  <2>6. \A u \in Thread : pc'[u] \in TablesWritten => u = t
    BY <1>1, <2>2 DEF TablesWritten, CacheInv, CacheTypes
  <2> QED BY <1>1, <1>2, <2>3, <2>4, <2>5, <2>6 DEF BoundInv, Limit
<1> QED BY <1>3, <1>4

\* evict_lru is done: its victims are gone, and its own table finds room.
LEMMA EvictEndBounds ==
    ASSUME CacheInv, CacheInv', BoundInv, NEW t \in Thread, EvictEnd(t) PROVE BoundInv'
<1>1. /\ Cached' = Cached /\ todo[t] = {} /\ pc[t] = "evicting"
      /\ pc' = [pc EXCEPT ![t] = "open"] /\ surplus' = surplus
  BY DEF EvictEnd, Goto, Cached, manager, locals
<1>2. Busy' = Busy \cup {t} /\ t \notin Busy
  BY <1>1 DEF Busy, CacheInv, CacheTypes
<1>3. Cardinality(Busy') = Cardinality(Busy) + 1
  BY <1>2, BoundsAreNat, FS_AddElement
<1>4. \A u \in Thread : pc'[u] \notin TablesWritten
  BY <1>1 DEF TablesWritten, CacheInv, CacheTypes, TablesMutex
<1>5. \A u \in Thread : pc'[u] = "evict" => pc[u] = "evict"
  BY <1>1 DEF CacheInv, CacheTypes
<1>6. Cardinality(Cached) + Cardinality(Busy) + 1 < Limit + Cardinality(Thread)
  <2>1. Cached \ todo[t] = Cached
    BY <1>1
  <2> QED BY <1>1, <2>1 DEF BoundInv, TablesWritten
<1> QED BY <1>1, <1>3, <1>4, <1>5, <1>6, CountsAreNat, BoundsAreNat DEF BoundInv, Limit

\* The steps after which nobody is nearer to the limit.
LEMMA OtherStepsBound ==
    ASSUME CacheInv, CacheInv', BoundInv, NEW t \in Thread,
           \/ LockKey(t) \/ Recheck(t) \/ OpenTable(t) \/ OpenFails(t) \/ EvictOne(t)
           \/ CloseVictim(t) \/ LockTable(t) \/ Apply(t) \/ Rewrite(t) \/ Read(t) \/ Release(t)
           \/ CloseTable(t) \/ CloseOut(t) \/ FlushLock(t) \/ FlushOne(t) \/ FlushEnd(t)
           \/ SaveState(t) \/ FlushDrain(t)
           \/ \E k \in Key, c \in WorkerCalls \cup ClientCalls : GetTable(t, k, c)
    PROVE  BoundInv'
<1> USE DEF LockKey, Recheck, OpenTable, OpenFails, EvictOne, CloseVictim, LockTable, Apply, Rewrite,
        Read, Release, CloseTable, CloseOut, FlushLock, FlushOne, FlushEnd, SaveState, FlushDrain,
        GetTable, manager, locals, Goto, Return, CacheTypes, TablesWritten
<1> CacheTypes /\ CacheTypes'
  BY DEF CacheInv
<1>1. Cached' \subseteq Cached
  BY DEF Cached
<1>2. Busy' \subseteq Busy
  BY DEF Busy
<1>3. \A u \in Thread : pc'[u] = "evict" => pc[u] = "evict" /\ surplus'[u] = surplus[u]
  OBVIOUS
<1>4. \A u \in Thread : pc'[u] \in TablesWritten =>
        pc[u] \in TablesWritten /\ Cached' \ todo'[u] \subseteq Cached \ todo[u]
  <2>1. CASE EvictOne(t)
    <3>1. PICK v \in todo[t] : cache' = [cache EXCEPT ![v] = None] /\ todo' = [todo EXCEPT ![t] = @ \ {v}]
      BY <2>1
    <3>2. \A u \in Thread : pc'[u] \in TablesWritten => u = t
      BY <2>1 DEF CacheInv, TablesMutex
    <3> QED BY <2>1, <3>1, <3>2, SMTT(60) DEF Cached
  <2>2. CASE ~ EvictOne(t)
    <3>1. \A u \in Thread : pc'[u] \in TablesWritten => pc[u] \in TablesWritten /\ todo'[u] = todo[u]
      <4>1. CASE LockKey(t) \/ Recheck(t) \/ OpenTable(t) \/ OpenFails(t) \/ CloseVictim(t) \/ LockTable(t)
        BY <4>1
      <4>2. CASE Apply(t) \/ Rewrite(t) \/ Read(t) \/ Release(t) \/ CloseTable(t) \/ CloseOut(t)
        BY <4>2
      <4>3. CASE FlushLock(t) \/ FlushOne(t) \/ FlushEnd(t) \/ SaveState(t) \/ FlushDrain(t)
        BY <4>3
      <4>4. ASSUME NEW k \in Key, NEW c \in WorkerCalls \cup ClientCalls, GetTable(t, k, c)
            PROVE  \A u \in Thread : pc'[u] \in TablesWritten =>
                       pc[u] \in TablesWritten /\ todo'[u] = todo[u]
        BY <4>4
      <4> HIDE DEF LockKey, Recheck, OpenTable, OpenFails, EvictOne, CloseVictim, LockTable, Apply,
              Rewrite, Read, Release, CloseTable, CloseOut, FlushLock, FlushOne, FlushEnd, SaveState,
              FlushDrain, GetTable
      <4> QED BY <2>2, <4>1, <4>2, <4>3, <4>4
    <3> QED BY <1>1, <3>1
  <2> QED BY <2>1, <2>2
<1> HIDE DEF LockKey, Recheck, OpenTable, OpenFails, EvictOne, CloseVictim, LockTable, Apply, Rewrite,
        Read, Release, CloseTable, CloseOut, FlushLock, FlushOne, FlushEnd, SaveState, FlushDrain,
        GetTable, manager, locals, Goto, Return, CacheTypes, TablesWritten
<1> QED BY <1>1, <1>2, <1>3, <1>4, BoundKept

\* BoundInv is inductive relative to CacheInv and CountInv.
LEMMA BoundInvKept == CacheInv /\ CacheInv' /\ CountInv /\ BoundInv /\ [Next]_vars => BoundInv'
<1> SUFFICES ASSUME CacheInv, CacheInv', CountInv, BoundInv, [Next]_vars PROVE BoundInv'
  OBVIOUS
<1>1. ASSUME NEW t \in Thread, Step(t) PROVE BoundInv'
  BY <1>1, CheckLimitBounds, InsertTableBounds, LockTablesBounds, EvictEndBounds, OtherStepsBound
     DEF Step
<1>2. ASSUME NEW t \in Thread, FlushDrain(t) PROVE BoundInv'
  BY <1>2, OtherStepsBound
<1>3. ASSUME NEW t \in Thread, NEW k \in Key, NEW c \in WorkerCalls \cup ClientCalls,
             GetTable(t, k, c)
      PROVE  BoundInv'
  BY <1>3, OtherStepsBound
<1>4. ASSUME UNCHANGED <<cache, pc, todo, surplus>> PROVE BoundInv'
  BY <1>4 DEF BoundInv, Cached, Busy, Limit
<1>5. ASSUME NEW s \in OpsChoices, SetQueryPriorityKeys(s) PROVE BoundInv'
  BY <1>4, <1>5 DEF SetQueryPriorityKeys, locals
<1>6. CASE UNCHANGED vars
  BY <1>4, <1>6 DEF vars, manager, locals
<1> QED BY <1>1, <1>2, <1>3, <1>5, <1>6 DEF Next, Done

\* BoundInv holds at the start, as there is a thread or nothing to do.
LEMMA BoundInvInit == Init => BoundInv
<1> SUFFICES ASSUME Init PROVE BoundInv
  OBVIOUS
<1>1. Cached = {} /\ Busy = {}
  BY DEF Init, Cached, Busy
<1>2. \A t \in Thread : pc[t] = "idle"
  BY DEF Init
<1> QED BY <1>1, <1>2, FS_EmptySet, BoundsAreNat DEF BoundInv, TablesWritten

\* For any number of threads and any limit: get_table_with_mode checks max_open
\* without a lock over all keys, and still no more tables are cached than the
\* limit and one for every other thread.
THEOREM CacheBoundTheorem == Spec => []CacheIsBounded
<1>1. BoundInv => CacheIsBounded
  BY CountsAreNat, BoundsAreNat DEF BoundInv, CacheIsBounded, Limit
<1>2. Spec => []CountInv
  BY CacheInvariant, CountInvInit, CountInvKept, PTL DEF Spec
<1>3. Spec => []BoundInv
  BY <1>2, CacheInvariant, BoundInvInit, BoundInvKept, PTL DEF Spec
<1> QED BY <1>1, <1>3, PTL
=============================================================================
