----------------------------- MODULE EngineProof -----------------------------
(***************************************************************************)
(* Proofs about the engine, for any number of starts, workers, requests,   *)
(* tasks and hours and for every scenario: the bill of the operation       *)
(* counter, what a read sees of the edits before it, and how many workers  *)
(* a profile may have.                                                     *)
(***************************************************************************)
EXTENDS Engine, FiniteSetTheorems, NaturalsInduction, SequenceTheorems, WellFoundedInduction, TLAPS

-----------------------------------------------------------------------------
(* The inductive invariant of BillIsRight                                  *)

Files == [is : {"whole", "torn", "absent"}, counts : Counts]

CounterTypes ==
    /\ hour \in Hour
    /\ counting \in BOOLEAN
    /\ buckets \in Counts
    /\ file \in Files
    /\ tmp \in Files
    /\ task \in [Task -> [pc : {"none", "asleep", "writing", "renaming"}, snap : Counts,
                          on : {"tmp", "file", "gone"}]]
    /\ beats \subseteq [at : Hour, counts : Counts]
    /\ billed \in Counts
    /\ real \in Counts
    /\ saved \in Counts
    /\ lost \in Counts
    /\ told \subseteq Hour

(* Wherever a count is kept, it counts no more than was answered.          *)
NothingInvented ==
    \A h \in Hour :
        /\ buckets[h] <= real[h]
        /\ file.counts[h] <= real[h]
        /\ tmp.counts[h] <= real[h]
        /\ \A t \in Task : task[t].snap[h] <= real[h]
        /\ \A b \in beats : b.counts[h] <= real[h]
        /\ billed[h] <= real[h]

(* A process that counts has a persistence task, one that does not has     *)
(* none and has counted nothing.                                           *)
TasksCount ==
    /\ IsFiniteSet(TasksRunning)
    /\ counting <=> TasksRunning # {}
    /\ ~ counting => buckets = NoCounts

(* A task that is alone at the temporary file renames what it has written, *)
(* so the file holds what its last persist saved.                          *)
LoneTask ==
    \A t \in Task : TasksRunning = {t} =>
        /\ file.counts = saved
        /\ task[t].on = "tmp"
        /\ task[t].pc = "renaming" => tmp = Whole(task[t].snap)

(* What is known of the hours that are still kept: by the counter, and     *)
(* between two processes by the file.                                      *)
KeptHours ==
    \A h \in Hour : h > hour - Retention =>
        IF counting THEN buckets[h] + lost[h] >= real[h] ELSE file.counts[h] + lost[h] >= real[h]

(* A heartbeat was sent in its hour with the final count of the hour       *)
(* before, to which nothing is added any more.                             *)
ReportsAreFinal ==
    /\ \A b \in beats :
         /\ b.at <= hour
         /\ b.at - 1 \in Hour => b.counts[b.at - 1] + lost[b.at - 1] >= real[b.at - 1]
    /\ \A h \in told : h < hour /\ billed[h] + lost[h] >= real[h]

CounterInv ==
    /\ CounterTypes
    /\ NothingInvented
    /\ TasksCount
    /\ LoneTask
    /\ KeptHours
    /\ ReportsAreFinal

USE HoursAreNumbered, RetentionCoversReports

LEMMA NoCountsCount == NoCounts \in Counts /\ \A h \in Hour : NoCounts[h] = 0
BY DEF NoCounts, Counts

\* Kept by op_counter::init: the first of a process restores the file.
LEMMA StartCounterKeeps == ASSUME CounterInv, StartCounter PROVE CounterInv'
<1> USE DEF CounterInv, CounterTypes, Files
<1>1. PICK t \in Task \ TasksRunning : task' = [task EXCEPT ![t] = Asleep]
  BY DEF StartCounter
<1>2. TasksRunning' = TasksRunning \cup {t}
  BY <1>1 DEF TasksRunning, Asleep
<1>3. CounterTypes'
  BY <1>1, NoCountsCount DEF StartCounter, Restored, Asleep
<1>4. NothingInvented'
  BY <1>1, NoCountsCount DEF StartCounter, Restored, Asleep, NothingInvented, Counts
<1>5. TasksCount'
  BY <1>2, FS_AddElement DEF TasksCount, StartCounter
<1>6. LoneTask'
  <2> SUFFICES ASSUME NEW u \in Task, TasksRunning' = {u}
               PROVE  /\ file'.counts = saved'
                      /\ task'[u].on = "tmp"
                      /\ task'[u].pc = "renaming" => tmp' = Whole(task'[u].snap)
    BY DEF LoneTask
  <2>1. TasksRunning = {} /\ u = t /\ ~ counting
    BY <1>2 DEF TasksCount
  <2> QED BY <1>1, <2>1 DEF StartCounter, Restored, Asleep
<1>7. KeptHours'
  BY DEF KeptHours, StartCounter, Restored
<1>8. ReportsAreFinal'
  BY DEF ReportsAreFinal, StartCounter
<1> QED BY <1>3, <1>4, <1>5, <1>6, <1>7, <1>8

\* Kept by bump: the counter and the truth go up together.
LEMMA BumpKeeps == ASSUME CounterInv, Bump PROVE CounterInv'
<1> USE DEF CounterInv, CounterTypes, Bump, Counts
<1>1. CounterTypes'
  OBVIOUS
<1>2. NothingInvented'
  <2>1. \A h \in Hour : /\ buckets'[h] - buckets[h] = real'[h] - real[h]
                        /\ real[h] <= real'[h]
    OBVIOUS
  <2> QED BY <2>1 DEF NothingInvented, Files
<1>3. TasksCount'
  BY DEF TasksCount, TasksRunning
<1>4. LoneTask'
  BY DEF LoneTask, TasksRunning
<1>5. KeptHours'
  BY DEF KeptHours
<1>6. ReportsAreFinal'
  <2>1. \A h \in Hour : h < hour => real'[h] = real[h]
    OBVIOUS
  <2>2. hour \in Nat /\ \A b \in beats : b.at \in Nat
    OBVIOUS
  <2> QED BY <2>1, <2>2 DEF ReportsAreFinal
<1> QED BY <1>1, <1>2, <1>3, <1>4, <1>5, <1>6

\* Kept by the clone that a persistence task takes, which drops old hours.
LEMMA PersistSnapshotKeeps ==
    ASSUME CounterInv, NEW t \in Task, PersistSnapshot(t) PROVE CounterInv'
<1> USE DEF CounterInv, CounterTypes, Counts
<1>1. /\ buckets' \in Counts
      /\ \A h \in Hour : buckets'[h] = IF h > hour - Retention THEN buckets[h] ELSE 0
  BY DEF PersistSnapshot, DropOldBuckets
<1>2. task' = [task EXCEPT ![t] = [pc |-> "writing", snap |-> buckets', on |-> "tmp"]]
  BY DEF PersistSnapshot
<1>3. Torn \in Files /\ \A h \in Hour : Torn.counts[h] = 0
  BY NoCountsCount DEF Torn, Files
<1>4. TasksRunning' = TasksRunning /\ t \in TasksRunning
  BY <1>2 DEF TasksRunning, PersistSnapshot
<1>5. CounterTypes'
  BY <1>1, <1>2, <1>3 DEF PersistSnapshot
<1>6. NothingInvented'
  <2>1. \A h \in Hour : buckets'[h] <= real[h]
    <3>1. \A h \in Hour : buckets[h] \in Nat /\ real[h] \in Nat /\ buckets[h] <= real[h]
      BY DEF NothingInvented
    <3> QED BY <1>1, <3>1
  <2>2. \A u \in Task : task'[u].snap = task[u].snap \/ task'[u].snap = buckets'
    BY <1>2
  <2>3. /\ tmp' = Torn /\ file' = file /\ beats' = beats /\ billed' = billed /\ real' = real
    BY DEF PersistSnapshot
  <2>4. \A h \in Hour : Torn.counts[h] <= real[h]
    <3>1. \A h \in Hour : real[h] \in Nat
      OBVIOUS
    <3> HIDE DEF CounterInv, CounterTypes, Counts
    <3> QED BY <1>3, <3>1
  <2>5. NothingInvented
    OBVIOUS
  <2> HIDE DEF CounterInv, CounterTypes, Counts
  <2>6. \A u \in Task : \A h \in Hour : task'[u].snap[h] <= real[h]
    BY <2>1, <2>2, <2>5 DEF NothingInvented
  <2> QED BY <2>1, <2>3, <2>4, <2>5, <2>6 DEF NothingInvented
<1>7. TasksCount'
  BY <1>4 DEF TasksCount, PersistSnapshot
<1>8. LoneTask'
  BY <1>2, <1>4 DEF LoneTask, PersistSnapshot
<1>9. KeptHours'
  BY <1>1 DEF KeptHours, PersistSnapshot
<1>10. ReportsAreFinal'
  BY DEF ReportsAreFinal, PersistSnapshot
<1> QED BY <1>5, <1>6, <1>7, <1>8, <1>9, <1>10

\* Kept by the write of the temporary file, or of what it has become.
LEMMA PersistWriteKeeps == ASSUME CounterInv, NEW t \in Task, PersistWrite(t) PROVE CounterInv'
<1> USE DEF CounterInv, CounterTypes, Counts
<1>1. PICK written \in WrittenBy(t) :
        /\ tmp' = IF task[t].on = "tmp" THEN written ELSE tmp
        /\ file' = IF task[t].on = "file" THEN written ELSE file
  BY DEF PersistWrite
<1>2. task' = [task EXCEPT ![t].pc = "renaming"] /\ task[t].pc = "writing"
  BY DEF PersistWrite
<1>3. TasksRunning' = TasksRunning /\ t \in TasksRunning
  BY <1>2 DEF TasksRunning
<1>4. /\ written \in Files
      /\ \A h \in Hour : written.counts[h] <= real[h]
  BY NoCountsCount DEF WrittenBy, Whole, Torn, Files, NothingInvented
<1>5. CounterTypes'
  BY <1>1, <1>2, <1>4 DEF PersistWrite
<1>6. NothingInvented'
  BY <1>1, <1>2, <1>4 DEF NothingInvented, PersistWrite
<1>7. TasksCount'
  BY <1>3 DEF TasksCount, PersistWrite
<1>8. LoneTask'
  <2> SUFFICES ASSUME NEW u \in Task, TasksRunning' = {u}
               PROVE  /\ file'.counts = saved'
                      /\ task'[u].on = "tmp"
                      /\ task'[u].pc = "renaming" => tmp' = Whole(task'[u].snap)
    BY DEF LoneTask
  <2>1. u = t /\ TasksRunning = {t}
    BY <1>3
  <2>2. task[t].on = "tmp" /\ file.counts = saved
    BY <2>1 DEF LoneTask
  <2>3. written = Whole(task[t].snap)
    BY <2>1 DEF WrittenBy, TasksRunning
  <2> QED BY <1>1, <1>2, <2>1, <2>2, <2>3 DEF PersistWrite
<1>9. KeptHours'
  BY <1>3 DEF KeptHours, TasksCount, PersistWrite
<1>10. ReportsAreFinal'
  BY DEF ReportsAreFinal, PersistWrite
<1> QED BY <1>5, <1>6, <1>7, <1>8, <1>9, <1>10

\* Kept by the rename: a lone task puts its own snapshot in place.
LEMMA PersistRenameKeeps == ASSUME CounterInv, NEW t \in Task, PersistRename(t) PROVE CounterInv'
<1> USE DEF CounterInv, CounterTypes, Counts
<1>1. /\ file' = tmp /\ tmp' = Absent /\ saved' = task[t].snap
      /\ task[t].pc = "renaming"
      /\ task' = [u \in Task |->
                    IF u = t THEN Asleep
                    ELSE IF task[u].pc = "writing" THEN [task[u] EXCEPT !.on = MovedOn(@)]
                    ELSE task[u]]
  BY DEF PersistRename
<1>2. Absent \in Files /\ \A h \in Hour : Absent.counts[h] = 0
  BY NoCountsCount DEF Absent, Files
<1>3. TasksRunning' = TasksRunning /\ t \in TasksRunning
  BY <1>1 DEF TasksRunning, Asleep
<1>4. CounterTypes'
  BY <1>1, <1>2, NoCountsCount DEF PersistRename, Asleep, MovedOn
<1>5. NothingInvented'
  <2>1. \A u \in Task : task'[u].snap = task[u].snap \/ task'[u].snap = NoCounts
    BY <1>1 DEF Asleep
  <2> QED BY <1>1, <1>2, <2>1, NoCountsCount DEF NothingInvented, PersistRename
<1>6. TasksCount'
  BY <1>3 DEF TasksCount, PersistRename
<1>7. LoneTask'
  BY <1>1, <1>3 DEF LoneTask, Asleep, Whole
<1>8. KeptHours'
  BY <1>3 DEF KeptHours, TasksCount, PersistRename
<1>9. ReportsAreFinal'
  BY DEF ReportsAreFinal, PersistRename
<1> QED BY <1>4, <1>5, <1>6, <1>7, <1>8, <1>9

\* Kept by a rename that finds no temporary file, which a lone task never meets.
LEMMA PersistFailsKeeps == ASSUME CounterInv, NEW t \in Task, PersistFails(t) PROVE CounterInv'
<1> USE DEF CounterInv, CounterTypes, Counts
<1>1. task' = [task EXCEPT ![t] = Asleep] /\ task[t].pc = "renaming"
  BY DEF PersistFails
<1>2. TasksRunning' = TasksRunning
  BY <1>1 DEF TasksRunning, Asleep
<1>3. CounterTypes'
  BY <1>1, NoCountsCount DEF PersistFails, Asleep
<1>4. NothingInvented'
  <2>1. UNCHANGED <<buckets, file, tmp, beats, billed, real>> /\ real \in [Hour -> Nat]
    BY DEF PersistFails
  <2>2. \A h \in Hour, u \in Task : task'[u].snap[h] <= real[h]
    <3>1. \A h \in Hour : Asleep.snap[h] = 0 /\ 0 <= real[h]
      BY <2>1 DEF Asleep, NoCounts
    <3>2. \A u \in Task : task'[u] = IF u = t THEN Asleep ELSE task[u]
      BY <1>1
    <3> QED
      BY <3>1, <3>2 DEF NothingInvented
  <2> QED
    BY <2>1, <2>2 DEF NothingInvented
<1>5. TasksCount'
  BY <1>2 DEF TasksCount, PersistFails
<1>6. LoneTask'
  BY <1>1, <1>2 DEF LoneTask, Asleep, PersistFails
<1>7. KeptHours'
  BY DEF KeptHours, PersistFails
<1>8. ReportsAreFinal'
  BY DEF ReportsAreFinal, PersistFails
<1> QED BY <1>3, <1>4, <1>5, <1>6, <1>7, <1>8

\* Kept by a heartbeat: the hour before is over and its count is final.
LEMMA SendHeartbeatKeeps == ASSUME CounterInv, SendHeartbeat PROVE CounterInv'
<1> USE DEF CounterInv, CounterTypes, Counts
<1> DEFINE b == HeartbeatSnapshot
<1>1. /\ b.at = hour
      /\ b.counts = [h \in Hour |-> IF h \in {hour - 1, hour} THEN buckets[h] ELSE 0]
      /\ b \in [at : Hour, counts : Counts]
  BY DEF HeartbeatSnapshot
<1>2. beats' = beats \cup {b} /\ counting
  BY DEF SendHeartbeat
<1> HIDE DEF b
<1>3. CounterTypes'
  BY <1>1, <1>2 DEF SendHeartbeat
<1>4. NothingInvented'
  <2>1. \A h \in Hour : b.counts[h] <= real[h]
    BY <1>1 DEF NothingInvented
  <2> QED BY <1>2, <2>1 DEF NothingInvented, SendHeartbeat
<1>5. TasksCount'
  BY DEF TasksCount, TasksRunning, SendHeartbeat
<1>6. LoneTask'
  BY DEF LoneTask, TasksRunning, SendHeartbeat
<1>7. KeptHours'
  BY DEF KeptHours, SendHeartbeat
<1>8. ReportsAreFinal'
  <2>1. b.at <= hour
    BY <1>1
  <2>2. ASSUME b.at - 1 \in Hour
        PROVE  b.counts[b.at - 1] + lost[b.at - 1] >= real[b.at - 1]
    <3>1. hour - 1 \in Hour /\ hour - 1 > hour - Retention /\ b.counts[hour - 1] = buckets[hour - 1]
      BY <1>1, <2>2
    <3> QED BY <1>1, <1>2, <3>1 DEF KeptHours
  <2> QED BY <1>2, <2>1, <2>2 DEF ReportsAreFinal, SendHeartbeat
<1> QED BY <1>3, <1>4, <1>5, <1>6, <1>7, <1>8

\* Kept by the control plane's upsert, in whatever order heartbeats arrive.
LEMMA DeliverHeartbeatKeeps ==
    ASSUME CounterInv, NEW b \in beats, DeliverHeartbeat(b) PROVE CounterInv'
<1> USE DEF CounterInv, CounterTypes, Counts
<1>1. /\ beats' = beats \ {b}
      /\ told' = told \cup ({b.at - 1} \cap Hour)
      /\ billed' \in Counts
      /\ \A h \in Hour : billed'[h] >= billed[h] /\ billed'[h] >= b.counts[h]
      /\ \A h \in Hour : billed'[h] \in {billed[h], b.counts[h]}
  BY DEF DeliverHeartbeat, Upserted
<1>2. CounterTypes'
  BY <1>1 DEF DeliverHeartbeat
<1>3. NothingInvented'
  <2>1. \A h \in Hour : billed'[h] <= real[h]
    BY <1>1 DEF NothingInvented
  <2> QED BY <1>1, <2>1 DEF NothingInvented, DeliverHeartbeat
<1>4. TasksCount'
  BY DEF TasksCount, TasksRunning, DeliverHeartbeat
<1>5. LoneTask'
  BY DEF LoneTask, TasksRunning, DeliverHeartbeat
<1>6. KeptHours'
  BY DEF KeptHours, DeliverHeartbeat
<1>7. ReportsAreFinal'
  <2>1. ASSUME NEW h \in told' PROVE h < hour /\ billed'[h] + lost[h] >= real[h]
    <3>1. CASE h \in told
      BY <1>1, <3>1 DEF ReportsAreFinal
    <3>2. CASE h = b.at - 1 /\ h \in Hour
      <4>1. b.at <= hour /\ b.at \in Nat /\ b.counts[h] + lost[h] >= real[h]
        BY <3>2 DEF ReportsAreFinal
      <4>2. b.counts[h] \in Nat
        BY <3>2
      <4> QED BY <1>1, <3>2, <4>1, <4>2
    <3> QED BY <1>1, <3>1, <3>2
  <2> QED BY <1>1, <2>1 DEF ReportsAreFinal, DeliverHeartbeat
<1> QED BY <1>2, <1>3, <1>4, <1>5, <1>6, <1>7

\* Kept by the loss of a heartbeat.
LEMMA LoseHeartbeatKeeps == ASSUME CounterInv, NEW b \in beats, LoseHeartbeat(b) PROVE CounterInv'
BY DEF CounterInv, CounterTypes, NothingInvented, TasksCount, TasksRunning, LoneTask, KeptHours,
       ReportsAreFinal, LoseHeartbeat

\* Kept by the clock: fewer hours are kept, and none that is reported changes.
LEMMA HourPassesKeeps == ASSUME CounterInv, HourPasses PROVE CounterInv'
<1> USE DEF CounterInv, CounterTypes
<1>1. hour \in Nat /\ \A b \in beats : b.at \in Nat
  OBVIOUS
<1>2. CounterTypes'
  BY DEF HourPasses
<1>3. NothingInvented' /\ TasksCount' /\ LoneTask'
  BY DEF HourPasses, NothingInvented, TasksCount, TasksRunning, LoneTask
<1>4. KeptHours'
  <2>1. \A h \in Hour : h > hour' - Retention => h > hour - Retention
    BY <1>1 DEF HourPasses
  <2> QED BY <2>1 DEF KeptHours, HourPasses
<1>5. ReportsAreFinal'
  BY <1>1 DEF ReportsAreFinal, HourPasses
<1> QED BY <1>2, <1>3, <1>4, <1>5

\* Kept by the death of the process: what the file does not hold is put to lost.
LEMMA CounterDiesKeeps == ASSUME CounterInv, CounterDies PROVE CounterInv'
<1> USE DEF CounterInv, CounterTypes, Counts
<1>1. Kept = file.counts
  <2>1. CASE Cardinality(TasksRunning) = 1
    <3>1. PICK t : TasksRunning = {t}
      BY <2>1, FS_Singleton DEF TasksCount
    <3>2. t \in Task
      BY <3>1 DEF TasksRunning
    <3> QED BY <2>1, <3>1, <3>2 DEF LoneTask, Kept
  <2>2. CASE Cardinality(TasksRunning) # 1
    BY <2>2 DEF Kept, Restored
  <2> QED BY <2>1, <2>2
<1>2. /\ Forgotten \in Counts
      /\ \A h \in Hour : Forgotten[h] + file.counts[h] >= buckets[h]
  BY <1>1 DEF Forgotten, Files
<1>3. /\ lost' \in Counts
      /\ \A h \in Hour : lost'[h] = lost[h] + Forgotten[h]
  BY <1>2 DEF CounterDies
<1>4. TasksRunning' = {} /\ task' = [t \in Task |-> NoTask]
  BY DEF CounterDies, TasksRunning, NoTask
<1>5. NoTask \in [pc : {"none", "asleep", "writing", "renaming"}, snap : Counts,
                  on : {"tmp", "file", "gone"}]
      /\ NoTask.snap = NoCounts
  BY NoCountsCount DEF NoTask, Asleep
<1>6. CounterTypes'
  BY <1>3, <1>4, <1>5, NoCountsCount DEF CounterDies
<1>7. NothingInvented'
  BY <1>4, <1>5, NoCountsCount DEF NothingInvented, CounterDies
<1>8. TasksCount'
  BY <1>4, FS_EmptySet DEF TasksCount, CounterDies
<1>9. LoneTask'
  BY <1>4 DEF LoneTask
<1>10. KeptHours'
  <2> SUFFICES ASSUME NEW h \in Hour, h > hour - Retention
               PROVE  file.counts[h] + lost'[h] >= real[h]
    BY DEF KeptHours, CounterDies
  <2>1. /\ file.counts[h] \in Nat /\ lost[h] \in Nat /\ real[h] \in Nat /\ buckets[h] \in Nat
        /\ Forgotten[h] \in Nat
    BY <1>2 DEF Files
  <2>2. CASE counting
    <3>1. buckets[h] + lost[h] >= real[h]
      BY <2>2 DEF KeptHours
    <3> QED BY <1>2, <1>3, <2>1, <3>1
  <2>3. CASE ~ counting
    <3>1. file.counts[h] + lost[h] >= real[h]
      BY <2>3 DEF KeptHours
    <3> QED BY <1>3, <2>1, <3>1
  <2> QED BY <2>2, <2>3
<1>11. ReportsAreFinal'
  <2>1. \A h \in Hour : lost'[h] >= lost[h] /\ lost[h] \in Nat /\ lost'[h] \in Nat
    BY <1>2, <1>3
  <2>2. \A h \in Hour : real[h] \in Nat /\ billed[h] \in Nat /\ \A b \in beats : b.counts[h] \in Nat
    OBVIOUS
  <2>3. ASSUME NEW n \in Nat, NEW h \in Hour, n + lost[h] >= real[h]
        PROVE  n + lost'[h] >= real[h]
    BY <2>1, <2>2, <2>3
  <2>4. ASSUME NEW b \in beats, b.at - 1 \in Hour
        PROVE  b.counts[b.at - 1] + lost'[b.at - 1] >= real[b.at - 1]
    BY <2>2, <2>3, <2>4 DEF ReportsAreFinal
  <2>5. ASSUME NEW h \in told PROVE billed[h] + lost'[h] >= real[h]
    BY <2>2, <2>3 DEF ReportsAreFinal
  <2> QED BY <2>4, <2>5 DEF ReportsAreFinal, CounterDies
<1> QED BY <1>6, <1>7, <1>8, <1>9, <1>10, <1>11

-----------------------------------------------------------------------------
(* The counter in the engine                                               *)

\* What a step of the engine may do to the counter.
CounterMove ==
    \/ StartCounter \/ Bump \/ SendHeartbeat \/ HourPasses \/ CounterDies
    \/ \E t \in Task : PersistSnapshot(t) \/ PersistWrite(t) \/ PersistRename(t) \/ PersistFails(t)
    \/ \E b \in beats : DeliverHeartbeat(b) \/ LoseHeartbeat(b)
    \/ UNCHANGED counterVars

\* Every step of the engine is one of those.
LEMMA CounterMoves == [Next]_vars => CounterMove
<1> SUFFICES ASSUME [Next]_vars PROVE CounterMove
  OBVIOUS
<1>1. ASSUME LifeStep \/ SpawnStep \/ UserStep \/ FaultStep PROVE CounterMove
  BY <1>1 DEF LifeStep, SpawnStep, UserStep, FaultStep, LifeOnly, CounterMove
<1>2. ASSUME RequestStep \/ ArrivalStep \/ ReloadStep PROVE CounterMove
  BY <1>2 DEF RequestStep, ArrivalStep, ReloadStep, CounterMove
<1>3. ASSUME CounterStep \/ ClockStep \/ NetworkStep PROVE CounterMove
  BY <1>3 DEF CounterStep, ClockStep, NetworkStep, CounterMove
<1>4. ASSUME StartStep \/ AnswerStep \/ GrpcStep \/ CrashStep PROVE CounterMove
  BY <1>4 DEF StartStep, AnswerStep, GrpcStep, CrashStep, CounterMove
<1>5. CASE UNCHANGED vars
  BY <1>5 DEF vars, CounterMove
<1> QED BY <1>1, <1>2, <1>3, <1>4, <1>5 DEF Next

\* CounterInv is inductive.
LEMMA CounterInvKept == CounterInv /\ [Next]_vars => CounterInv'
<1> SUFFICES ASSUME CounterInv, CounterMove PROVE CounterInv'
  BY CounterMoves
<1>1. CASE UNCHANGED counterVars
  BY <1>1 DEF counterVars, CounterInv, CounterTypes, NothingInvented, TasksCount, TasksRunning,
              LoneTask, KeptHours, ReportsAreFinal
<1> QED BY <1>1, StartCounterKeeps, BumpKeeps, SendHeartbeatKeeps, HourPassesKeeps, CounterDiesKeeps,
           PersistSnapshotKeeps, PersistWriteKeeps, PersistRenameKeeps, PersistFailsKeeps,
           DeliverHeartbeatKeeps, LoseHeartbeatKeeps
        DEF CounterMove

\* CounterInv holds at the start: nothing was counted.
LEMMA CounterInvInit == Init => CounterInv
<1> SUFFICES ASSUME CounterInit PROVE CounterInv
  BY DEF Init
<1>1. TasksRunning = {}
  BY DEF CounterInit, TasksRunning, NoTask
<1>2. NoTask \in [pc : {"none", "asleep", "writing", "renaming"}, snap : Counts,
                  on : {"tmp", "file", "gone"}]
      /\ NoTask.snap = NoCounts
  BY NoCountsCount DEF NoTask, Asleep
<1>3. Absent \in Files /\ Absent.counts = NoCounts
  BY NoCountsCount DEF Absent, Files
<1>4. CounterTypes
  BY <1>2, <1>3, NoCountsCount DEF CounterInit, CounterTypes
<1>5. NothingInvented
  BY <1>2, <1>3, NoCountsCount DEF CounterInit, NothingInvented
<1>6. TasksCount /\ LoneTask
  BY <1>1, FS_EmptySet DEF CounterInit, TasksCount, LoneTask
<1>7. KeptHours /\ ReportsAreFinal
  BY <1>3, NoCountsCount DEF CounterInit, KeptHours, ReportsAreFinal
<1> QED BY <1>4, <1>5, <1>6, <1>7 DEF CounterInv

\* For any number of hours, starts, tasks, crashes and heartbeats lost or late:
\* op_counter.rs never reports an operation that was not answered, and forgets
\* one only if the process dies before it is written.
THEOREM BillTheorem == Spec => []BillIsRight
<1>1. CounterInv => BillIsRight
  BY DEF CounterInv, CounterTypes, Counts, NothingInvented, KeptHours, ReportsAreFinal, BillIsRight
<1> QED BY <1>1, CounterInvInit, CounterInvKept, PTL DEF Spec

-----------------------------------------------------------------------------
(* The inductive invariant of OneWorkerPerProfile                          *)

EnginePcs == {"off", "staging", "receiving", "opening", "waiting", "woken", "interrupted",
              "finalizing", "stopped"}

EngineRecord ==
    [pc : EnginePcs, queue : SUBSET Profile, deferred : SUBSET Profile, staged : Worker \cup {0}]
WorkerRecord ==
    [st : {"unborn", "connecting", "starting", "live", "fatal", "notifying", "ending", "gone"},
     prof : Profile \cup {None}, start : Start \cup {0}, by : {None, "stage", "retry", "reload"},
     report : {None, "live", "failed"}, late : BOOLEAN]

\* What BudgetsAreScenarios says of a budget.
Scenario ==
    [from : {"menu", "shell"}, profiles : SUBSET Profile, grpc : Nat, spawns : Nat, user : Nat,
     faults : Nat, reloads : Nat, reads : Nat, edits : Nat, crashes : Nat, persists : Nat,
     hours : Nat, beats : Nat]

LifeTypes ==
    /\ handles \subseteq Worker
    /\ current \in Start \cup {0}
    /\ engine \in [Start -> EngineRecord]
    /\ ports \in [Start -> {"off", "binding", "up", "closed"}]
    /\ worker \in [Worker -> WorkerRecord]
    /\ retries \subseteq [start : Start, prof : Profile, on : Worker \cup {0}]
    /\ user \in {"menu", "shell", "starting", "launch", "monitor", "leaving", "engine"}
    /\ joins \in [Joiner -> {None} \cup SUBSET Worker]
    /\ orphans \subseteq Worker
    /\ budget \in Scenario

\* Only what was launched runs, listens or has workers.
Launched ==
    /\ \A s \in Start : engine[s].pc # "off" \/ ports[s] # "off" => s <= current
    /\ \A w \in Worker :
         worker[w].st # "unborn" => worker[w].start \in 1 .. current /\ worker[w].prof \in Profile
    /\ \A r \in retries : r.start <= current
    /\ user = "shell" => current = 0
    /\ user = "engine" => current # 0

\* The handle of a thread that has not ended is registered, with a join that has
\* taken it, or given up.
HandlesKept ==
    \A w \in Worker : ~ Finished(w) =>
        \/ w \in handles
        \/ w \in orphans
        \/ \E j \in Joiner : Joining(j) /\ w \in joins[j]

\* A task joins while it finalizes, the menu between two of its screens.
JoinersWait ==
    /\ \A s \in Start : Joining(s) => engine[s].pc = "finalizing"
    /\ Joining(TheMenu) => user \in {"starting", "leaving"}

\* A new start begins when the one before was halted, so that a worker whose
\* handle is registered belongs to the current start, or was born too late.
OldStartsHalted ==
    /\ \A s \in 1 .. current :
         s < current \/ user \in {"starting", "launch"} => s \in halted
    /\ \A w \in handles :
         worker[w].st = "unborn" \/ worker[w].late
         \/ (worker[w].start = current /\ user \notin {"starting", "launch"})

\* The workers of a start and a profile that staging or a retry has spawned and
\* that may still come to replicate.
Alive(w) == worker[w].st \in {"connecting", "starting", "live"}
Own(s, p) ==
    {w \in Worker : Alive(w) /\ worker[w].start = s /\ worker[w].prof = p /\ worker[w].by # "reload"}

\* A worker that has reported a failure is past replicating.
FailedIsOver == \A w \in Worker : worker[w].report = "failed" => ~ Alive(w)

\* One after another: a profile is queued, staged, deferred and retried, and
\* never has a second worker while it may have a first.
AtMostOne == \A s \in Start, p \in Profile : \A v, w \in Own(s, p) : v = w
QueuedHaveNone ==
    /\ \A s \in Start : \A p \in engine[s].queue : Own(s, p) = {} /\ p \notin engine[s].deferred
    /\ \A s \in Start : engine[s].queue # {} => engine[s].pc \in {"staging", "receiving"}
DeferredHaveNone ==
    \A s \in Start : engine[s].pc \in {"off", "staging", "receiving"} =>
        /\ \A p \in engine[s].deferred : Own(s, p) = {}
        /\ \A r \in retries : r.start # s
StagedIsOnly ==
    \A s \in Start : engine[s].pc = "receiving" =>
        \E w \in Worker :
            /\ engine[s].staged = w
            /\ worker[w].st # "unborn"
            /\ worker[w].prof \in Profile
            /\ worker[w].prof \notin engine[s].queue
            /\ \A v \in Worker : Alive(v) /\ worker[v].start = s /\ worker[v].by # "reload"
                                 /\ worker[v].prof = worker[w].prof => v = w
RetriedIsOnly ==
    /\ \A r \in retries : Own(r.start, r.prof) \subseteq {r.on}
    /\ \A q, r \in retries : q.start = r.start /\ q.prof = r.prof => q = r

OneOwner == AtMostOne /\ QueuedHaveNone /\ DeferredHaveNone /\ StagedIsOnly /\ RetriedIsOnly

LifeInv ==
    /\ LifeTypes
    /\ Launched
    /\ HandlesKept
    /\ JoinersWait
    /\ OldStartsHalted
    /\ FailedIsOver
    /\ OneOwner

USE StartsAreNumbered, NoneIsNoValue

\* No worker is born, changes its start or profile, or comes back to life.
WorkersCalm ==
    /\ worker' \in [Worker -> WorkerRecord]
    /\ \A v \in Worker :
         /\ worker'[v].prof = worker[v].prof /\ worker'[v].start = worker[v].start
         /\ worker'[v].by = worker[v].by /\ worker'[v].late = worker[v].late
         /\ worker'[v].st = "unborn" <=> worker[v].st = "unborn"
         /\ worker[v].st = "gone" => worker'[v].st = "gone"
         /\ Alive(v)' => Alive(v)
         /\ worker'[v].report = "failed" => ~ Alive(v)'

\* No engine begins, goes on with or ends its staging.
EnginesCalm ==
    /\ engine' \in [Start -> EngineRecord]
    /\ \A s \in Start :
         /\ engine'[s].queue = engine[s].queue
         /\ engine'[s].deferred = engine[s].deferred
         /\ engine'[s].staged = engine[s].staged
         /\ \/ engine'[s].pc = engine[s].pc
            \/ {engine'[s].pc, engine[s].pc} \cap {"off", "staging", "receiving"} = {}

\* Then the profiles keep their owners.
LEMMA OwnersKept == ASSUME LifeInv, WorkersCalm, EnginesCalm, retries' = retries PROVE OneOwner'
<1>1. \A s, p : Own(s, p)' \subseteq Own(s, p)
  BY DEF LifeInv, LifeTypes, WorkersCalm, Own
<1>2. AtMostOne'
  BY <1>1 DEF LifeInv, OneOwner, AtMostOne
<1>3. QueuedHaveNone'
  BY <1>1 DEF LifeInv, OneOwner, EnginesCalm, QueuedHaveNone
<1>4. DeferredHaveNone'
  BY <1>1 DEF LifeInv, OneOwner, EnginesCalm, DeferredHaveNone
<1>5. StagedIsOnly'
  <2> SUFFICES ASSUME NEW s \in Start, engine'[s].pc = "receiving"
               PROVE  \E w \in Worker :
                        /\ engine'[s].staged = w
                        /\ worker'[w].st # "unborn"
                        /\ worker'[w].prof \in Profile
                        /\ worker'[w].prof \notin engine'[s].queue
                        /\ \A v \in Worker :
                             Alive(v)' /\ worker'[v].start = s /\ worker'[v].by # "reload"
                             /\ worker'[v].prof = worker'[w].prof => v = w
    BY DEF StagedIsOnly
  <2>1. engine[s].pc = "receiving"
    BY DEF EnginesCalm
  <2>2. PICK w \in Worker :
          /\ engine[s].staged = w
          /\ worker[w].st # "unborn"
          /\ worker[w].prof \in Profile
          /\ worker[w].prof \notin engine[s].queue
          /\ \A v \in Worker : Alive(v) /\ worker[v].start = s /\ worker[v].by # "reload"
                               /\ worker[v].prof = worker[w].prof => v = w
    BY <2>1 DEF LifeInv, OneOwner, StagedIsOnly
  <2> QED BY <2>2 DEF EnginesCalm, WorkersCalm
<1>6. RetriedIsOnly'
  BY <1>1 DEF LifeInv, OneOwner, RetriedIsOnly
<1> QED BY <1>2, <1>3, <1>4, <1>5, <1>6 DEF OneOwner

\* Kept by a move of a worker that nobody else takes part in.
LEMMA CalmKeeps ==
    ASSUME LifeInv, WorkersCalm, budget' \in Scenario,
           UNCHANGED <<handles, current, engine, ports, retries, user, joins, history>>
    PROVE  LifeInv'
<1> USE DEF LifeInv, LifeTypes, WorkersCalm, WorkerRecord
<1>1. LifeTypes'
  BY DEF history
<1>2. Launched'
  BY DEF Launched
<1>3. HandlesKept'
  BY DEF HandlesKept, Finished, Joining, history
<1>4. JoinersWait'
  BY DEF JoinersWait, Joining
<1>5. OldStartsHalted'
  BY DEF OldStartsHalted, history
<1>6. FailedIsOver'
  BY DEF FailedIsOver, Alive
<1>7. OneOwner'
  BY OwnersKept DEF EnginesCalm
<1> QED BY <1>1, <1>2, <1>3, <1>4, <1>5, <1>6, <1>7

\* One worker moves on, and to no failure from which it would come back.
OneMoves(w) ==
    /\ worker' = [worker EXCEPT ![w] = worker'[w]]
    /\ worker'[w] \in WorkerRecord
    /\ worker'[w].prof = worker[w].prof /\ worker'[w].start = worker[w].start
    /\ worker'[w].by = worker[w].by /\ worker'[w].late = worker[w].late
    /\ worker[w].st \notin {"unborn", "gone"} /\ worker'[w].st # "unborn"
    /\ worker'[w].st \in {"connecting", "starting", "live"} =>
         Alive(w) /\ worker'[w].report # "failed"

LEMMA OneMovesCalmly == ASSUME LifeInv, NEW w \in Worker, OneMoves(w) PROVE WorkersCalm
<1>1. worker' \in [Worker -> WorkerRecord]
  BY DEF LifeInv, LifeTypes, OneMoves
<1>2. \A v \in Worker \ {w} : worker'[v] = worker[v]
  BY DEF LifeInv, LifeTypes, OneMoves
<1> QED BY <1>1, <1>2 DEF WorkersCalm, Alive, LifeInv, FailedIsOver, OneMoves

\* The moves of a worker by itself are such moves.
LEMMA WorkerMovesKeep ==
    ASSUME LifeInv, NEW w \in Worker, budget' \in Scenario,
           \/ Connected(w) \/ GoesLive(w) \/ SeesHalt(w) \/ FailsEarly(w) \/ FailsFatally(w)
           \/ RaisesFlags(w) \/ WorkerEnds(w)
    PROVE  LifeInv'
<1>1. UNCHANGED <<handles, current, engine, ports, retries, user, joins, history>>
  BY DEF Connected, GoesLive, SeesHalt, FailsEarly, FailsFatally, RaisesFlags, WorkerEnds,
         WorkerMoves, statics
<1>2. worker \in [Worker -> WorkerRecord]
  BY DEF LifeInv, LifeTypes
<1>3. Alive(w) => worker[w].report # "failed"
  BY DEF LifeInv, FailedIsOver
<1> USE DEF WorkerRecord, WorkerMoves, Alive, Reported, OneMoves
<1>4. ASSUME Connected(w) PROVE OneMoves(w)
  BY <1>2, <1>3, <1>4 DEF Connected
<1>5. ASSUME GoesLive(w) PROVE OneMoves(w)
  BY <1>2, <1>3, <1>5 DEF GoesLive
<1>6. ASSUME SeesHalt(w) PROVE OneMoves(w)
  BY <1>2, <1>6 DEF SeesHalt, Replicating
<1>7. ASSUME FailsEarly(w) PROVE OneMoves(w)
  BY <1>2, <1>7 DEF FailsEarly
<1>8. ASSUME FailsFatally(w) PROVE OneMoves(w)
  <2> DEFINE rec == Reported([worker[w] EXCEPT !.st = "fatal"], "failed")
  <2>1. worker' = [worker EXCEPT ![w] = rec] /\ worker[w] \in WorkerRecord
    BY <1>2, <1>8 DEF FailsFatally
  <2>2. /\ rec \in WorkerRecord /\ rec.st = "fatal" /\ rec.prof = worker[w].prof
        /\ rec.start = worker[w].start /\ rec.by = worker[w].by /\ rec.late = worker[w].late
    BY <2>1
  <2>3. worker[w].st \notin {"unborn", "gone"}
    BY <1>8 DEF FailsFatally, Replicating
  <2> HIDE DEF rec, WorkerRecord
  <2> QED BY <1>2, <2>1, <2>2, <2>3
<1>9. ASSUME RaisesFlags(w) PROVE OneMoves(w)
  BY <1>2, <1>9 DEF RaisesFlags
<1>10. ASSUME WorkerEnds(w) PROVE OneMoves(w)
  BY <1>2, <1>10 DEF WorkerEnds
<1> HIDE DEF OneMoves
<1> QED BY <1>1, <1>4, <1>5, <1>6, <1>7, <1>8, <1>9, <1>10, OneMovesCalmly, CalmKeeps

\* Nothing happens to the workers.
LEMMA StillCalm == ASSUME LifeInv, worker' = worker PROVE WorkersCalm
BY DEF LifeInv, LifeTypes, WorkersCalm, Alive, FailedIsOver

\* One engine leaves or enters none of the stages of its staging.
LEMMA OneEngineCalm ==
    ASSUME LifeInv, NEW s \in Start, NEW pc \in EnginePcs \ {"off", "staging", "receiving"},
           engine' = [engine EXCEPT ![s].pc = pc],
           engine[s].pc \notin {"off", "staging", "receiving"}
    PROVE  /\ EnginesCalm
           /\ engine'[s].pc = pc
           /\ \A r \in Start \ {s} : engine'[r] = engine[r]
<1>1. engine \in [Start -> EngineRecord]
  BY DEF LifeInv, LifeTypes
<1>2. engine'[s] = [engine[s] EXCEPT !.pc = pc] /\ \A r \in Start \ {s} : engine'[r] = engine[r]
  BY <1>1
<1>3. engine'[s] \in EngineRecord
  BY <1>1, <1>2 DEF EngineRecord
<1>4. engine' \in [Start -> EngineRecord]
  BY <1>1, <1>3
<1> QED BY <1>1, <1>2, <1>4 DEF EnginesCalm, EngineRecord

\* notify_waiters wakes an engine that waits, and closes ports that are up.
LEMMA NotifyCalm ==
    ASSUME LifeInv, NEW s \in Start, engine' = NotifiedEngine(engine, s),
           ports' = NotifiedPorts(ports, s)
    PROVE  /\ EnginesCalm
           /\ \A r \in Start : engine[r].pc = "finalizing" => engine'[r].pc = "finalizing"
           /\ \A r \in Start : engine'[r].pc # "off" => engine[r].pc # "off"
           /\ ports' \in [Start -> {"off", "binding", "up", "closed"}]
           /\ \A r \in Start : ports'[r] # "off" => ports[r] # "off"
<1>1. engine \in [Start -> EngineRecord] /\ ports \in [Start -> {"off", "binding", "up", "closed"}]
  BY DEF LifeInv, LifeTypes
<1>2. ports' \in [Start -> {"off", "binding", "up", "closed"}]
      /\ \A r \in Start : ports'[r] # "off" => ports[r] # "off"
  BY <1>1 DEF NotifiedPorts
<1>3. CASE engine[s].pc = "waiting"
  <2>1. engine' = [engine EXCEPT ![s].pc = "woken"]
    BY <1>1, <1>3 DEF NotifiedEngine
  <2> QED BY <1>2, <1>3, <2>1, OneEngineCalm DEF EnginePcs
<1>4. CASE engine[s].pc # "waiting"
  <2>1. engine' = engine
    BY <1>1, <1>4 DEF NotifiedEngine, EngineRecord
  <2> QED BY <1>1, <1>2, <2>1 DEF EnginesCalm
<1> QED BY <1>3, <1>4

\* Kept by the notification of a worker that has failed.
LEMMA NotifiesEngineKeeps ==
    ASSUME LifeInv, NEW w \in Worker, NotifiesEngine(w), budget' \in Scenario PROVE LifeInv'
<1>1. worker \in [Worker -> WorkerRecord]
  BY DEF LifeInv, LifeTypes
<1>2. OneMoves(w)
  BY <1>1 DEF NotifiesEngine, OneMoves, WorkerRecord
<1>3. WorkersCalm
  BY <1>2, OneMovesCalmly
<1>4. current \in Start
  BY <1>1 DEF NotifiesEngine, LifeInv, LifeTypes, Launched
<1>5. /\ EnginesCalm
      /\ \A r \in Start : engine[r].pc = "finalizing" => engine'[r].pc = "finalizing"
      /\ \A r \in Start : engine'[r].pc # "off" => engine[r].pc # "off"
      /\ ports' \in [Start -> {"off", "binding", "up", "closed"}]
      /\ \A r \in Start : ports'[r] # "off" => ports[r] # "off"
  BY <1>4, NotifyCalm DEF NotifiesEngine
<1>6. UNCHANGED <<handles, current, retries, user, joins, halted, orphans>>
  BY DEF NotifiesEngine, statics, history
<1> USE DEF LifeInv
<1>7. LifeTypes'
  BY <1>3, <1>5, <1>6 DEF LifeTypes, WorkersCalm, EnginesCalm
<1>8. Launched'
  BY <1>3, <1>5, <1>6 DEF Launched, WorkersCalm
<1>9. HandlesKept'
  BY <1>3, <1>6 DEF HandlesKept, Finished, Joining, WorkersCalm
<1>10. JoinersWait'
  BY <1>5, <1>6 DEF JoinersWait, Joining
<1>11. OldStartsHalted'
  BY <1>3, <1>6 DEF OldStartsHalted, WorkersCalm, LifeTypes
<1>12. FailedIsOver'
  BY <1>3 DEF FailedIsOver, WorkersCalm
<1>13. OneOwner'
  BY <1>3, <1>5, <1>6, OwnersKept
<1> QED BY <1>7, <1>8, <1>9, <1>10, <1>11, <1>12, <1>13

\* What is left to show where the workers do not move.
LEMMA WorkersStay ==
    ASSUME LifeInv, worker' = worker, EnginesCalm, retries' = retries, LifeTypes', Launched',
           HandlesKept', JoinersWait', OldStartsHalted'
    PROVE  LifeInv'
<1>1. OneOwner'
  BY StillCalm, OwnersKept
<1>2. FailedIsOver'
  BY DEF LifeInv, FailedIsOver, Alive
<1> QED BY <1>1, <1>2 DEF LifeInv

\* Kept by the join of one thread: it has ended, or is an orphan.
LEMMA JoinOneKeeps ==
    ASSUME LifeInv, NEW j \in Joiner, JoinOne(j), budget' \in Scenario PROVE LifeInv'
<1>1. PICK w \in joins[j] : /\ joins' = [joins EXCEPT ![j] = @ \ {w}]
                            /\ orphans' = IF Finished(w) THEN orphans ELSE orphans \cup {w}
  BY DEF JoinOne
<1>2. joins \in [Joiner -> {None} \cup SUBSET Worker] /\ joins[j] # None
  BY DEF LifeInv, LifeTypes, JoinOne, Joining
<1>3. /\ joins' \in [Joiner -> {None} \cup SUBSET Worker]
      /\ joins'[j] = joins[j] \ {w}
      /\ \A i \in Joiner \ {j} : joins'[i] = joins[i]
      /\ w \in Worker
      /\ joins'[j] \in SUBSET Worker
  BY <1>1, <1>2
<1>4. /\ UNCHANGED <<handles, current, engine, ports, worker, retries, user, halted>>
  BY DEF JoinOne, statics
<1> USE DEF LifeInv
<1>5. LifeTypes'
  BY <1>1, <1>3, <1>4 DEF LifeTypes
<1>6. Launched'
  BY <1>4 DEF Launched
<1>7. HandlesKept'
  <2> SUFFICES ASSUME NEW v \in Worker, ~ Finished(v), v \notin handles', v \notin orphans'
               PROVE  \E i \in Joiner : joins'[i] # None /\ v \in joins'[i]
    BY <1>4 DEF HandlesKept, Joining, Finished
  <2>1. v # w /\ v \notin orphans
    BY <1>1
  <2>2. PICK i \in Joiner : joins[i] # None /\ v \in joins[i]
    BY <1>4, <2>1 DEF HandlesKept, Joining
  <2>3. joins'[j] # None
    BY <1>3
  <2> QED BY <1>3, <2>1, <2>2, <2>3
<1>8. JoinersWait'
  BY <1>2, <1>3, <1>4 DEF JoinersWait, Joining, Joiner
<1>9. OldStartsHalted'
  BY <1>4 DEF OldStartsHalted
<1>10. EnginesCalm
  BY <1>4 DEF EnginesCalm, LifeTypes
<1> QED BY <1>4, <1>5, <1>6, <1>7, <1>8, <1>9, <1>10, WorkersStay

\* Kept by the end of a join, after which nobody's handles are with it.
LEMMA JoinEndKeeps ==
    ASSUME LifeInv, NEW j \in Joiner, JoinEnd(j), budget' \in Scenario PROVE LifeInv'
<1>1. /\ joins' = [joins EXCEPT ![j] = None] /\ joins[j] = {} /\ joins[j] # None
      /\ UNCHANGED <<handles, current, ports, worker, retries, halted, orphans>>
  BY DEF JoinEnd, Joining, history
<1>2. joins \in [Joiner -> {None} \cup SUBSET Worker]
  BY DEF LifeInv, LifeTypes
<1>3. /\ joins' \in [Joiner -> {None} \cup SUBSET Worker]
      /\ joins'[j] = None
      /\ \A i \in Joiner \ {j} : joins'[i] = joins[i]
  BY <1>1, <1>2
<1>4. j # TheMenu => j \in Start /\ engine[j].pc = "finalizing"
  BY <1>1 DEF LifeInv, JoinersWait, Joining, Joiner
<1>5. EnginesCalm /\ \A s \in Start : s # j => engine'[s] = engine[s]
  <2>1. CASE j = TheMenu
    BY <2>1 DEF JoinEnd, EnginesCalm, LifeInv, LifeTypes
  <2>2. CASE j # TheMenu
    <3>1. engine' = [engine EXCEPT ![j].pc = "stopped"]
      BY <2>2 DEF JoinEnd
    <3> QED BY <1>4, <2>2, <3>1, OneEngineCalm DEF EnginePcs
  <2> QED BY <2>1, <2>2
<1>6. /\ user' \in {user, "launch", "menu"}
      /\ user' = "launch" => user \in {"starting", "launch"}
      /\ j # TheMenu => user' = user
  BY DEF JoinEnd
<1> USE DEF LifeInv
<1>7. LifeTypes'
  BY <1>1, <1>3, <1>5, <1>6 DEF LifeTypes, EnginesCalm
<1>8. Launched'
  BY <1>1, <1>5, <1>6 DEF Launched, EnginesCalm
<1>9. HandlesKept'
  BY <1>1, <1>3 DEF HandlesKept, Joining, Finished
<1>10. JoinersWait'
  BY <1>3, <1>5, <1>6 DEF JoinersWait, Joining, Joiner
<1>11. OldStartsHalted'
  BY <1>1, <1>6 DEF OldStartsHalted
<1> QED BY <1>1, <1>5, <1>7, <1>8, <1>9, <1>10, <1>11, WorkersStay

\* The handles move to whoever begins a stop.
LEMMA BeginStopMoves ==
    ASSUME LifeInv, NEW j \in Joiner, NEW s, ~ Joining(j), BeginStop(j, s),
           UNCHANGED <<worker, orphans>>
    PROVE  /\ HandlesKept'
           /\ joins' \in [Joiner -> {None} \cup SUBSET Worker]
           /\ \A i \in Joiner \ {j} : joins'[i] = joins[i]
           /\ handles' = {} /\ halted' = halted \cup {s}
<1>1. /\ joins \in [Joiner -> {None} \cup SUBSET Worker] /\ handles \subseteq Worker
      /\ joins' = [joins EXCEPT ![j] = handles] /\ handles' = {} /\ halted' = halted \cup {s}
  BY DEF LifeInv, LifeTypes, BeginStop
<1>2. /\ joins' \in [Joiner -> {None} \cup SUBSET Worker]
      /\ joins'[j] = handles /\ handles # None
      /\ \A i \in Joiner \ {j} : joins'[i] = joins[i]
  BY <1>1
<1>3. HandlesKept'
  <2> SUFFICES ASSUME NEW v \in Worker, ~ Finished(v), v \notin orphans
               PROVE  \E i \in Joiner : joins'[i] # None /\ v \in joins'[i]
    BY DEF HandlesKept, Joining, Finished
  <2>1. CASE v \in handles
    BY <1>2, <2>1
  <2>2. CASE v \notin handles
    <3>1. PICK i \in Joiner : Joining(i) /\ v \in joins[i]
      BY <2>2 DEF LifeInv, HandlesKept
    <3> QED BY <1>2, <3>1 DEF Joining
  <2> QED BY <2>1, <2>2
<1> QED BY <1>1, <1>2, <1>3

\* Kept by the stops of the menu: the start that runs is halted before another.
LEMMA MenuStopsKeeps ==
    ASSUME LifeInv, budget' \in Scenario, MenuStarts \/ MenuLeaves PROVE LifeInv'
<1>1. /\ ~ Joining(TheMenu) /\ BeginStop(TheMenu, current)
      /\ user \in {"menu", "monitor"} /\ user' \in {"starting", "leaving"}
      /\ UNCHANGED <<current, worker, retries, orphans>>
      /\ IF current = 0
         THEN UNCHANGED <<engine, ports>>
         ELSE /\ engine' = NotifiedEngine(engine, current)
              /\ ports' = NotifiedPorts(ports, current)
  BY DEF MenuStarts, MenuLeaves, MenuStops
<1>2. /\ HandlesKept'
      /\ joins' \in [Joiner -> {None} \cup SUBSET Worker]
      /\ \A i \in Joiner \ {TheMenu} : joins'[i] = joins[i]
      /\ handles' = {} /\ halted' = halted \cup {current}
  BY <1>1, BeginStopMoves DEF Joiner
<1>3. /\ EnginesCalm
      /\ \A r \in Start : engine[r].pc = "finalizing" => engine'[r].pc = "finalizing"
      /\ \A r \in Start : engine'[r].pc # "off" => engine[r].pc # "off"
      /\ ports' \in [Start -> {"off", "binding", "up", "closed"}]
      /\ \A r \in Start : ports'[r] # "off" => ports[r] # "off"
  <2>1. CASE current = 0
    BY <1>1, <2>1 DEF EnginesCalm, LifeInv, LifeTypes
  <2>2. CASE current # 0
    BY <1>1, <2>2, NotifyCalm DEF LifeInv, LifeTypes
  <2> QED BY <2>1, <2>2
<1> USE DEF LifeInv
<1>4. LifeTypes'
  BY <1>1, <1>2, <1>3 DEF LifeTypes, EnginesCalm
<1>5. Launched'
  BY <1>1, <1>3 DEF Launched
<1>6. JoinersWait'
  BY <1>1, <1>2, <1>3 DEF JoinersWait, Joining, Joiner, TheMenu
<1>7. OldStartsHalted'
  BY <1>1, <1>2 DEF OldStartsHalted, LifeTypes
<1> QED BY <1>1, <1>2, <1>3, <1>4, <1>5, <1>6, <1>7, WorkersStay

\* Kept by the end of the wait, which under the menu finalizes a stop by CDC only.
LEMMA WokenKeeps ==
    ASSUME LifeInv, NEW s \in Start, Woken(s), budget' \in Scenario PROVE LifeInv'
<1>1. /\ engine[s].pc \in {"woken", "interrupted"}
      /\ UNCHANGED <<current, worker, retries, user, orphans>>
  BY DEF Woken
<1>2. ~ Joining(s) /\ s \in Joiner /\ s # TheMenu
  BY <1>1 DEF LifeInv, JoinersWait, Joiner, TheMenu
<1> USE DEF LifeInv
<1>3. CASE Menu /\ ~ fromCdc
  <2>1. /\ engine' = [engine EXCEPT ![s].pc = "stopped"]
        /\ UNCHANGED <<handles, joins, ports, halted>>
    BY <1>3 DEF Woken
  <2>2. /\ EnginesCalm
        /\ \A r \in Start \ {s} : engine'[r] = engine[r]
    BY <1>1, <2>1, OneEngineCalm DEF EnginePcs
  <2>3. LifeTypes'
    BY <1>1, <2>1, <2>2 DEF LifeTypes, EnginesCalm
  <2>4. Launched'
    BY <1>1, <2>1, <2>2 DEF Launched, EnginesCalm
  <2>5. HandlesKept'
    BY <1>1, <2>1 DEF HandlesKept, Joining, Finished
  <2>6. JoinersWait'
    BY <1>1, <1>2, <2>1, <2>2 DEF JoinersWait, Joining
  <2>7. OldStartsHalted'
    BY <1>1, <2>1 DEF OldStartsHalted
  <2> QED BY <1>1, <2>1, <2>2, <2>3, <2>4, <2>5, <2>6, <2>7, WorkersStay
<1>4. CASE ~ (Menu /\ ~ fromCdc)
  <2>1. /\ engine' = [engine EXCEPT ![s].pc = "finalizing"]
        /\ ports' = NotifiedPorts(ports, s)
        /\ BeginStop(s, s)
    BY <1>4 DEF Woken
  <2>2. /\ EnginesCalm
        /\ engine'[s].pc = "finalizing"
        /\ \A r \in Start \ {s} : engine'[r] = engine[r]
    BY <1>1, <2>1, OneEngineCalm DEF EnginePcs
  <2>3. ports' \in [Start -> {"off", "binding", "up", "closed"}]
        /\ \A r \in Start : ports'[r] # "off" => ports[r] # "off"
    BY <2>1 DEF NotifiedPorts, LifeTypes
  <2>4. /\ HandlesKept'
        /\ joins' \in [Joiner -> {None} \cup SUBSET Worker]
        /\ \A i \in Joiner \ {s} : joins'[i] = joins[i]
        /\ handles' = {} /\ halted' = halted \cup {s}
    BY <1>1, <1>2, <2>1, BeginStopMoves
  <2>5. LifeTypes'
    BY <1>1, <2>2, <2>3, <2>4 DEF LifeTypes, EnginesCalm
  <2>6. Launched'
    BY <1>1, <2>2, <2>3 DEF Launched, EnginesCalm
  <2>7. JoinersWait'
    BY <1>1, <1>2, <2>2, <2>4 DEF JoinersWait, Joining, Joiner
  <2>8. OldStartsHalted'
    BY <1>1, <2>4 DEF OldStartsHalted
  <2> QED BY <1>1, <2>2, <2>4, <2>5, <2>6, <2>7, <2>8, WorkersStay
<1> QED BY <1>3, <1>4

\* Kept by the other steps that leave the workers and their handles alone.
LEMMA OtherStepsKeep ==
    ASSUME LifeInv, budget' \in Scenario,
           \/ MenuReturns \/ CtrlC
           \/ \E s \in Start : PortsOpen(s) \/ Waits(s)
    PROVE  LifeInv'
<1>1. /\ UNCHANGED <<handles, current, worker, retries, joins, halted, orphans>>
      /\ user' = user \/ (user = "monitor" /\ user' = "menu")
  BY DEF MenuReturns, CtrlC, PortsOpen, Waits, statics, history
<1>2. engine \in [Start -> EngineRecord] /\ ports \in [Start -> {"off", "binding", "up", "closed"}]
      /\ \A r \in Start : engine[r] \in EngineRecord
  BY DEF LifeInv, LifeTypes
<1>3. /\ EnginesCalm
      /\ \A r \in Start : engine[r].pc = "finalizing" => engine'[r].pc = "finalizing"
      /\ \A r \in Start : engine'[r].pc # "off" => engine[r].pc # "off"
      /\ ports' \in [Start -> {"off", "binding", "up", "closed"}]
      /\ \A r \in Start : ports'[r] # "off" => ports[r] # "off"
  <2>1. CASE MenuReturns
    BY <1>2, <2>1 DEF MenuReturns, EnginesCalm
  <2>2. CASE CtrlC
    <3>1. current \in Start
      BY <2>2 DEF LifeInv, LifeTypes, Launched, CtrlC
    <3> QED BY <1>2, <2>2, <3>1, OneEngineCalm DEF CtrlC, EnginePcs
  <2>3. ASSUME NEW s \in Start, PortsOpen(s) PROVE <1>3!:
    BY <1>2, <2>3 DEF PortsOpen, EnginesCalm
  <2>4. ASSUME NEW s \in Start, Waits(s) PROVE <1>3!:
    BY <1>2, <2>4, OneEngineCalm DEF Waits, EnginePcs
  <2> QED BY <2>1, <2>2, <2>3, <2>4
<1> USE DEF LifeInv
<1>4. LifeTypes'
  BY <1>1, <1>3 DEF LifeTypes, EnginesCalm
<1>5. Launched'
  BY <1>1, <1>3 DEF Launched
<1>6. HandlesKept'
  BY <1>1 DEF HandlesKept, Joining, Finished
<1>7. JoinersWait'
  BY <1>1, <1>3 DEF JoinersWait, Joining
<1>8. OldStartsHalted'
  BY <1>1 DEF OldStartsHalted
<1> QED BY <1>1, <1>3, <1>4, <1>5, <1>6, <1>7, <1>8, WorkersStay

\* What a spawn does: the new worker belongs to the current start, or is late.
LEMMA SpawnMoves ==
    ASSUME LifeInv, NEW w \in Worker, NEW s \in Start, s <= current, NEW p \in Profile,
           NEW who \in {"stage", "retry", "reload"}, Spawn(w, s, p, who),
           UNCHANGED <<current, user, joins, halted, orphans>>
    PROVE  /\ worker' \in [Worker -> WorkerRecord] /\ handles' \subseteq Worker
           /\ HandlesKept' /\ OldStartsHalted' /\ FailedIsOver'
           /\ \A v \in Worker : worker'[v].st # "unborn" =>
                worker'[v].start \in 1 .. current /\ worker'[v].prof \in Profile
           /\ worker[w].st = "unborn"
           /\ worker'[w].st = "connecting" /\ worker'[w].start = s /\ worker'[w].prof = p
           /\ worker'[w].by = who
           /\ \A v \in Worker \ {w} : worker'[v] = worker[v]
           /\ who = "reload" => \A r, q : Own(r, q)' = Own(r, q)
           /\ \A r, q : r # s \/ q # p => Own(r, q)' = Own(r, q)
           /\ Own(s, p)' \subseteq Own(s, p) \cup {w}
<1> DEFINE rec == [st |-> "connecting", prof |-> p, start |-> s, by |-> who, report |-> None,
                   late |-> s \in halted]
<1>1. /\ worker \in [Worker -> WorkerRecord] /\ handles \subseteq Worker
      /\ worker' = [worker EXCEPT ![w] = rec] /\ handles' = handles \cup {w}
      /\ worker[w].st = "unborn"
  BY DEF LifeInv, LifeTypes, Spawn, FreeWorkers
<1>2. rec \in WorkerRecord
  BY DEF WorkerRecord
<1>3. /\ worker' \in [Worker -> WorkerRecord] /\ handles' \subseteq Worker
      /\ worker'[w] = rec
      /\ \A v \in Worker \ {w} : worker'[v] = worker[v]
  BY <1>1, <1>2
<1>4. /\ rec.st = "connecting" /\ rec.prof = p /\ rec.start = s /\ rec.by = who
      /\ rec.report # "failed" /\ rec.late = (s \in halted)
  OBVIOUS
<1> HIDE DEF rec
<1>5. HandlesKept'
  <2> SUFFICES ASSUME NEW v \in Worker, worker'[v].st \notin {"unborn", "gone"}
               PROVE  \/ v \in handles' \/ v \in orphans
                      \/ \E j \in Joiner : joins[j] # None /\ v \in joins[j]
    BY DEF HandlesKept, Finished, Joining
  <2>1. CASE v = w
    BY <1>1, <2>1
  <2>2. CASE v # w
    BY <1>1, <1>3, <2>2 DEF LifeInv, HandlesKept, Finished, Joining
  <2> QED BY <2>1, <2>2
<1>6. OldStartsHalted'
  <2>1. s \in 1 .. current
    BY DEF LifeInv, LifeTypes
  <2>2. s \in halted \/ (s = current /\ user \notin {"starting", "launch"})
    BY <2>1 DEF LifeInv, LifeTypes, OldStartsHalted
  <2>3. ASSUME NEW v \in handles'
        PROVE  worker'[v].st = "unborn" \/ worker'[v].late
               \/ (worker'[v].start = current /\ user \notin {"starting", "launch"})
    BY <1>1, <1>3, <1>4, <2>2 DEF LifeInv, OldStartsHalted
  <2>4. \A r \in 1 .. current : r < current \/ user \in {"starting", "launch"} => r \in halted
    BY DEF LifeInv, OldStartsHalted
  <2> QED BY <2>3, <2>4 DEF OldStartsHalted
<1>7. FailedIsOver'
  BY <1>3, <1>4 DEF LifeInv, FailedIsOver, Alive
<1>8. \A v \in Worker : worker'[v].st # "unborn" =>
        worker'[v].start \in 1 .. current /\ worker'[v].prof \in Profile
  <2>1. s \in 1 .. current
    BY DEF LifeInv, LifeTypes
  <2>2. \A v \in Worker : worker[v].st # "unborn" =>
          worker[v].start \in 1 .. current /\ worker[v].prof \in Profile
    BY DEF LifeInv, Launched
  <2> QED BY <1>3, <1>4, <2>1, <2>2
<1>9. \A r, q : w \notin Own(r, q)
  BY <1>1 DEF Own, Alive
<1>10. \A r, q : Own(r, q)' \subseteq Own(r, q) \cup {w} /\ Own(r, q) \subseteq Own(r, q)'
  <2>1. \A r, q : \A v \in Worker \ {w} : v \in Own(r, q)' <=> v \in Own(r, q)
    BY <1>3 DEF Own, Alive
  <2>2. \A r, q : Own(r, q) \subseteq Worker /\ Own(r, q)' \subseteq Worker
    BY DEF Own
  <2> QED BY <1>9, <2>1, <2>2
<1>11. \A r, q : r # s \/ q # p \/ who = "reload" => w \notin Own(r, q)'
  BY <1>3, <1>4 DEF Own
<1>12. \A r, q : w \notin Own(r, q)' => Own(r, q)' = Own(r, q)
  BY <1>10
<1> QED BY <1>1, <1>3, <1>4, <1>5, <1>6, <1>7, <1>8, <1>10, <1>11, <1>12

\* Kept by the spawn of a reload, which is nobody's own.
LEMMA ReloadSpawnKeeps ==
    ASSUME LifeInv, NEW s \in Start, s <= current, NEW p \in Profile, ReloadSpawn(s, p),
           budget' \in Scenario
    PROVE  LifeInv'
<1>1. PICK w \in Worker : Spawn(w, s, p, "reload")
  BY DEF ReloadSpawn
<1>2. UNCHANGED <<current, engine, ports, retries, user, joins, halted, orphans>>
  BY DEF ReloadSpawn, history
<1>3. /\ worker' \in [Worker -> WorkerRecord] /\ handles' \subseteq Worker
      /\ HandlesKept' /\ OldStartsHalted' /\ FailedIsOver'
      /\ \A v \in Worker : worker'[v].st # "unborn" =>
           worker'[v].start \in 1 .. current /\ worker'[v].prof \in Profile
      /\ worker[w].st = "unborn" /\ worker'[w].st = "connecting"
      /\ worker'[w].by = "reload"
      /\ \A v \in Worker \ {w} : worker'[v] = worker[v]
      /\ \A r, q : Own(r, q)' = Own(r, q)
  BY <1>1, <1>2, SpawnMoves
<1> USE DEF LifeInv
<1>4. LifeTypes'
  BY <1>2, <1>3 DEF LifeTypes
<1>5. Launched'
  BY <1>2, <1>3 DEF Launched
<1>6. JoinersWait'
  BY <1>2 DEF JoinersWait, Joining
<1>7. AtMostOne'
  BY <1>3 DEF OneOwner, AtMostOne
<1>8. QueuedHaveNone'
  BY <1>2, <1>3 DEF OneOwner, QueuedHaveNone
<1>9. DeferredHaveNone'
  BY <1>2, <1>3 DEF OneOwner, DeferredHaveNone
<1>10. StagedIsOnly'
  BY <1>2, <1>3 DEF OneOwner, StagedIsOnly, Alive
<1>11. RetriedIsOnly'
  BY <1>2, <1>3 DEF OneOwner, RetriedIsOnly
<1> QED BY <1>3, <1>4, <1>5, <1>6, <1>7, <1>8, <1>9, <1>10, <1>11 DEF OneOwner

\* Kept by the spawn of a staged profile: it was queued and had no worker.
LEMMA StageNextKeeps ==
    ASSUME LifeInv, NEW s \in Start, StageNext(s), budget' \in Scenario PROVE LifeInv'
<1>1. PICK p \in engine[s].queue, w \in Worker :
        /\ Spawn(w, s, p, "stage")
        /\ engine' = [engine EXCEPT ![s].pc = "receiving", ![s].queue = @ \ {p}, ![s].staged = w]
  BY DEF StageNext
<1>2. /\ engine[s].pc = "staging"
      /\ UNCHANGED <<current, ports, retries, user, joins, halted, orphans>>
  BY DEF StageNext, history
<1>3. engine \in [Start -> EngineRecord] /\ p \in Profile /\ s <= current
  BY <1>2 DEF LifeInv, LifeTypes, EngineRecord, Launched
<1>4. /\ worker' \in [Worker -> WorkerRecord] /\ handles' \subseteq Worker
      /\ HandlesKept' /\ OldStartsHalted' /\ FailedIsOver'
      /\ \A v \in Worker : worker'[v].st # "unborn" =>
           worker'[v].start \in 1 .. current /\ worker'[v].prof \in Profile
      /\ worker[w].st = "unborn"
      /\ worker'[w].st = "connecting" /\ worker'[w].start = s /\ worker'[w].prof = p
      /\ worker'[w].by = "stage"
      /\ \A v \in Worker \ {w} : worker'[v] = worker[v]
      /\ \A r, q : r # s \/ q # p => Own(r, q)' = Own(r, q)
      /\ Own(s, p)' \subseteq Own(s, p) \cup {w}
  BY <1>1, <1>2, <1>3, SpawnMoves
<1>5. /\ \A r \in Start \ {s} : engine'[r] = engine[r]
      /\ engine'[s] = [engine[s] EXCEPT !.pc = "receiving", !.queue = @ \ {p}, !.staged = w]
  BY <1>1, <1>3
<1>6. /\ engine' \in [Start -> EngineRecord]
      /\ engine'[s].pc = "receiving" /\ engine'[s].queue = engine[s].queue \ {p}
      /\ engine'[s].staged = w /\ engine'[s].deferred = engine[s].deferred
  <2>1. engine[s] \in EngineRecord
    BY <1>3
  <2>2. /\ engine'[s].pc = "receiving" /\ engine'[s].queue = engine[s].queue \ {p}
        /\ engine'[s].staged = w /\ engine'[s].deferred = engine[s].deferred
        /\ engine'[s] \in EngineRecord
    BY <1>5, <2>1 DEF EngineRecord, EnginePcs
  <2> QED BY <1>1, <1>3, <1>5, <2>2
<1>7. Own(s, p) = {} /\ p \notin engine[s].deferred /\ Own(s, p)' \subseteq {w}
  BY <1>4 DEF LifeInv, OneOwner, QueuedHaveNone
<1> USE DEF LifeInv
<1>8. LifeTypes'
  BY <1>2, <1>4, <1>6 DEF LifeTypes
<1>9. Launched'
  BY <1>2, <1>3, <1>4, <1>5, <1>6 DEF Launched
<1>10. JoinersWait'
  BY <1>2, <1>5 DEF JoinersWait, Joining
<1>11. AtMostOne'
  BY <1>4, <1>7 DEF OneOwner, AtMostOne
<1>12. QueuedHaveNone'
  <2>1. \A q \in engine'[s].queue : q \in engine[s].queue /\ q # p /\ Own(s, q)' = Own(s, q)
    BY <1>4, <1>6
  <2>2. \A q \in engine'[s].queue : Own(s, q)' = {} /\ q \notin engine'[s].deferred
    BY <1>6, <2>1 DEF OneOwner, QueuedHaveNone
  <2>3. \A r \in Start \ {s} : \A q \in engine'[r].queue :
          Own(r, q)' = {} /\ q \notin engine'[r].deferred
    BY <1>4, <1>5 DEF OneOwner, QueuedHaveNone
  <2>4. \A r \in Start : engine'[r].queue # {} => engine'[r].pc \in {"staging", "receiving"}
    BY <1>5, <1>6 DEF OneOwner, QueuedHaveNone
  <2> QED BY <2>2, <2>3, <2>4 DEF QueuedHaveNone
<1>13. DeferredHaveNone'
  <2>1. /\ \A q \in engine'[s].deferred : Own(s, q)' = {}
        /\ \A r \in retries : r.start # s
    <3>1. /\ \A q \in engine[s].deferred : Own(s, q) = {}
          /\ \A r \in retries : r.start # s
      BY <1>2 DEF OneOwner, DeferredHaveNone
    <3>2. \A q \in engine[s].deferred : q # p /\ Own(s, q)' = Own(s, q)
      BY <1>4, <1>7
    <3> QED BY <1>6, <3>1, <3>2
  <2>2. \A r \in Start \ {s} : engine'[r].pc \in {"off", "staging", "receiving"} =>
          /\ \A q \in engine'[r].deferred : Own(r, q)' = {}
          /\ \A t \in retries : t.start # r
    BY <1>4, <1>5 DEF OneOwner, DeferredHaveNone
  <2> QED BY <1>2, <2>1, <2>2 DEF DeferredHaveNone
<1>14. StagedIsOnly'
  <2> SUFFICES ASSUME NEW r \in Start, engine'[r].pc = "receiving"
               PROVE  \E u \in Worker :
                        /\ engine'[r].staged = u
                        /\ worker'[u].st # "unborn"
                        /\ worker'[u].prof \in Profile
                        /\ worker'[u].prof \notin engine'[r].queue
                        /\ \A v \in Worker :
                             Alive(v)' /\ worker'[v].start = r /\ worker'[v].by # "reload"
                             /\ worker'[v].prof = worker'[u].prof => v = u
    BY DEF StagedIsOnly
  <2>1. CASE r = s
    <3>1. ASSUME NEW v \in Worker, Alive(v)', worker'[v].start = s, worker'[v].by # "reload",
                 worker'[v].prof = p
          PROVE  v = w
      BY <1>7, <3>1 DEF Own
    <3> QED BY <1>3, <1>4, <1>6, <2>1, <3>1
  <2>2. CASE r # s
    <3>1. PICK u \in Worker :
            /\ engine[r].staged = u
            /\ worker[u].st # "unborn"
            /\ worker[u].prof \in Profile
            /\ worker[u].prof \notin engine[r].queue
            /\ \A v \in Worker : Alive(v) /\ worker[v].start = r /\ worker[v].by # "reload"
                                 /\ worker[v].prof = worker[u].prof => v = u
      BY <1>5, <2>2 DEF OneOwner, StagedIsOnly
    <3> QED BY <1>4, <1>5, <2>2, <3>1 DEF Alive
  <2> QED BY <2>1, <2>2
<1>15. RetriedIsOnly'
  <2>1. \A r \in retries : r.start # s
    BY <1>2 DEF OneOwner, DeferredHaveNone
  <2> QED BY <1>2, <1>4, <2>1 DEF OneOwner, RetriedIsOnly
<1> QED BY <1>4, <1>8, <1>9, <1>10, <1>11, <1>12, <1>13, <1>14, <1>15 DEF OneOwner

\* A worker that was heard and did not report that it is live is past replicating.
LEMMA HeardIsOver ==
    ASSUME LifeInv, NEW w \in Worker, Heard(w), worker[w].report # "live" PROVE ~ Alive(w)
<1>1. worker[w] \in WorkerRecord
  BY DEF LifeInv, LifeTypes
<1> QED BY <1>1 DEF LifeInv, FailedIsOver, Heard, Alive, WorkerRecord

\* Kept by the answer of the staged profile, which is deferred if it has no worker.
LEMMA StageReportKeeps ==
    ASSUME LifeInv, NEW s \in Start, StageReport(s), budget' \in Scenario PROVE LifeInv'
<1>1. /\ engine[s].pc = "receiving"
      /\ UNCHANGED <<handles, current, ports, worker, retries, user, joins, halted, orphans>>
  BY DEF StageReport, statics, history
<1>2. PICK w \in Worker :
        /\ engine[s].staged = w
        /\ worker[w].prof \in Profile
        /\ worker[w].prof \notin engine[s].queue
        /\ \A v \in Worker : Alive(v) /\ worker[v].start = s /\ worker[v].by # "reload"
                             /\ worker[v].prof = worker[w].prof => v = w
  BY <1>1 DEF LifeInv, OneOwner, StagedIsOnly
<1>3. /\ Heard(w)
      /\ engine' = [engine EXCEPT ![s].pc = "staging",
                      ![s].deferred = IF worker[w].report = "live" THEN @
                                      ELSE @ \cup {worker[w].prof}]
  BY <1>2 DEF StageReport
<1> DEFINE more == IF worker[w].report = "live" THEN {} ELSE {worker[w].prof}
<1>4. engine \in [Start -> EngineRecord]
  BY DEF LifeInv, LifeTypes
<1>5. /\ \A r \in Start \ {s} : engine'[r] = engine[r]
      /\ engine'[s] = [engine[s] EXCEPT !.pc = "staging", !.deferred = @ \cup more]
  BY <1>3, <1>4
<1>6. more \subseteq Profile /\ more \cap engine[s].queue = {}
  BY <1>2
<1>7. /\ engine' \in [Start -> EngineRecord]
      /\ engine'[s].pc = "staging" /\ engine'[s].queue = engine[s].queue
      /\ engine'[s].deferred = engine[s].deferred \cup more
  <2> HIDE DEF more
  <2>1. engine[s] \in EngineRecord
    BY <1>4
  <2>2. /\ engine'[s].pc = "staging" /\ engine'[s].queue = engine[s].queue
        /\ engine'[s].deferred = engine[s].deferred \cup more
        /\ engine'[s] \in EngineRecord
    BY <1>5, <1>6, <2>1 DEF EngineRecord, EnginePcs
  <2> QED BY <1>3, <1>4, <1>5, <2>2
<1>8. \A q \in more : Own(s, q) = {}
  BY <1>2, <1>3, HeardIsOver DEF Own
<1> HIDE DEF more
<1>9. \A r, q : Own(r, q)' = Own(r, q)
  BY <1>1 DEF Own, Alive
<1> USE DEF LifeInv
<1>10. LifeTypes'
  BY <1>1, <1>7 DEF LifeTypes
<1>11. Launched'
  BY <1>1, <1>5 DEF Launched
<1>12. HandlesKept'
  BY <1>1 DEF HandlesKept, Joining, Finished
<1>13. JoinersWait'
  BY <1>1, <1>5 DEF JoinersWait, Joining
<1>14. OldStartsHalted' /\ FailedIsOver'
  BY <1>1 DEF OldStartsHalted, FailedIsOver, Alive
<1>15. AtMostOne' /\ RetriedIsOnly'
  BY <1>1, <1>9 DEF OneOwner, AtMostOne, RetriedIsOnly
<1>16. QueuedHaveNone'
  <2>1. \A q \in engine[s].queue : Own(s, q) = {} /\ q \notin engine'[s].deferred
    BY <1>6, <1>7 DEF OneOwner, QueuedHaveNone
  <2>2. \A r \in Start \ {s} : \A q \in engine[r].queue : Own(r, q) = {} /\ q \notin engine[r].deferred
    BY DEF OneOwner, QueuedHaveNone
  <2>3. \A r \in Start \ {s} : engine[r].queue # {} => engine[r].pc \in {"staging", "receiving"}
    BY DEF OneOwner, QueuedHaveNone
  <2> QED BY <1>5, <1>7, <1>9, <2>1, <2>2, <2>3 DEF QueuedHaveNone
<1>17. DeferredHaveNone'
  <2>1. /\ \A q \in engine'[s].deferred : Own(s, q) = {}
        /\ \A r \in retries : r.start # s
    BY <1>1, <1>7, <1>8 DEF OneOwner, DeferredHaveNone
  <2> QED BY <1>1, <1>5, <1>9, <2>1 DEF OneOwner, DeferredHaveNone
<1>18. StagedIsOnly'
  <2>1. \A r \in Start : engine'[r].pc = "receiving" => engine'[r] = engine[r]
    BY <1>5, <1>7
  <2>2. \A v \in Worker : Alive(v)' = Alive(v)
    BY <1>1 DEF Alive
  <2>3. worker' = worker /\ StagedIsOnly
    BY <1>1 DEF OneOwner
  <2> HIDE DEF LifeInv
  <2> SUFFICES ASSUME NEW r \in Start, engine'[r].pc = "receiving"
               PROVE  \E x \in Worker :
                        /\ engine'[r].staged = x
                        /\ worker'[x].st # "unborn"
                        /\ worker'[x].prof \in Profile
                        /\ worker'[x].prof \notin engine'[r].queue
                        /\ \A v \in Worker : Alive(v)' /\ worker'[v].start = r /\ worker'[v].by # "reload"
                                             /\ worker'[v].prof = worker'[x].prof => v = x
    BY DEF StagedIsOnly
  <2>4. engine'[r] = engine[r] /\ engine[r].pc = "receiving"
    BY <2>1
  <2>5. PICK x \in Worker :
            /\ engine[r].staged = x
            /\ worker[x].st # "unborn"
            /\ worker[x].prof \in Profile
            /\ worker[x].prof \notin engine[r].queue
            /\ \A v \in Worker : Alive(v) /\ worker[v].start = r /\ worker[v].by # "reload"
                                 /\ worker[v].prof = worker[x].prof => v = x
    BY <2>3, <2>4 DEF StagedIsOnly
  <2> WITNESS x \in Worker
  <2> QED BY <2>2, <2>3, <2>4, <2>5
<1> QED BY <1>10, <1>11, <1>12, <1>13, <1>14, <1>15, <1>16, <1>17, <1>18 DEF OneOwner

\* Kept by the end of the staging, which leaves the deferred profiles to retries.
LEMMA StageEndsKeeps ==
    ASSUME LifeInv, NEW s \in Start, StageEnds(s), budget' \in Scenario PROVE LifeInv'
<1> DEFINE new == {[start |-> s, prof |-> p, on |-> 0] : p \in engine[s].deferred}
<1>1. /\ engine[s].pc = "staging" /\ engine[s].queue = {}
      /\ retries' = retries \cup new
      /\ ports' = [ports EXCEPT ![s] = "binding"]
      /\ engine' = [engine EXCEPT ![s].pc = "opening"]
      /\ UNCHANGED <<handles, current, worker, user, joins, halted, orphans>>
  BY DEF StageEnds, statics, history
<1>2. engine \in [Start -> EngineRecord] /\ ports \in [Start -> {"off", "binding", "up", "closed"}]
      /\ s <= current
  BY <1>1 DEF LifeInv, LifeTypes, Launched
<1>3. /\ \A r \in Start \ {s} : engine'[r] = engine[r]
      /\ engine'[s] = [engine[s] EXCEPT !.pc = "opening"]
  BY <1>1, <1>2
<1>4. /\ engine' \in [Start -> EngineRecord]
      /\ engine'[s].pc = "opening" /\ engine'[s].queue = {}
  <2>1. engine[s] \in EngineRecord
    BY <1>2
  <2>2. engine'[s].pc = "opening" /\ engine'[s].queue = {} /\ engine'[s] \in EngineRecord
    BY <1>1, <1>3, <2>1 DEF EngineRecord, EnginePcs
  <2> QED BY <1>1, <1>2, <1>3, <2>2
<1>5. new \subseteq [start : Start, prof : Profile, on : Worker \cup {0}]
  BY <1>2 DEF EngineRecord
<1>6. \A r \in new : r.start = s /\ r.on = 0 /\ Own(s, r.prof) = {} /\ r.prof \in engine[s].deferred
  BY <1>1 DEF LifeInv, OneOwner, DeferredHaveNone
<1>7. \A q, r \in new : q.prof = r.prof => q = r
  OBVIOUS
<1>8. \A r \in retries : r.start # s
  BY <1>1 DEF LifeInv, OneOwner, DeferredHaveNone
<1> HIDE DEF new
<1>9. \A r, q : Own(r, q)' = Own(r, q)
  BY <1>1 DEF Own, Alive
<1> USE DEF LifeInv
<1>10. LifeTypes'
  BY <1>1, <1>2, <1>4, <1>5 DEF LifeTypes
<1>11. Launched'
  BY <1>1, <1>2, <1>3, <1>6 DEF Launched
<1>12. HandlesKept'
  BY <1>1 DEF HandlesKept, Joining, Finished
<1>13. JoinersWait'
  BY <1>1, <1>3 DEF JoinersWait, Joining
<1>14. OldStartsHalted' /\ FailedIsOver'
  BY <1>1 DEF OldStartsHalted, FailedIsOver, Alive
<1>15. AtMostOne'
  BY <1>1, <1>9 DEF OneOwner, AtMostOne
<1>16. QueuedHaveNone'
  BY <1>3, <1>4, <1>9 DEF OneOwner, QueuedHaveNone
<1>17. DeferredHaveNone'
  BY <1>1, <1>3, <1>4, <1>6, <1>9 DEF OneOwner, DeferredHaveNone
<1>18. StagedIsOnly'
  BY <1>1, <1>3, <1>4 DEF OneOwner, StagedIsOnly, Alive
<1>19. RetriedIsOnly'
  <2>1. \A r \in retries' : Own(r.start, r.prof)' \subseteq {r.on}
    BY <1>1, <1>6, <1>9 DEF OneOwner, RetriedIsOnly
  <2>2. \A q, r \in retries' : q.start = r.start /\ q.prof = r.prof => q = r
    BY <1>1, <1>6, <1>7, <1>8 DEF OneOwner, RetriedIsOnly
  <2> QED BY <2>1, <2>2 DEF RetriedIsOnly
<1> QED BY <1>10, <1>11, <1>12, <1>13, <1>14, <1>15, <1>16, <1>17, <1>18, <1>19 DEF OneOwner

\* Kept by the spawn of a retry: the last worker of the profile is over.
LEMMA RetrySpawnKeeps ==
    ASSUME LifeInv, NEW r \in retries, RetrySpawn(r), budget' \in Scenario PROVE LifeInv'
<1> DEFINE s == r.start
           p == r.prof
<1>1. PICK w \in Worker :
        /\ Spawn(w, s, p, "retry")
        /\ retries' = (retries \ {r}) \cup {[r EXCEPT !.on = w]}
  BY DEF RetrySpawn
<1>2. /\ r.on = 0
      /\ UNCHANGED <<current, engine, ports, user, joins, halted, orphans>>
  BY DEF RetrySpawn, history
<1>3. /\ r \in [start : Start, prof : Profile, on : Worker \cup {0}]
      /\ s \in Start /\ p \in Profile /\ s <= current
  BY DEF LifeInv, LifeTypes, Launched
<1> DEFINE rw == [r EXCEPT !.on = w]
<1>4. /\ rw \in [start : Start, prof : Profile, on : Worker \cup {0}]
      /\ rw.start = s /\ rw.prof = p /\ rw.on = w
  BY <1>3
<1>5. retries' = (retries \ {r}) \cup {rw}
  BY <1>1
<1> HIDE DEF rw
<1>6. \A q \in retries \ {r} : q.start # s \/ q.prof # p
  BY DEF LifeInv, OneOwner, RetriedIsOnly
<1>7. Own(s, p) = {}
  <2>1. Own(s, p) \subseteq {0} /\ Own(s, p) \subseteq Worker
    BY <1>2 DEF LifeInv, OneOwner, RetriedIsOnly, Own
  <2> QED BY <2>1
<1>8. engine[s].pc \notin {"off", "staging", "receiving"} /\ engine[s].queue = {}
  BY <1>3 DEF LifeInv, OneOwner, DeferredHaveNone, QueuedHaveNone
<1> HIDE DEF s, p
<1>9. /\ worker' \in [Worker -> WorkerRecord] /\ handles' \subseteq Worker
      /\ HandlesKept' /\ OldStartsHalted' /\ FailedIsOver'
      /\ \A v \in Worker : worker'[v].st # "unborn" =>
           worker'[v].start \in 1 .. current /\ worker'[v].prof \in Profile
      /\ worker[w].st = "unborn" /\ worker'[w].start = s
      /\ \A v \in Worker \ {w} : worker'[v] = worker[v]
      /\ \A t, q : t # s \/ q # p => Own(t, q)' = Own(t, q)
      /\ Own(s, p)' \subseteq Own(s, p) \cup {w}
  BY <1>1, <1>2, <1>3, SpawnMoves
<1>10. Own(s, p)' \subseteq {w}
  BY <1>7, <1>9
<1> USE DEF LifeInv
<1>11. LifeTypes'
  BY <1>2, <1>4, <1>5, <1>9 DEF LifeTypes
<1>12. Launched'
  <2>1. \A q \in retries' : q.start <= current
    BY <1>3, <1>4, <1>5 DEF Launched
  <2> QED BY <1>2, <1>9, <2>1 DEF Launched
<1>13. JoinersWait'
  BY <1>2 DEF JoinersWait, Joining
<1>14. AtMostOne'
  BY <1>9, <1>10 DEF OneOwner, AtMostOne
<1>15. QueuedHaveNone'
  BY <1>2, <1>8, <1>9 DEF OneOwner, QueuedHaveNone
<1>16. DeferredHaveNone'
  <2>1. \A t \in Start : engine[t].pc \in {"off", "staging", "receiving"} => t # s
    BY <1>8
  <2>2. \A q \in retries' : q.start = s \/ q \in retries
    BY <1>4, <1>5
  <2> QED BY <1>2, <1>9, <2>1, <2>2 DEF OneOwner, DeferredHaveNone
<1>17. StagedIsOnly'
  <2> SUFFICES ASSUME NEW t \in Start, engine[t].pc = "receiving"
               PROVE  \E u \in Worker :
                        /\ engine[t].staged = u
                        /\ worker'[u].st # "unborn"
                        /\ worker'[u].prof \in Profile
                        /\ worker'[u].prof \notin engine[t].queue
                        /\ \A v \in Worker :
                             Alive(v)' /\ worker'[v].start = t /\ worker'[v].by # "reload"
                             /\ worker'[v].prof = worker'[u].prof => v = u
    BY <1>2 DEF StagedIsOnly
  <2>1. PICK u \in Worker :
          /\ engine[t].staged = u
          /\ worker[u].st # "unborn"
          /\ worker[u].prof \in Profile
          /\ worker[u].prof \notin engine[t].queue
          /\ \A v \in Worker : Alive(v) /\ worker[v].start = t /\ worker[v].by # "reload"
                               /\ worker[v].prof = worker[u].prof => v = u
    BY DEF OneOwner, StagedIsOnly
  <2>2. t # s /\ u # w
    BY <1>8, <1>9, <2>1
  <2>3. worker'[u] = worker[u] /\ \A v \in Worker : worker'[v].start = t => worker'[v] = worker[v]
    BY <1>9, <2>2
  <2> QED BY <2>1, <2>3 DEF Alive
<1>18. RetriedIsOnly'
  <2>1. \A q \in retries' : Own(q.start, q.prof)' \subseteq {q.on}
    BY <1>4, <1>5, <1>6, <1>9, <1>10 DEF OneOwner, RetriedIsOnly
  <2>2. \A q, t \in retries' : q.start = t.start /\ q.prof = t.prof => q = t
    BY <1>4, <1>5, <1>6 DEF OneOwner, RetriedIsOnly
  <2> QED BY <2>1, <2>2 DEF RetriedIsOnly
<1> QED BY <1>9, <1>11, <1>12, <1>13, <1>14, <1>15, <1>16, <1>17, <1>18 DEF OneOwner

\* Kept by what a retry hears: it is done, or may try again.
LEMMA RetryReportKeeps ==
    ASSUME LifeInv, NEW r \in retries, RetryReport(r), budget' \in Scenario PROVE LifeInv'
<1> DEFINE r0 == [r EXCEPT !.on = 0]
<1>1. /\ r.on # 0 /\ Heard(r.on)
      /\ retries' = IF worker[r.on].report = "live" THEN retries \ {r}
                    ELSE (retries \ {r}) \cup {r0}
      /\ UNCHANGED <<handles, current, engine, ports, worker, user, joins, halted, orphans>>
  BY DEF RetryReport, statics, history
<1>2. r \in [start : Start, prof : Profile, on : Worker \cup {0}] /\ r.on \in Worker
  BY <1>1 DEF LifeInv, LifeTypes
<1>3. /\ r0 \in [start : Start, prof : Profile, on : Worker \cup {0}]
      /\ r0.start = r.start /\ r0.prof = r.prof /\ r0.on = 0
  BY <1>2
<1>4. \A q \in retries \ {r} : q.start # r.start \/ q.prof # r.prof
  BY DEF LifeInv, OneOwner, RetriedIsOnly
<1> HIDE DEF r0
<1>5. worker[r.on].report # "live" => Own(r.start, r.prof) = {}
  <2>1. Own(r.start, r.prof) \subseteq {r.on}
    BY DEF LifeInv, OneOwner, RetriedIsOnly
  <2>2. worker[r.on].report # "live" => ~ Alive(r.on)
    BY <1>1, <1>2, HeardIsOver
  <2> QED BY <2>1, <2>2 DEF Own
<1>6. \A t, q : Own(t, q)' = Own(t, q)
  BY <1>1 DEF Own, Alive
<1> USE DEF LifeInv
<1>7. LifeTypes'
  BY <1>1, <1>3 DEF LifeTypes
<1>8. Launched'
  <2>1. \A q \in retries' : q.start <= current
    BY <1>1, <1>3 DEF Launched
  <2> QED BY <1>1, <2>1 DEF Launched
<1>9. HandlesKept' /\ JoinersWait' /\ OldStartsHalted' /\ FailedIsOver'
  BY <1>1 DEF HandlesKept, Finished, Joining, JoinersWait, OldStartsHalted, FailedIsOver, Alive
<1>10. AtMostOne'
  BY <1>6 DEF OneOwner, AtMostOne
<1>11. QueuedHaveNone'
  BY <1>1, <1>6 DEF OneOwner, QueuedHaveNone
<1>12. DeferredHaveNone'
  <2>1. \A q \in retries' : \E t \in retries : t.start = q.start
    BY <1>1, <1>3
  <2> QED BY <1>1, <1>6, <2>1 DEF OneOwner, DeferredHaveNone
<1>13. StagedIsOnly'
  <2>1. \A v \in Worker : Alive(v)' = Alive(v)
    BY <1>1 DEF Alive
  <2>2. worker' = worker /\ engine' = engine /\ StagedIsOnly
    BY <1>1 DEF OneOwner
  <2> HIDE DEF LifeInv
  <2> QED BY <2>1, <2>2 DEF StagedIsOnly
<1>14. RetriedIsOnly'
  <2>1. \A q \in retries' : Own(q.start, q.prof)' \subseteq {q.on}
    BY <1>1, <1>3, <1>5, <1>6 DEF OneOwner, RetriedIsOnly
  <2>2. \A q, t \in retries' : q.start = t.start /\ q.prof = t.prof => q = t
    BY <1>1, <1>3, <1>4 DEF OneOwner, RetriedIsOnly
  <2> QED BY <2>1, <2>2 DEF RetriedIsOnly
<1> QED BY <1>7, <1>8, <1>9, <1>10, <1>11, <1>12, <1>13, <1>14 DEF OneOwner

\* Kept by a launch: nothing belongs to the new start yet, and the ones before it
\* were halted.
LEMMA LaunchKeeps ==
    ASSUME LifeInv, Launch(budget.profiles), budget' \in Scenario PROVE LifeInv'
<1> DEFINE s == current + 1
           rec == [Idle EXCEPT !.pc = "staging", !.queue = budget.profiles]
<1>1. /\ user \in {"launch", "shell"} /\ s \in Start /\ current' = s
      /\ engine' = [engine EXCEPT ![s] = rec]
      /\ user' \in {"monitor", "engine"}
      /\ UNCHANGED <<handles, ports, worker, retries, joins, halted, orphans>>
  BY DEF Launch, history
<1>2. /\ rec \in EngineRecord
      /\ rec.pc = "staging" /\ rec.deferred = {}
  BY DEF Idle, EngineRecord, EnginePcs, LifeInv, LifeTypes, Scenario
<1>3. engine \in [Start -> EngineRecord] /\ current \in Nat
  BY DEF LifeInv, LifeTypes
<1> HIDE DEF rec
<1>4. /\ engine' \in [Start -> EngineRecord]
      /\ engine'[s] = rec
      /\ \A r \in Start \ {s} : engine'[r] = engine[r]
  BY <1>1, <1>2, <1>3
<1>5. \A v \in Worker : Alive(v) => worker[v].start # s
  BY <1>3 DEF Alive, LifeInv, Launched
<1>6. \A q : Own(s, q) = {}
  BY <1>5 DEF Own
<1>7. \A t, q : Own(t, q)' = Own(t, q)
  BY <1>1 DEF Own, Alive
<1>8. \A r \in retries : r.start # s /\ r.start \in Nat
  <2> SUFFICES ASSUME NEW r \in retries PROVE r.start # s /\ r.start \in Nat
    OBVIOUS
  <2>1. r \in [start : Start, prof : Profile, on : Worker \cup {0}] /\ r.start <= current
    BY DEF LifeInv, LifeTypes, Launched
  <2>2. r.start \in Nat
    BY <2>1
  <2>3. \A n \in Nat : n <= current => n # s
    BY <1>3
  <2> QED BY <2>1, <2>2, <2>3
<1> USE DEF LifeInv
<1>9. LifeTypes'
  BY <1>1, <1>4 DEF LifeTypes
<1>10. Launched'
  <2>1. \A r \in Nat : r <= current => r <= s
    <3> HIDE DEF LifeInv
    <3> QED BY <1>3
  <2>2. \A r \in 1 .. current : r \in 1 .. s
    BY <1>3
  <2>3. \A r \in Start : engine'[r].pc # "off" \/ ports'[r] # "off" => r <= s
    BY <1>1, <1>3, <1>4, <2>1 DEF Launched
  <2>4. \A v \in Worker : worker'[v].st # "unborn" => worker'[v].start \in 1 .. s
    BY <1>1, <2>2 DEF Launched
  <2>5. \A r \in retries : r.start <= s
    BY <1>3, <1>8 DEF Launched
  <2> QED BY <1>1, <1>3, <2>3, <2>4, <2>5 DEF Launched
<1>11. HandlesKept'
  BY <1>1 DEF HandlesKept, Finished, Joining
<1>12. JoinersWait'
  <2>1. \A r \in Start : Joining(r) => r # s
    <3>1. engine[s].pc = "off"
      BY <1>1, <1>3 DEF Launched
    <3> QED BY <3>1 DEF JoinersWait
  <2> QED BY <1>1, <1>4, <2>1 DEF JoinersWait, Joining
<1>13. OldStartsHalted'
  <2>1. \A r \in 1 .. current : r \in halted
    BY <1>1, <1>3 DEF OldStartsHalted, Launched
  <2>2. \A r \in 1 .. s : r < s => r \in 1 .. current
    BY <1>3
  <2>3. \A v \in handles : worker[v].st = "unborn" \/ worker[v].late
    BY <1>1, <1>3 DEF OldStartsHalted, Launched, LifeTypes
  <2> QED BY <1>1, <2>1, <2>2, <2>3 DEF OldStartsHalted
<1>14. FailedIsOver'
  BY <1>1 DEF FailedIsOver, Alive
<1> HIDE DEF s
<1>15. AtMostOne'
  BY <1>7 DEF OneOwner, AtMostOne
<1>16. QueuedHaveNone'
  BY <1>2, <1>4, <1>6, <1>7 DEF OneOwner, QueuedHaveNone
<1>17. DeferredHaveNone'
  BY <1>1, <1>2, <1>4, <1>7, <1>8 DEF OneOwner, DeferredHaveNone
<1>18. StagedIsOnly'
  <2>1. \A r \in Start : engine'[r].pc = "receiving" => engine'[r] = engine[r]
    BY <1>2, <1>4
  <2>2. \A v \in Worker : Alive(v)' = Alive(v)
    BY <1>1 DEF Alive
  <2> QED BY <1>1, <2>1, <2>2 DEF OneOwner, StagedIsOnly
<1>19. RetriedIsOnly'
  BY <1>1, <1>7 DEF OneOwner, RetriedIsOnly
<1> QED BY <1>9, <1>10, <1>11, <1>12, <1>13, <1>14, <1>15, <1>16, <1>17, <1>18, <1>19 DEF OneOwner

\* A process that has not begun, and one that has died.
Fresh ==
    /\ handles = {} /\ current = 0 /\ engine = [s \in Start |-> Idle]
    /\ ports = [s \in Start |-> "off"] /\ worker = [w \in Worker |-> NoWorker] /\ retries = {}
    /\ user \in {"menu", "shell"} /\ joins = [j \in Joiner |-> None] /\ halted = {}
    /\ orphans = {} /\ budget \in Scenario

\* LifeInv holds in it.
LEMMA FreshProcess == Fresh => LifeInv
<1> SUFFICES ASSUME Fresh PROVE LifeInv
  OBVIOUS
<1> USE DEF Fresh
<1>1. NoWorker \in WorkerRecord /\ NoWorker.st = "unborn" /\ NoWorker.report # "failed"
  BY DEF NoWorker, WorkerRecord
<1>2. Idle \in EngineRecord /\ Idle.pc = "off" /\ Idle.queue = {} /\ Idle.deferred = {}
  BY DEF Idle, EngineRecord, EnginePcs
<1>3. LifeTypes
  BY <1>1, <1>2 DEF LifeTypes
<1>4. Launched /\ HandlesKept /\ JoinersWait /\ OldStartsHalted
  BY <1>1, <1>2 DEF Launched, HandlesKept, JoinersWait, OldStartsHalted, Finished, Joining, Joiner,
                    TheMenu
<1>5. \A s, p : Own(s, p) = {}
  BY <1>1 DEF Own, Alive
<1>6. FailedIsOver
  BY <1>1 DEF FailedIsOver
<1>7. OneOwner
  BY <1>2, <1>5 DEF OneOwner, AtMostOne, QueuedHaveNone, DeferredHaveNone, StagedIsOnly,
                    RetriedIsOnly
<1> QED BY <1>3, <1>4, <1>6, <1>7 DEF LifeInv

-----------------------------------------------------------------------------
(* The inductive invariant of EditsTakeEffect                              *)

Entry == [name : Name, op : Op, born : Nat, put : Nat]
Request == [pc : {"free", "lookup", "probe", "compute", "answered", "truncate", "write",
                  "invalidate", "clear", "collect", "spawn"},
            start : Server \cup {0}, name : Name \cup {Nothing}, op : Op, ops : [Name -> Op],
            hit : BOOLEAN, born : Nat, put : Nat, since : Nat, sinceAt : Nat, from : Nat,
            raced : BOOLEAN, specs : SUBSET Profile]
Editing == {"truncate", "write", "invalidate"}

OpsTypes ==
    /\ opsFile \in [torn : BOOLEAN, ops : [Name -> Op]]
    /\ opsCache \in [Server -> {Nothing} \cup [ops : [Name -> Op], foreign : BOOLEAN]]
    /\ responses \in [Server -> Seq(Entry)]
    /\ req \in [Client -> Request]
    /\ edits \in Nat
    /\ acked \in [Server -> [Name -> Nat]]
    /\ ackedAt \in [Server -> [Name -> Nat]]
    /\ clears \in [Server -> Nat]
    /\ damaged \in BOOLEAN

\* A request belongs to a server that was launched; one not launched has nothing.
RequestsPlaced ==
    /\ current \in Nat
    /\ \A c \in Client : req[c].pc # "free" => req[c].start \in Server /\ req[c].start <= current
    /\ \A c \in Client : req[c].pc \in Reading \cup Editing => req[c].name \in Name
    /\ \A s \in Server : s > current => opsCache[s] = Nothing /\ responses[s] = <<>>

\* The operation a request is about.
About(c) == BatchOf[req[c].name]

\* The entries of a server's response cache.
Elems(seq) == {seq[i] : i \in 1 .. Len(seq)}
Entries(s) == Elems(responses[s])

\* The histories in the order in which they were taken.
HistoryOrder ==
    /\ \A n \in Name : opsFile.ops[n].edit <= edits
    /\ \A s \in Server, n \in Name : acked[s][n] <= edits /\ ackedAt[s][n] <= clears[s]
    /\ \A s \in Server : \A e \in Entries(s) : e.born <= e.put /\ e.put = clears[s] /\ e.op.there
RequestOrder ==
    /\ \A c \in Client : req[c].pc \in Editing => \A n \in Name : req[c].ops[n].edit <= edits
    /\ \A c \in Client : req[c].pc \in Reading =>
         /\ req[c].since <= acked[req[c].start][About(c)]
         /\ req[c].sinceAt <= req[c].from /\ req[c].from <= clears[req[c].start]
    /\ \A c \in Client : req[c].pc \in {"probe", "compute"} => req[c].born <= clears[req[c].start]

\* One edit at a time is between its load and its write, the file is torn only
\* while it writes, and what it writes is no older than what is there.
FileIsCurrent ==
    /\ \A c, d \in Client : req[c].pc \in Loaded /\ req[d].pc \in Loaded => c = d
    /\ opsFile.torn => \E c \in Client : req[c].pc = "write"
    /\ \A c \in Client : req[c].pc \in Loaded =>
         \A n \in Name : opsFile.ops[n].edit <= req[c].ops[n].edit
    /\ \A c \in Client : req[c].pc = "invalidate" =>
         req[c].ops[req[c].name].edit <= opsFile.ops[req[c].name].edit
    /\ \A s \in Server, n \in Name : acked[s][n] <= opsFile.ops[n].edit

\* Cached definitions have every edit the server has acknowledged, or nothing at
\* all because they were loaded from a torn file whose writer is yet to drop
\* them, or is of another server.
CacheIsCurrent ==
    \A s \in Server : opsCache[s] # Nothing =>
        \/ \A n \in Name : acked[s][n] <= opsCache[s].ops[n].edit
        \/ /\ opsCache[s].ops = NoOps
           /\ opsCache[s].foreign \/ \E c \in Client : req[c].pc \in Saving /\ req[c].start = s

\* The operation a read has looked up has the edits acknowledged before the read.
LookupIsCurrent ==
    \A c \in Client : req[c].pc \in {"probe", "compute"} =>
        req[c].since <= req[c].op.edit \/ (req[c].raced /\ req[c].op = Missing)

\* An operation looked up after an edit was acknowledged, as the clears tell, has
\* the edit: in a request that will store it, and in a cached response.
LaterLookups(s, n, at, edit) ==
    /\ \A d \in Client :
         req[d].pc \in {"probe", "compute"} /\ req[d].start = s /\ About(d) = n
         /\ req[d].op.there /\ req[d].born > at => req[d].op.edit >= edit
    /\ \A e \in Entries(s) : BatchOf[e.name] = n /\ e.born > at => e.op.edit >= edit

AckedAreSeen == \A s \in Server, n \in Name : LaterLookups(s, n, ackedAt[s][n], acked[s][n])
ReadsWillSee ==
    \A c \in Client : req[c].pc \in {"lookup", "probe"} =>
        LaterLookups(req[c].start, About(c), req[c].sinceAt, req[c].since)

OpsInv ==
    /\ OpsTypes
    /\ RequestsPlaced
    /\ HistoryOrder
    /\ RequestOrder
    /\ ~ damaged =>
         /\ FileIsCurrent
         /\ CacheIsCurrent
         /\ LookupIsCurrent
         /\ AckedAreSeen
         /\ ReadsWillSee
         /\ EditsTakeEffect

USE BatchesRunOperations, ServersAreStarts

\* What ResponseCache removes or evicts leaves some of the entries.
LEMMA WithoutElems ==
    ASSUME NEW seq \in Seq(Entry), NEW n
    PROVE  Without(seq, n) \in Seq(Entry) /\ Elems(Without(seq, n)) \subseteq Elems(seq)
<1> DEFINE at == {i \in 1 .. Len(seq) : seq[i].name = n}
           i == CHOOSE i \in at : TRUE
<1>1. CASE at = {}
  BY <1>1 DEF Without
<1>2. CASE at # {}
  <2>1. i \in 1 .. Len(seq) /\ i \in Nat
    BY <1>2
  <2> DEFINE front == SubSeq(seq, 1, i - 1)
             back == SubSeq(seq, i + 1, Len(seq))
  <2>2. Without(seq, n) = front \o back
    BY <1>2 DEF Without
  <2> HIDE DEF at, i
  <2>3. front \in Seq(Entry) /\ Len(front) = i - 1 /\ \A k \in 1 .. i - 1 : front[k] = seq[k]
    BY <2>1
  <2>4. back \in Seq(Entry) /\ Len(back) = Len(seq) - i
        /\ \A k \in 1 .. Len(seq) - i : back[k] = seq[i + k]
    BY <2>1
  <2> HIDE DEF front, back
  <2>5. front \o back \in Seq(Entry) /\ Len(front \o back) = Len(seq) - 1
    <3>1. front \o back \in Seq(Entry) /\ Len(front \o back) = Len(front) + Len(back)
      <4>1. front \in Seq(Entry) /\ back \in Seq(Entry)
        BY <2>3, <2>4
      <4> QED BY <4>1, ConcatProperties
    <3>2. Len(seq) \in Nat
      OBVIOUS
    <3> QED BY <2>1, <2>3, <2>4, <3>1, <3>2
  <2>6. \A k \in 1 .. Len(seq) - 1 :
          (front \o back)[k] = IF k <= i - 1 THEN seq[k] ELSE seq[k + 1]
    <3> SUFFICES ASSUME NEW k \in 1 .. Len(seq) - 1
                 PROVE  (front \o back)[k] = IF k <= i - 1 THEN seq[k] ELSE seq[k + 1]
      OBVIOUS
    <3>1. Len(seq) \in Nat
      OBVIOUS
    <3>2. CASE k <= i - 1
      <4>1. k \in 1 .. Len(front)
        BY <2>1, <2>3, <3>2
      <4>2. (front \o back)[k] = front[k]
        BY <2>3, <2>4, <4>1
      <4> QED BY <2>3, <3>2, <4>1, <4>2
    <3>3. CASE ~ (k <= i - 1)
      <4>1. k - (i - 1) \in 1 .. Len(seq) - i /\ i + (k - (i - 1)) = k + 1
        BY <2>1, <3>1, <3>3
      <4>2. (front \o back)[k] = back[k - Len(front)]
        BY <2>1, <2>3, <2>4, <2>5, <3>1, <3>3
      <4> QED BY <2>3, <2>4, <3>3, <4>1, <4>2
    <3> QED BY <3>2, <3>3
  <2>7. \A k \in 1 .. Len(seq) - 1 : k \in 1 .. Len(seq) /\ k + 1 \in 1 .. Len(seq)
    BY <2>1
  <2>8. \A k \in 1 .. Len(seq) - 1 : (front \o back)[k] \in Elems(seq)
    BY <2>6, <2>7 DEF Elems
  <2> QED BY <2>2, <2>5, <2>8 DEF Elems
<1> QED BY <1>1, <1>2

LEMMA StoredElems ==
    ASSUME NEW seq \in Seq(Entry), NEW e \in Entry
    PROVE  Stored(seq, e) \in Seq(Entry) /\ Elems(Stored(seq, e)) \subseteq Elems(seq) \cup {e}
<1> DEFINE kept == IF Len(seq) >= MaxEntries THEN Tail(seq) ELSE seq
<1>1. kept \in Seq(Entry) /\ Elems(kept) \subseteq Elems(seq)
  <2>1. CASE Len(seq) >= MaxEntries
    <3>1. Len(seq) \in Nat \ {0}
      BY <2>1, LimitsArePositive
    <3>2. /\ Tail(seq) \in Seq(Entry) /\ Len(Tail(seq)) = Len(seq) - 1
          /\ \A k \in 1 .. Len(seq) - 1 : Tail(seq)[k] = seq[k + 1] /\ k + 1 \in 1 .. Len(seq)
      BY <3>1
    <3> QED BY <2>1, <3>2 DEF Elems
  <2>2. CASE ~ (Len(seq) >= MaxEntries)
    BY <2>2
  <2> QED BY <2>1, <2>2
<1>2. Stored(seq, e) = Append(Without(kept, e.name), e)
  BY DEF Stored
<1> HIDE DEF kept
<1> DEFINE less == Without(kept, e.name)
<1>3. less \in Seq(Entry) /\ Elems(less) \subseteq Elems(seq)
  BY <1>1, WithoutElems
<1> HIDE DEF less
<1>4. /\ Append(less, e) \in Seq(Entry) /\ Len(Append(less, e)) = Len(less) + 1
      /\ \A k \in 1 .. Len(less) : Append(less, e)[k] = less[k]
      /\ Append(less, e)[Len(less) + 1] = e
  BY <1>3
<1>5. \A k \in 1 .. Len(less) + 1 : Append(less, e)[k] \in Elems(less) \cup {e}
  BY <1>3, <1>4 DEF Elems
<1>6. Elems(Append(less, e)) \subseteq Elems(less) \cup {e}
  BY <1>4, <1>5 DEF Elems
<1> QED BY <1>2, <1>3, <1>4, <1>6 DEF less

\* A bounded set of numbers has a greatest.
LEMMA Greatest ==
    ASSUME NEW T \in SUBSET Nat, T # {}, NEW b \in Nat, \A x \in T : x <= b
    PROVE  \E m \in T : \A x \in T : x <= m
<1> DEFINE D == {b - x : x \in T}
<1>1. D \in SUBSET Nat /\ D # {}
  <2>1. \A x \in T : b - x \in Nat
    OBVIOUS
  <2> QED BY <2>1
<1>2. IsWellFoundedOn(OpToRel(<, Nat), Nat)
  BY NatLessThanWellFounded
<1>3. PICK d \in D : \A y \in D : ~ (<<y, d>> \in OpToRel(<, Nat))
  BY <1>1, <1>2, WFMin
<1>4. \A y \in D : ~ (y < d)
  BY <1>1, <1>3 DEF OpToRel
<1>5. PICK m \in T : d = b - m
  OBVIOUS
<1>6. ASSUME NEW x \in T PROVE x <= m
  <2>1. b - x \in D
    OBVIOUS
  <2>2. ~ (b - x < b - m) /\ x \in Nat /\ m \in Nat
    BY <1>4, <1>5, <2>1
  <2> QED BY <2>2
<1> QED BY <1>5, <1>6

\* Kept by the steps of a request that neither reads nor edits after them, whether
\* or not they drop the definitions of a server.
LEMMA QuietKeeps ==
    ASSUME OpsInv, NEW c \in Client, NEW rec \in Request, Moves(c, rec),
           rec.pc \in {"free", "clear", "collect", "spawn"}, req[c].pc \notin Editing,
           rec.pc # "free" => rec.start \in Server /\ rec.start <= current,
           opsCache' = opsCache \/ (\E s \in Server : opsCache' = [opsCache EXCEPT ![s] = Nothing]),
           UNCHANGED <<opsFile, responses, edits, acked, ackedAt, clears, damaged, current>>
    PROVE  OpsInv'
<1>1. req \in [Client -> Request]
  BY DEF OpsInv, OpsTypes
<1>2. /\ req' \in [Client -> Request] /\ req'[c] = rec
      /\ \A d \in Client \ {c} : req'[d] = req[d]
  BY <1>1 DEF Moves
<1>3. /\ opsCache' \in [Server -> {Nothing} \cup [ops : [Name -> Op], foreign : BOOLEAN]]
      /\ \A s \in Server : opsCache'[s] \in {opsCache[s], Nothing}
  BY DEF OpsInv, OpsTypes
<1>4. \A d \in Client : req'[d].pc \in Reading \cup Editing \cup {"answered"} => req'[d] = req[d]
  BY <1>2 DEF Reading, Editing
<1>5. \A d \in Client : req[d].pc \in Editing => req'[d] = req[d]
  BY <1>2
<1>6. \A s \in Server : Entries(s)' = Entries(s)
  BY DEF Entries, Elems
<1> USE DEF OpsInv
<1>7. OpsTypes'
  BY <1>2, <1>3 DEF OpsTypes
<1>8. RequestsPlaced'
  BY <1>2, <1>3, <1>4 DEF RequestsPlaced
<1>9. HistoryOrder'
  BY <1>6 DEF HistoryOrder
<1>10. RequestOrder'
  BY <1>4 DEF RequestOrder, About, Reading
<1>11. ASSUME ~ damaged PROVE FileIsCurrent'
  BY <1>4, <1>5, <1>11 DEF FileIsCurrent, Editing, Loaded
<1>12. ASSUME ~ damaged PROVE CacheIsCurrent'
  BY <1>3, <1>5, <1>12 DEF CacheIsCurrent, Editing, Saving
<1>13. ASSUME ~ damaged PROVE LookupIsCurrent'
  BY <1>4, <1>13 DEF LookupIsCurrent, Reading
<1>14. ASSUME ~ damaged PROVE EditsTakeEffect'
  BY <1>4, <1>14 DEF EditsTakeEffect
<1>15. ASSUME NEW s \in Server, NEW n, NEW at, NEW edit, LaterLookups(s, n, at, edit)
       PROVE  LaterLookups(s, n, at, edit)'
  BY <1>4, <1>6, <1>15 DEF LaterLookups, About, Reading
<1>16. ASSUME ~ damaged PROVE AckedAreSeen'
  BY <1>15, <1>16 DEF AckedAreSeen
<1>17. ASSUME ~ damaged PROVE ReadsWillSee'
  BY <1>4, <1>15, <1>17 DEF ReadsWillSee, RequestsPlaced, Reading, About
<1> QED BY <1>7, <1>8, <1>9, <1>10, <1>11, <1>12, <1>13, <1>14, <1>16, <1>17

\* A fresh request.
LEMMA FreeIsRequest == Free \in Request /\ Free.pc = "free" /\ Missing \in Op /\ NoOps \in [Name -> Op]
<1>1. Missing \in Op /\ NoOps \in [Name -> Op]
  BY DEF Missing, NoOps, Op
<1> QED BY <1>1 DEF Free, Request

\* Kept by the answers of a request.
LEMMA AnsweredKeeps ==
    ASSUME OpsInv, NEW c \in Client, Answered(c) \/ ComputeFails(c) \/ ReloadEnds(c), current' = current
    PROVE  OpsInv'
<1>1. req[c].pc \notin Editing
  BY DEF Answered, ComputeFails, ReloadEnds, Editing
<1>2. Moves(c, Free) /\ UNCHANGED <<opsFile, opsCache, responses, edits, acked, ackedAt, clears, damaged>>
  BY DEF Answered, ComputeFails, ReloadEnds
<1> QED BY <1>1, <1>2, FreeIsRequest, QuietKeeps

\* Kept by the steps of a reload that touch no response.
LEMMA ReloadKeeps ==
    ASSUME OpsInv, NEW c \in Client, current' = current,
           \/ \E s \in Server : s <= current /\ BeginReload(c, s)
           \/ \E specs \in SUBSET Profile : ReloadCollects(c, specs)
           \/ \E p \in Profile : ReloadSpawned(c, p)
    PROVE  OpsInv'
<1>1. req[c] \in Request /\ req[c].pc # "free" => req[c].start \in Server /\ req[c].start <= current
  BY DEF OpsInv, OpsTypes, RequestsPlaced
<1>2. ASSUME NEW s \in Server, s <= current, BeginReload(c, s) PROVE OpsInv'
  <2> DEFINE rec == [Free EXCEPT !.pc = "clear", !.start = s]
  <2>1. rec \in Request /\ rec.pc = "clear" /\ rec.start = s
    BY FreeIsRequest DEF Request
  <2>2. Moves(c, rec) /\ req[c].pc = "free"
    BY <1>2 DEF BeginReload
  <2> HIDE DEF rec
  <2> QED BY <1>2, <2>1, <2>2, QuietKeeps DEF BeginReload, Editing
<1>3. ASSUME NEW specs \in SUBSET Profile, ReloadCollects(c, specs) PROVE OpsInv'
  <2> DEFINE rec == [req[c] EXCEPT !.pc = "spawn", !.specs = specs]
  <2>0. req[c] \in Request
    BY DEF OpsInv, OpsTypes
  <2>1. rec \in Request /\ rec.pc = "spawn" /\ rec.start = req[c].start
    BY <2>0 DEF Request
  <2>2. Moves(c, rec) /\ req[c].pc = "collect"
    BY <1>3 DEF ReloadCollects
  <2> HIDE DEF rec
  <2> QED BY <1>1, <1>3, <2>0, <2>1, <2>2, QuietKeeps DEF ReloadCollects, Editing
<1>4. ASSUME NEW p \in Profile, ReloadSpawned(c, p) PROVE OpsInv'
  <2> DEFINE rec == [req[c] EXCEPT !.specs = @ \ {p}]
  <2>0. req[c] \in Request /\ req[c].pc = "spawn"
    BY <1>4 DEF OpsInv, OpsTypes, ReloadSpawned
  <2>1. rec \in Request /\ rec.pc = "spawn" /\ rec.start = req[c].start
    BY <2>0 DEF Request
  <2>2. Moves(c, rec)
    BY <1>4 DEF ReloadSpawned
  <2> HIDE DEF rec
  <2> QED BY <1>1, <1>4, <2>0, <2>1, <2>2, QuietKeeps DEF ReloadSpawned, Editing
<1> QED BY <1>2, <1>3, <1>4

\* What a step of a read does to its request: it keeps what it began with, and
\* looks its operation up in definitions that are current.
ReadMoves(c, rec) ==
    /\ rec \in Request /\ Moves(c, rec)
    /\ rec.pc \in Reading \cup {"answered"} /\ req[c].pc \notin Editing
    /\ rec.start \in Server /\ rec.start <= current /\ rec.name \in Name
    /\ rec.pc \in Reading =>
         /\ rec.since <= acked[rec.start][BatchOf[rec.name]]
         /\ rec.sinceAt <= rec.from /\ rec.from <= clears[rec.start]
    /\ rec.pc \in {"probe", "compute"} =>
         /\ rec.born <= clears[rec.start]
         /\ ~ damaged => rec.since <= rec.op.edit \/ (rec.raced /\ rec.op = Missing)
         /\ ~ damaged /\ rec.op.there =>
              \/ acked[rec.start][BatchOf[rec.name]] <= rec.op.edit
              \/ /\ req[c].pc \in {"probe", "compute"}
                 /\ rec.start = req[c].start /\ rec.name = req[c].name
                 /\ rec.op = req[c].op /\ rec.born = req[c].born
    /\ rec.pc \in {"lookup", "probe"} =>
         \/ /\ rec.since = acked[rec.start][BatchOf[rec.name]]
            /\ rec.sinceAt = ackedAt[rec.start][BatchOf[rec.name]]
         \/ /\ req[c].pc \in {"lookup", "probe"}
            /\ rec.start = req[c].start /\ rec.name = req[c].name
            /\ rec.since = req[c].since /\ rec.sinceAt = req[c].sinceAt
    /\ rec.pc = "answered" /\ ~ damaged /\ rec.op.edit < rec.since =>
         \/ rec.raced /\ rec.op = Missing
         \/ rec.hit /\ (rec.from = rec.sinceAt \/ rec.born < rec.put)

\* ... to the response cache, which gets no entry but that of a computed request.
ResponsesMove(c) ==
    /\ responses' \in [Server -> Seq(Entry)]
    /\ \A s \in Server : s > current => responses'[s] = <<>>
    /\ \A s \in Server : \A e \in Entries(s)' :
         \/ e \in Entries(s)
         \/ /\ req[c].pc = "compute" /\ req[c].start = s /\ BatchOf[e.name] = About(c)
            /\ e.op = req[c].op /\ e.born = req[c].born /\ e.put = clears[s] /\ e.op.there

\* ... and to the definitions.
DefinitionsMove ==
    /\ opsCache' \in [Server -> {Nothing} \cup [ops : [Name -> Op], foreign : BOOLEAN]]
    /\ \A s \in Server : s > current => opsCache'[s] = Nothing
    /\ ~ damaged =>
         \A s \in Server : opsCache'[s] # Nothing =>
             \/ \A n \in Name : acked[s][n] <= opsCache'[s].ops[n].edit
             \/ /\ opsCache'[s].ops = NoOps
                /\ opsCache'[s].foreign \/ \E d \in Client : req[d].pc \in Saving /\ req[d].start = s

LEMMA ReadKeeps ==
    ASSUME OpsInv, NEW c \in Client, NEW rec, ReadMoves(c, rec), ResponsesMove(c), DefinitionsMove,
           UNCHANGED <<opsFile, edits, acked, ackedAt, clears, damaged, current>>
    PROVE  OpsInv'
<1>1. req \in [Client -> Request]
  BY DEF OpsInv, OpsTypes
<1>2. /\ req' \in [Client -> Request] /\ req'[c] = rec
      /\ \A d \in Client \ {c} : req'[d] = req[d]
  BY <1>1 DEF Moves, ReadMoves
<1>3. \A d \in Client : req'[d].pc \in Editing <=> req[d].pc \in Editing
  BY <1>2 DEF ReadMoves, Reading, Editing
<1>4. \A d \in Client : req[d].pc \in Editing => req'[d] = req[d]
  BY <1>2 DEF ReadMoves
<1> USE DEF OpsInv
<1>5. OpsTypes'
  BY <1>2 DEF OpsTypes, ResponsesMove, DefinitionsMove
<1>6. RequestsPlaced'
  <2>1. \A d \in Client : req'[d].pc # "free" => req'[d].start \in Server /\ req'[d].start <= current
    BY <1>2 DEF RequestsPlaced, ReadMoves
  <2>2. \A d \in Client : req'[d].pc \in Reading \cup Editing => req'[d].name \in Name
    BY <1>2 DEF RequestsPlaced, ReadMoves
  <2> QED BY <2>1, <2>2 DEF RequestsPlaced, ResponsesMove, DefinitionsMove
<1>7. HistoryOrder'
  <2>1. req[c].pc = "compute" => req[c].born <= clears[req[c].start]
    BY DEF RequestOrder
  <2>2. \A s \in Server : \A e \in Entries(s)' : e.born <= e.put /\ e.put = clears[s] /\ e.op.there
    BY <2>1 DEF HistoryOrder, ResponsesMove
  <2> QED BY <2>2 DEF HistoryOrder
<1>8. RequestOrder'
  <2>1. \A d \in Client : req'[d].pc \in Editing => \A n \in Name : req'[d].ops[n].edit <= edits
    BY <1>3, <1>4 DEF RequestOrder
  <2>2. \A d \in Client : req'[d].pc \in Reading =>
          /\ req'[d].since <= acked[req'[d].start][BatchOf[req'[d].name]]
          /\ req'[d].sinceAt <= req'[d].from /\ req'[d].from <= clears[req'[d].start]
    BY <1>2 DEF RequestOrder, ReadMoves, About
  <2>3. \A d \in Client : req'[d].pc \in {"probe", "compute"} => req'[d].born <= clears[req'[d].start]
    BY <1>2 DEF RequestOrder, ReadMoves
  <2> QED BY <2>1, <2>2, <2>3 DEF RequestOrder, About
<1>9. ASSUME ~ damaged PROVE FileIsCurrent'
  BY <1>3, <1>4, <1>9 DEF FileIsCurrent, Editing, Loaded
<1>10. ASSUME ~ damaged PROVE CacheIsCurrent'
  BY <1>3, <1>4, <1>10 DEF DefinitionsMove, CacheIsCurrent, Editing, Saving
<1>11. ASSUME ~ damaged PROVE LookupIsCurrent'
  BY <1>2, <1>11 DEF LookupIsCurrent, ReadMoves
<1>12. ASSUME ~ damaged PROVE EditsTakeEffect'
  BY <1>2, <1>12 DEF EditsTakeEffect, ReadMoves
<1>13. ASSUME ~ damaged, NEW s \in Server, NEW n \in Name, NEW at \in Nat, NEW edit \in Nat,
              edit <= acked[s][n], LaterLookups(s, n, at, edit)
       PROVE  LaterLookups(s, n, at, edit)'
  <2>1. ASSUME NEW d \in Client, req'[d].pc \in {"probe", "compute"}, req'[d].start = s,
               BatchOf[req'[d].name] = n, req'[d].op.there, req'[d].born > at
        PROVE  req'[d].op.edit >= edit
    <3>1. CASE d # c
      BY <1>2, <1>13, <2>1, <3>1 DEF LaterLookups, About
    <3>2. CASE d = c /\ acked[s][n] <= rec.op.edit
      <4>1. rec.op.edit \in Nat /\ acked[s][n] \in Nat
        BY DEF ReadMoves, Request, Op, OpsTypes
      <4> QED BY <1>2, <1>13, <3>2, <4>1
    <3>3. CASE d = c /\ ~ (acked[s][n] <= rec.op.edit)
      <4>1. /\ req[c].pc \in {"probe", "compute"} /\ s = req[c].start /\ rec.name = req[c].name
            /\ rec.op = req[c].op /\ rec.born = req[c].born
        BY <1>2, <1>13, <2>1, <3>3 DEF ReadMoves
      <4> QED BY <1>2, <1>13, <2>1, <3>3, <4>1 DEF LaterLookups, About
    <3> QED BY <3>1, <3>2, <3>3
  <2>2. ASSUME NEW e \in Entries(s)', BatchOf[e.name] = n, e.born > at PROVE e.op.edit >= edit
    BY <1>13, <2>2 DEF LaterLookups, ResponsesMove
  <2> QED BY <2>1, <2>2 DEF LaterLookups, About
<1>14. ASSUME ~ damaged PROVE AckedAreSeen'
  <2>1. \A s \in Server, n \in Name : ackedAt[s][n] \in Nat /\ acked[s][n] \in Nat
    BY DEF OpsTypes
  <2>2. \A s \in Server, n \in Name : acked[s][n] <= acked[s][n]
    <3>1. \A x \in Nat : x <= x
      OBVIOUS
    <3> HIDE DEF OpsInv
    <3> QED BY <2>1, <3>1
  <2> QED BY <1>13, <1>14, <2>1, <2>2 DEF AckedAreSeen
<1>15. ASSUME ~ damaged PROVE ReadsWillSee'
  <2> SUFFICES ASSUME NEW d \in Client, req'[d].pc \in {"lookup", "probe"}
               PROVE  LaterLookups(req[d].start, About(d), req[d].sinceAt, req[d].since)'
    BY DEF ReadsWillSee
  <2> DEFINE s == req'[d].start
             n == BatchOf[req'[d].name]
             at == req'[d].sinceAt
             edit == req'[d].since
  <2>1. s \in Server /\ n \in Name /\ edit <= acked[s][n]
    BY <1>6, <1>8 DEF RequestsPlaced, RequestOrder, About, Reading
  <2>2. at \in Nat /\ edit \in Nat
    BY <1>2 DEF Request
  <2>3. LaterLookups(s, n, at, edit)
    <3>1. CASE d # c
      BY <1>2, <1>15, <3>1 DEF ReadsWillSee, About
    <3>2. CASE d = c
      BY <1>2, <1>15, <2>1, <3>2 DEF ReadsWillSee, About, AckedAreSeen, ReadMoves
    <3> QED BY <3>1, <3>2
  <2> QED BY <1>13, <1>15, <2>1, <2>2, <2>3 DEF About
<1> QED BY <1>5, <1>6, <1>7, <1>8, <1>9, <1>10, <1>11, <1>12, <1>14, <1>15

\* The definitions as the file has them now are current, or nothing at all while
\* the file is torn.
LEMMA FileDefinitions ==
    ASSUME OpsInv, NEW s \in Server
    PROVE  /\ FromFile(s) \in [ops : [Name -> Op], foreign : BOOLEAN]
           /\ ~ damaged =>
                \/ \A n \in Name : acked[s][n] <= FromFile(s).ops[n].edit
                \/ /\ FromFile(s).ops = NoOps
                   /\ \E d \in Client : req[d].pc \in Saving
                   /\ FromFile(s).foreign \/ \E d \in Client : req[d].pc \in Saving /\ req[d].start = s
<1>1. LoadedOps \in [Name -> Op]
  BY FreeIsRequest DEF LoadedOps, OpsInv, OpsTypes
<1>2. /\ FromFile(s) \in [ops : [Name -> Op], foreign : BOOLEAN]
      /\ FromFile(s).ops = LoadedOps
      /\ FromFile(s).foreign <=> \E d \in Client : req[d].pc = "write" /\ req[d].start # s
  BY <1>1 DEF FromFile, In
<1>3. ASSUME ~ damaged, opsFile.torn
      PROVE  /\ LoadedOps = NoOps
             /\ \E d \in Client : req[d].pc = "write"
  BY <1>3 DEF LoadedOps, OpsInv, FileIsCurrent
<1>4. ASSUME ~ damaged, ~ opsFile.torn PROVE \A n \in Name : acked[s][n] <= LoadedOps[n].edit
  BY <1>4 DEF LoadedOps, OpsInv, FileIsCurrent
<1> QED BY <1>2, <1>3, <1>4 DEF Saving

\* The responses stay as they are.
LEMMA ResponsesStay ==
    ASSUME OpsInv, NEW c \in Client, responses' = responses PROVE ResponsesMove(c)
BY DEF OpsInv, OpsTypes, RequestsPlaced, ResponsesMove, Entries, Elems

\* The definitions stay as they are.
LEMMA DefinitionsStay == ASSUME OpsInv, opsCache' = opsCache PROVE DefinitionsMove
BY DEF OpsInv, OpsTypes, RequestsPlaced, CacheIsCurrent, DefinitionsMove

\* The definitions of one server are loaded, or kept.
LEMMA DefinitionsLoaded ==
    ASSUME OpsInv, NEW s \in Server, s <= current, NEW cached,
           cached = FromFile(s) \/ (cached = opsCache[s] /\ opsCache[s] # Nothing),
           opsCache' = [opsCache EXCEPT ![s] = cached]
    PROVE  /\ DefinitionsMove
           /\ cached \in [ops : [Name -> Op], foreign : BOOLEAN]
           /\ ~ damaged =>
                \/ \A n \in Name : acked[s][n] <= cached.ops[n].edit
                \/ /\ cached.ops = NoOps
                   /\ cached.foreign \/ \E d \in Client : req[d].pc \in Saving
<1>1. opsCache \in [Server -> {Nothing} \cup [ops : [Name -> Op], foreign : BOOLEAN]]
      /\ \A r \in Server : r > current => opsCache[r] = Nothing
      /\ current \in Nat
  BY DEF OpsInv, OpsTypes, RequestsPlaced
<1>2. cached \in [ops : [Name -> Op], foreign : BOOLEAN]
  <2>1. FromFile(s) \in [ops : [Name -> Op], foreign : BOOLEAN]
    BY FileDefinitions
  <2>2. opsCache[s] # Nothing => opsCache[s] \in [ops : [Name -> Op], foreign : BOOLEAN]
    BY <1>1
  <2>3. CASE cached = FromFile(s)
    BY <2>1, <2>3
  <2>4. CASE cached = opsCache[s] /\ opsCache[s] # Nothing
    BY <2>2, <2>4
  <2> QED BY <2>3, <2>4
<1>3. ~ damaged =>
        \/ \A n \in Name : acked[s][n] <= cached.ops[n].edit
        \/ /\ cached.ops = NoOps
           /\ cached.foreign \/ \E d \in Client : req[d].pc \in Saving /\ req[d].start = s
  BY FileDefinitions DEF OpsInv, CacheIsCurrent
<1>4. /\ opsCache' \in [Server -> {Nothing} \cup [ops : [Name -> Op], foreign : BOOLEAN]]
      /\ opsCache'[s] = cached /\ \A r \in Server \ {s} : opsCache'[r] = opsCache[r]
  BY <1>1, <1>2
<1>5. ~ (s > current)
  BY <1>1
<1> QED BY <1>1, <1>2, <1>3, <1>4, <1>5 DEF DefinitionsMove, OpsInv, CacheIsCurrent

\* Kept by the arrival of a read.
LEMMA BeginReadKeeps ==
    ASSUME OpsInv, NEW c \in Client, NEW s \in Server, s <= current, NEW n \in Name,
           BeginRead(c, s, n), current' = current
    PROVE  OpsInv'
<1> DEFINE rec == [Free EXCEPT !.pc = "lookup", !.start = s, !.name = n,
                     !.since = acked[s][BatchOf[n]], !.sinceAt = ackedAt[s][BatchOf[n]],
                     !.from = clears[s]]
<1>1. acked[s][BatchOf[n]] \in Nat /\ ackedAt[s][BatchOf[n]] \in Nat /\ clears[s] \in Nat
  BY DEF OpsInv, OpsTypes
<1>2. /\ rec \in Request /\ rec.pc = "lookup" /\ rec.start = s /\ rec.name = n
      /\ rec.since = acked[s][BatchOf[n]] /\ rec.sinceAt = ackedAt[s][BatchOf[n]]
      /\ rec.from = clears[s]
  BY <1>1, FreeIsRequest DEF Request
<1>3. /\ Moves(c, rec) /\ req[c].pc = "free"
      /\ UNCHANGED <<opsFile, opsCache, responses, edits, acked, ackedAt, clears, damaged>>
  BY DEF BeginRead
<1>4. acked[s][BatchOf[n]] <= acked[s][BatchOf[n]] /\ ackedAt[s][BatchOf[n]] <= clears[s]
      /\ clears[s] <= clears[s]
  BY <1>1 DEF OpsInv, HistoryOrder
<1> HIDE DEF rec
<1>5. ReadMoves(c, rec)
  BY <1>2, <1>3, <1>4 DEF ReadMoves, Reading, Editing
<1> QED BY <1>3, <1>5, ReadKeeps, ResponsesStay, DefinitionsStay

\* The histories are numbers.
LEMMA Numbers ==
    ASSUME OpsInv, NEW s \in Server
    PROVE  /\ \A n \in Name : acked[s][n] \in Nat /\ ackedAt[s][n] \in Nat
           /\ clears[s] \in Nat /\ current \in Nat /\ s \in Nat
           /\ s <= current => ~ (s > current)
<1>1. \A n \in Name : acked[s][n] \in Nat /\ ackedAt[s][n] \in Nat
  BY DEF OpsInv, OpsTypes
<1>2. clears[s] \in Nat /\ current \in Nat /\ s \in Nat
  BY DEF OpsInv, OpsTypes, RequestsPlaced
<1>3. s <= current => ~ (s > current)
  BY <1>2
<1> QED BY <1>1, <1>2, <1>3

\* A request that has looked up its operation is a request.
LEMMA LookedUp ==
    ASSUME NEW r \in Request, NEW o \in Op, NEW b \in Nat, NEW x \in BOOLEAN,
           NEW next \in {"probe", "answered"}
    PROVE  [r EXCEPT !.op = o, !.born = b, !.raced = x, !.pc = next] \in Request
<1>1. [r EXCEPT !.op = o, !.born = b] \in Request
  BY DEF Request
<1>2. ASSUME NEW q \in Request PROVE [q EXCEPT !.raced = x] \in Request
  BY DEF Request
<1>3. ASSUME NEW q \in Request PROVE [q EXCEPT !.pc = next] \in Request
  BY DEF Request
<1>4. [[[r EXCEPT !.op = o, !.born = b] EXCEPT !.raced = x] EXCEPT !.pc = next] \in Request
  BY <1>1, <1>2, <1>3
<1> QED BY <1>4

\* Kept by the lookup of the operation, in the cached definitions or the file.
LEMMA LookupKeeps ==
    ASSUME OpsInv, NEW c \in Client, Lookup(c), current' = current PROVE OpsInv'
<1> DEFINE s == req[c].start
           n == BatchOf[req[c].name]
<1>1. PICK expired \in BOOLEAN : LookupOps(c, expired)
  BY DEF Lookup
<1> DEFINE cached == IF expired \/ opsCache[s] = Nothing THEN FromFile(s) ELSE opsCache[s]
           race == cached.foreign \/ In(Saving) # {}
           to == IF cached.ops[req[c].name].there THEN "probe" ELSE "answered"
           found == cached.ops[n]
           at == clears[s]
           rec == [req[c] EXCEPT !.op = found, !.born = at, !.raced = race, !.pc = to]
<1>2. /\ opsCache' = [opsCache EXCEPT ![s] = cached] /\ Moves(c, rec) /\ req[c].pc = "lookup"
      /\ UNCHANGED <<opsFile, responses, edits, acked, ackedAt, clears, damaged>>
  BY <1>1 DEF Lookup, LookupOps
<1>3. /\ req[c] \in Request /\ s \in Server /\ s <= current /\ req[c].name \in Name
      /\ n \in Name /\ clears[s] \in Nat
  BY <1>2 DEF OpsInv, OpsTypes, RequestsPlaced, Reading
<1>4. cached = FromFile(s) \/ (cached = opsCache[s] /\ opsCache[s] # Nothing)
  OBVIOUS
<1> HIDE DEF cached
<1>5. /\ DefinitionsMove
      /\ cached \in [ops : [Name -> Op], foreign : BOOLEAN]
      /\ ~ damaged =>
           \/ \A m \in Name : acked[s][m] <= cached.ops[m].edit
           \/ /\ cached.ops = NoOps
              /\ cached.foreign \/ \E d \in Client : req[d].pc \in Saving
  BY <1>2, <1>3, <1>4, DefinitionsLoaded
<1>6. /\ rec \in Request /\ rec.pc \in {"probe", "answered"}
      /\ rec.start = s /\ rec.name = req[c].name
      /\ rec.since = req[c].since /\ rec.sinceAt = req[c].sinceAt /\ rec.from = req[c].from
      /\ rec.op = cached.ops[n] /\ rec.born = clears[s]
      /\ rec.raced = (cached.foreign \/ In(Saving) # {})
  <2>1. /\ found \in Op /\ race \in BOOLEAN /\ to \in {"probe", "answered"} /\ at \in Nat
        /\ race = (cached.foreign \/ In(Saving) # {}) /\ found = cached.ops[n] /\ at = clears[s]
    BY <1>3, <1>5
  <2> HIDE DEF race, to, found, at
  <2>2. rec \in Request
    BY <1>3, <2>1, LookedUp
  <2>3. /\ rec.pc = to /\ rec.start = s /\ rec.name = req[c].name
        /\ rec.since = req[c].since /\ rec.sinceAt = req[c].sinceAt /\ rec.from = req[c].from
        /\ rec.op = found /\ rec.born = at /\ rec.raced = race
    BY <1>3 DEF Request
  <2> QED BY <2>1, <2>2, <2>3
<1> HIDE DEF rec, race, to, found, at
<1>7. /\ rec.since <= acked[s][n] /\ rec.sinceAt <= rec.from /\ rec.from <= clears[s]
      /\ clears[s] <= clears[s]
  BY <1>2, <1>3, <1>6 DEF OpsInv, RequestOrder, About, Reading
<1>8. /\ rec.since \in Nat /\ acked[s][n] \in Nat /\ rec.op.edit \in Nat
  <2>1. rec.op \in Op /\ rec.since \in Nat
    BY <1>6 DEF Request
  <2>2. acked[s][n] \in Nat
    BY <1>3, Numbers
  <2> QED BY <2>1, <2>2 DEF Op
<1>9. ~ damaged => acked[s][n] <= rec.op.edit \/ (rec.raced /\ rec.op = Missing /\ ~ rec.op.there)
  <2>1. CASE acked[s][n] <= cached.ops[n].edit
    BY <1>6, <2>1
  <2>2. CASE cached.ops = NoOps /\ (cached.foreign \/ \E d \in Client : req[d].pc \in Saving)
    <3>1. cached.ops[n] = Missing /\ ~ Missing.there
      BY <1>3, <2>2 DEF NoOps, Missing
    <3>2. cached.foreign \/ In(Saving) # {}
      BY <2>2 DEF In
    <3> QED BY <1>6, <3>1, <3>2
  <2> QED BY <1>3, <1>5, <2>1, <2>2
<1>10. ~ damaged => rec.since <= rec.op.edit \/ (rec.raced /\ rec.op = Missing)
  BY <1>7, <1>8, <1>9
<1>11. rec.op.edit < rec.since => ~ (rec.since <= rec.op.edit)
  BY <1>8
<1>12. ReadMoves(c, rec)
  BY <1>2, <1>3, <1>6, <1>7, <1>9, <1>10, <1>11 DEF ReadMoves, Reading, Editing
<1> QED BY <1>2, <1>5, <1>12, ReadKeeps, ResponsesStay

\* Kept by a hit in the response cache.
LEMMA ProbeHitsKeeps ==
    ASSUME OpsInv, NEW c \in Client, ProbeHits(c), current' = current PROVE OpsInv'
<1> DEFINE s == req[c].start
           n == BatchOf[req[c].name]
<1>1. PICK i \in EntriesOf(s, req[c].name) :
        LET e == responses[s][i]
        IN  Moves(c, [req[c] EXCEPT !.pc = "answered", !.hit = TRUE, !.op = e.op,
                        !.born = e.born, !.put = e.put])
  BY DEF ProbeHits
<1> DEFINE e == responses[s][i]
           rec == [req[c] EXCEPT !.pc = "answered", !.hit = TRUE, !.op = e.op, !.born = e.born,
                     !.put = e.put]
<1>2. /\ Moves(c, rec) /\ req[c].pc = "probe"
      /\ UNCHANGED <<opsFile, opsCache, responses, edits, acked, ackedAt, clears, damaged>>
  BY <1>1 DEF ProbeHits
<1>3. /\ req[c] \in Request /\ s \in Server /\ s <= current /\ req[c].name \in Name
      /\ responses[s] \in Seq(Entry) /\ clears[s] \in Nat
  BY <1>2 DEF OpsInv, OpsTypes, RequestsPlaced, Reading
<1>4. i \in 1 .. Len(responses[s]) /\ e.name = req[c].name /\ e \in Entries(s)
  BY DEF EntriesOf, Entries, Elems
<1>5. e \in Entry
  BY <1>3, <1>4
<1> HIDE DEF e
<1>6. /\ rec \in Request /\ rec.pc = "answered" /\ rec.hit /\ rec.op = e.op /\ rec.born = e.born
      /\ rec.put = e.put /\ rec.start = s /\ rec.name = req[c].name
      /\ rec.since = req[c].since /\ rec.sinceAt = req[c].sinceAt /\ rec.from = req[c].from
  BY <1>3, <1>5 DEF Request, Entry
<1>7. e.put = clears[s] /\ e.born <= e.put
  BY <1>3, <1>4 DEF OpsInv, HistoryOrder
<1>8. rec.sinceAt <= rec.from /\ rec.from <= clears[s]
  BY <1>2, <1>3, <1>6 DEF OpsInv, RequestOrder, About, Reading
<1>9. /\ rec.since \in Nat /\ rec.op.edit \in Nat /\ rec.born \in Nat /\ rec.put \in Nat
      /\ rec.sinceAt \in Nat /\ rec.from \in Nat
  BY <1>6 DEF Request, Op
<1>10. ASSUME ~ damaged, e.born > rec.sinceAt PROVE e.op.edit >= rec.since
  BY <1>2, <1>3, <1>4, <1>6, <1>10 DEF OpsInv, ReadsWillSee, LaterLookups, About
<1>11. ASSUME ~ damaged, rec.op.edit < rec.since, rec.from # rec.sinceAt PROVE rec.born < rec.put
  <2>1. ~ (e.born > rec.sinceAt)
    BY <1>6, <1>9, <1>10, <1>11
  <2> QED BY <1>3, <1>6, <1>7, <1>8, <1>9, <1>11, <2>1
<1> HIDE DEF rec
<1>12. ReadMoves(c, rec)
  BY <1>2, <1>3, <1>6, <1>11 DEF ReadMoves, Reading, Editing
<1> QED BY <1>2, <1>12, ReadKeeps, ResponsesStay, DefinitionsStay

\* The operation that a load from the file gives is current, or missing while the
\* file is being saved.
LEMMA LoadedOperation ==
    ASSUME OpsInv, NEW s \in Server, NEW n \in Name
    PROVE  /\ FromFile(s).ops[n] \in Op
           /\ ~ damaged => \/ acked[s][n] <= FromFile(s).ops[n].edit
                           \/ /\ In(Saving) # {}
                              /\ FromFile(s).ops[n] = Missing /\ ~ FromFile(s).ops[n].there
<1>1. FromFile(s).ops[n] \in Op
  BY FileDefinitions
<1>2. ASSUME FromFile(s).ops = NoOps PROVE FromFile(s).ops[n] = Missing /\ ~ FromFile(s).ops[n].there
  BY <1>2 DEF NoOps, Missing
<1>3. ASSUME \E d \in Client : req[d].pc \in Saving PROVE In(Saving) # {}
  BY <1>3 DEF In
<1> QED BY <1>1, <1>2, <1>3, FileDefinitions

\* Kept by a miss, after which a batch loads the definitions anew.
LEMMA ProbeMissesKeeps ==
    ASSUME OpsInv, NEW c \in Client, ProbeMisses(c), current' = current PROVE OpsInv'
<1> DEFINE s == req[c].start
           n == BatchOf[req[c].name]
<1>1. /\ req[c].pc = "probe" /\ responses' = [responses EXCEPT ![s] = Without(@, req[c].name)]
      /\ UNCHANGED <<opsFile, edits, acked, ackedAt, clears, damaged>>
  BY DEF ProbeMisses
<1>2. /\ req[c] \in Request /\ s \in Server /\ s <= current /\ req[c].name \in Name /\ n \in Name
      /\ responses \in [Server -> Seq(Entry)] /\ clears[s] \in Nat
  BY <1>1 DEF OpsInv, OpsTypes, RequestsPlaced, Reading
<1>3. ResponsesMove(c)
  <2>1. Without(responses[s], req[c].name) \in Seq(Entry)
        /\ Elems(Without(responses[s], req[c].name)) \subseteq Elems(responses[s])
    BY <1>2, WithoutElems
  <2>2. /\ responses' \in [Server -> Seq(Entry)]
        /\ responses'[s] = Without(responses[s], req[c].name)
        /\ \A r \in Server \ {s} : responses'[r] = responses[r]
    BY <1>1, <1>2, <2>1
  <2>3. \A r \in Server : Elems(responses'[r]) \subseteq Elems(responses[r])
    BY <2>1, <2>2
  <2>4. ~ (s > current)
    BY <1>2, Numbers
  <2> QED BY <2>2, <2>3, <2>4 DEF ResponsesMove, Entries, OpsInv, RequestsPlaced
<1>4. /\ req[c].since <= acked[s][n] /\ req[c].sinceAt <= req[c].from /\ req[c].from <= clears[s]
      /\ req[c].born <= clears[s] /\ clears[s] <= clears[s]
  BY <1>1, <1>2 DEF OpsInv, RequestOrder, About, Reading
<1>5. CASE n # req[c].name
  <2> DEFINE loaded == FromFile(s)
             rec == [req[c] EXCEPT !.pc = "compute", !.op = loaded.ops[n], !.born = clears[s],
                       !.raced = In(Saving) # {}]
  <2>1. opsCache' = [opsCache EXCEPT ![s] = loaded] /\ Moves(c, rec)
    BY <1>5 DEF ProbeMisses
  <2>2. DefinitionsMove
    BY <1>2, <2>1, DefinitionsLoaded
  <2>3. /\ loaded.ops[n] \in Op
        /\ ~ damaged => \/ acked[s][n] <= loaded.ops[n].edit
                        \/ In(Saving) # {} /\ loaded.ops[n] = Missing /\ ~ loaded.ops[n].there
    BY <1>2, LoadedOperation
  <2> HIDE DEF loaded
  <2>4. /\ rec \in Request /\ rec.pc = "compute" /\ rec.op = loaded.ops[n] /\ rec.born = clears[s]
        /\ rec.raced = (In(Saving) # {}) /\ rec.start = s /\ rec.name = req[c].name
        /\ rec.since = req[c].since /\ rec.sinceAt = req[c].sinceAt /\ rec.from = req[c].from
    BY <1>2, <2>3 DEF Request
  <2> HIDE DEF rec
  <2>5. rec.since \in Nat /\ acked[s][n] \in Nat /\ rec.op.edit \in Nat
    <3>1. rec.op \in Op /\ rec.since \in Nat
      BY <2>4 DEF Request
    <3>2. acked[s][n] \in Nat
      BY <1>2, Numbers
    <3> QED BY <3>1, <3>2 DEF Op
  <2>6. ~ damaged => rec.since <= rec.op.edit \/ (rec.raced /\ rec.op = Missing)
    <3>1. rec.since <= acked[s][n]
      BY <1>4, <2>4
    <3>2. \A i, j, k \in Nat : i <= j /\ j <= k => i <= k
      OBVIOUS
    <3>3. acked[s][n] <= rec.op.edit => rec.since <= rec.op.edit
      BY <2>5, <3>1, <3>2
    <3> QED BY <2>3, <2>4, <3>3
  <2>7. ReadMoves(c, rec)
    BY <1>1, <1>2, <1>4, <2>1, <2>3, <2>4, <2>6 DEF ReadMoves, Reading, Editing
  <2> QED BY <1>1, <1>3, <2>2, <2>7, ReadKeeps
<1>6. CASE n = req[c].name
  <2> DEFINE rec == [req[c] EXCEPT !.pc = "compute"]
  <2>1. opsCache' = opsCache /\ Moves(c, rec)
    BY <1>6 DEF ProbeMisses
  <2>2. /\ rec \in Request /\ rec.pc = "compute" /\ rec.op = req[c].op /\ rec.born = req[c].born
        /\ rec.raced = req[c].raced /\ rec.start = s /\ rec.name = req[c].name
        /\ rec.since = req[c].since /\ rec.sinceAt = req[c].sinceAt /\ rec.from = req[c].from
    BY <1>2 DEF Request
  <2> HIDE DEF rec
  <2>3. ~ damaged => rec.since <= rec.op.edit \/ (rec.raced /\ rec.op = Missing)
    BY <1>1, <2>2 DEF OpsInv, LookupIsCurrent
  <2>4. ReadMoves(c, rec)
    BY <1>1, <1>2, <1>4, <2>1, <2>2, <2>3 DEF ReadMoves, Reading, Editing
  <2> QED BY <1>1, <1>3, <2>1, <2>4, ReadKeeps, DefinitionsStay
<1> QED BY <1>5, <1>6

\* Kept by the end of the computation, which stores what it has computed.
LEMMA ComputedKeeps ==
    ASSUME OpsInv, NEW c \in Client, Computed(c), current' = current PROVE OpsInv'
<1> DEFINE s == req[c].start
           entry == [name |-> req[c].name, op |-> req[c].op, born |-> req[c].born, put |-> clears[s]]
           rec == [req[c] EXCEPT !.pc = "answered"]
<1>1. /\ req[c].pc = "compute" /\ req[c].op.there /\ Moves(c, rec)
      /\ responses' = [responses EXCEPT ![s] = IF req[c].name \in Cacheable THEN Stored(@, entry) ELSE @]
      /\ UNCHANGED <<opsFile, opsCache, edits, acked, ackedAt, clears, damaged>>
  BY DEF Computed
<1>2. /\ req[c] \in Request /\ s \in Server /\ s <= current /\ req[c].name \in Name
      /\ responses \in [Server -> Seq(Entry)] /\ clears[s] \in Nat
  BY <1>1 DEF OpsInv, OpsTypes, RequestsPlaced, Reading
<1>3. /\ entry \in Entry /\ entry.name = req[c].name /\ entry.op = req[c].op
      /\ entry.born = req[c].born /\ entry.put = clears[s]
  BY <1>2 DEF Entry, Request
<1> HIDE DEF entry
<1>4. ResponsesMove(c)
  <2>1. Stored(responses[s], entry) \in Seq(Entry)
        /\ Elems(Stored(responses[s], entry)) \subseteq Elems(responses[s]) \cup {entry}
    BY <1>2, <1>3, StoredElems
  <2>2. /\ responses' \in [Server -> Seq(Entry)]
        /\ responses'[s] \in {responses[s], Stored(responses[s], entry)}
        /\ \A r \in Server \ {s} : responses'[r] = responses[r]
    BY <1>1, <1>2, <2>1
  <2>3. \A r \in Server : \A e \in Elems(responses'[r]) :
          e \in Elems(responses[r]) \/ (r = s /\ e = entry)
    BY <2>1, <2>2
  <2>4. ~ (s > current)
    BY <1>2, Numbers
  <2> QED BY <1>1, <1>3, <2>2, <2>3, <2>4 DEF ResponsesMove, Entries, OpsInv, RequestsPlaced, About
<1>5. /\ rec \in Request /\ rec.pc = "answered" /\ rec.op = req[c].op
      /\ rec.raced = req[c].raced /\ rec.start = s /\ rec.name = req[c].name
      /\ rec.since = req[c].since
  BY <1>2 DEF Request
<1> HIDE DEF rec
<1>6. ~ damaged => rec.since <= rec.op.edit \/ (rec.raced /\ rec.op = Missing)
  BY <1>1, <1>5 DEF OpsInv, LookupIsCurrent
<1>7. rec.op.edit < rec.since => ~ (rec.since <= rec.op.edit)
  <2>1. rec.op \in Op /\ rec.since \in Nat
    BY <1>5 DEF Request
  <2> QED BY <2>1 DEF Op
<1>8. ReadMoves(c, rec)
  BY <1>1, <1>2, <1>5, <1>6, <1>7 DEF ReadMoves, Reading, Editing
<1> QED BY <1>1, <1>4, <1>8, ReadKeeps, DefinitionsStay

\* An edit leaves the reads and the responses alone.
LEMMA EditsLeaveReads ==
    ASSUME OpsInv, NEW c \in Client, NEW rec \in Request, Moves(c, rec), req[c].pc \notin Reading,
           rec.pc \in Editing \cup {"free"}, UNCHANGED <<responses, clears>>,
           \A s \in Server, n \in Name : acked[s][n] <= acked'[s][n] /\ acked'[s][n] \in Nat
    PROVE  /\ req' \in [Client -> Request] /\ req'[c] = rec
           /\ \A d \in Client \ {c} : req'[d] = req[d]
           /\ \A d \in Client : req'[d].pc \in Reading =>
                /\ req'[d].since <= acked'[req'[d].start][BatchOf[req'[d].name]]
                /\ req'[d].sinceAt <= req'[d].from /\ req'[d].from <= clears'[req'[d].start]
           /\ \A d \in Client : req'[d].pc \in {"probe", "compute"} => req'[d].born <= clears'[req'[d].start]
           /\ ~ damaged => LookupIsCurrent' /\ ReadsWillSee' /\ EditsTakeEffect'
           /\ ~ damaged /\ acked' = acked /\ ackedAt' = ackedAt => AckedAreSeen'
<1>1. req \in [Client -> Request]
  BY DEF OpsInv, OpsTypes
<1>2. /\ req' \in [Client -> Request] /\ req'[c] = rec
      /\ \A d \in Client \ {c} : req'[d] = req[d]
  BY <1>1 DEF Moves
<1>3. \A d \in Client : req'[d].pc \in Reading \cup {"answered"} => req'[d] = req[d]
  BY <1>2 DEF Reading, Editing
<1>4. \A s \in Server : Entries(s)' = Entries(s)
  BY DEF Entries, Elems
<1> USE DEF OpsInv
<1>5. ASSUME NEW d \in Client, req'[d].pc \in Reading
      PROVE  req'[d].since <= acked'[req'[d].start][BatchOf[req'[d].name]]
  <2> DEFINE s == req[d].start
             n == BatchOf[req[d].name]
  <2>1. req'[d] = req[d] /\ req[d].pc \in Reading
    BY <1>3, <1>5
  <2>2. s \in Server /\ n \in Name /\ req[d].since <= acked[s][n] /\ req[d] \in Request
    BY <1>1, <2>1 DEF RequestsPlaced, RequestOrder, About, Reading
  <2>3. req[d].since \in Nat
    BY <2>2 DEF Request
  <2>4. acked[s][n] \in Nat /\ acked[s][n] <= acked'[s][n] /\ acked'[s][n] \in Nat
    BY <2>2, Numbers
  <2>5. \A i, j, k \in Nat : i <= j /\ j <= k => i <= k
    OBVIOUS
  <2> QED BY <2>1, <2>2, <2>3, <2>4, <2>5
<1>6. ASSUME NEW d \in Client, req'[d].pc \in Reading
      PROVE  req'[d].sinceAt <= req'[d].from /\ req'[d].from <= clears'[req'[d].start]
  BY <1>3, <1>6 DEF RequestOrder
<1>7. \A d \in Client : req'[d].pc \in {"probe", "compute"} => req'[d].born <= clears'[req'[d].start]
  BY <1>3 DEF RequestOrder, Reading
<1>8. ASSUME ~ damaged PROVE LookupIsCurrent' /\ EditsTakeEffect'
  BY <1>3, <1>8 DEF LookupIsCurrent, EditsTakeEffect, Reading
<1>9. ASSUME NEW s \in Server, NEW n, NEW at, NEW edit, LaterLookups(s, n, at, edit)
      PROVE  LaterLookups(s, n, at, edit)'
  BY <1>3, <1>4, <1>9 DEF LaterLookups, About, Reading
<1>10. ASSUME ~ damaged PROVE ReadsWillSee'
  BY <1>3, <1>9, <1>10 DEF ReadsWillSee, RequestsPlaced, Reading, About
<1>11. ASSUME ~ damaged, acked' = acked, ackedAt' = ackedAt PROVE AckedAreSeen'
  BY <1>9, <1>11 DEF AckedAreSeen
<1> QED BY <1>2, <1>5, <1>6, <1>7, <1>8, <1>10, <1>11

\* Kept by the arrival of an edit: unless another has loaded the file, it is whole
\* and no edit is newer.
LEMMA BeginEditKeeps ==
    ASSUME OpsInv, NEW c \in Client, NEW s \in Server, s <= current, NEW n \in Name,
           NEW there \in BOOLEAN, BeginEdit(c, s, n, there), current' = current
    PROVE  OpsInv'
<1> DEFINE new == [edit |-> edits + 1, there |-> there]
           ops == [LoadedOps EXCEPT ![n] = new]
           rec == [Free EXCEPT !.pc = "truncate", !.start = s, !.name = n, !.ops = ops]
<1>1. /\ req[c].pc = "free" /\ edits' = edits + 1 /\ Moves(c, rec)
      /\ damaged' = (damaged \/ In(Loaded) # {})
      /\ UNCHANGED <<opsFile, opsCache, responses, acked, ackedAt, clears>>
  BY DEF BeginEdit
<1>2. /\ LoadedOps \in [Name -> Op] /\ edits \in Nat
      /\ \A m \in Name : LoadedOps[m].edit <= edits
      /\ \A m \in Name : opsFile.ops[m].edit <= edits /\ opsFile.ops[m].edit \in Nat
  <2>1. opsFile.ops \in [Name -> Op] /\ edits \in Nat /\ \A m \in Name : opsFile.ops[m].edit <= edits
    BY DEF OpsInv, OpsTypes, HistoryOrder
  <2>2. \A m \in Name : NoOps[m].edit = 0
    BY DEF NoOps, Missing
  <2> QED BY <2>1, <2>2, FreeIsRequest DEF LoadedOps, Op
<1>3. new \in Op /\ new.edit = edits + 1
  BY <1>2 DEF Op
<1> HIDE DEF new
<1>4. /\ ops \in [Name -> Op] /\ ops[n] = new /\ \A m \in Name \ {n} : ops[m] = LoadedOps[m]
  BY <1>2, <1>3
<1> HIDE DEF ops
<1>5. /\ rec \in Request /\ rec.pc = "truncate" /\ rec.start = s /\ rec.name = n /\ rec.ops = ops
  BY <1>4, FreeIsRequest DEF Request
<1> HIDE DEF rec
<1>6. /\ req' \in [Client -> Request] /\ req'[c] = rec
      /\ \A d \in Client \ {c} : req'[d] = req[d]
      /\ \A d \in Client : req'[d].pc \in Reading =>
           /\ req'[d].since <= acked'[req'[d].start][BatchOf[req'[d].name]]
           /\ req'[d].sinceAt <= req'[d].from /\ req'[d].from <= clears'[req'[d].start]
      /\ \A d \in Client : req'[d].pc \in {"probe", "compute"} => req'[d].born <= clears'[req'[d].start]
      /\ ~ damaged => LookupIsCurrent' /\ ReadsWillSee' /\ EditsTakeEffect'
      /\ ~ damaged => AckedAreSeen'
  <2>1. \A r \in Server, m \in Name : acked[r][m] <= acked'[r][m] /\ acked'[r][m] \in Nat
    BY <1>1, Numbers
  <2>2. req[c].pc \notin Reading
    BY <1>1 DEF Reading
  <2>3. rec.pc \in Editing \cup {"free"}
    BY <1>5 DEF Editing
  <2> QED BY <1>1, <1>5, <2>1, <2>2, <2>3, EditsLeaveReads
<1> USE DEF OpsInv
<1>7. OpsTypes'
  BY <1>1, <1>2, <1>6 DEF OpsTypes
<1>8. RequestsPlaced'
  BY <1>1, <1>5, <1>6 DEF RequestsPlaced
<1>9. HistoryOrder'
  <2>1. \A m \in Nat : m <= edits => m <= edits'
    BY <1>1, <1>2
  <2>2. \A r \in Server, m \in Name : acked[r][m] \in Nat
    BY Numbers
  <2> QED BY <1>1, <1>2, <2>1, <2>2 DEF HistoryOrder, Entries, Elems
<1>10. RequestOrder'
  <2>1. \A d \in Client : req'[d].pc \in Editing => \A m \in Name : req'[d].ops[m].edit <= edits'
    <3>1. \A m \in Name : ops[m].edit <= edits'
      BY <1>1, <1>2, <1>3, <1>4 DEF Op
    <3>2. ASSUME NEW d \in Client \ {c}, req[d].pc \in Editing, NEW m \in Name
          PROVE  req[d].ops[m].edit <= edits'
      <4>1. req[d].ops[m].edit <= edits
        BY <3>2 DEF RequestOrder
      <4>2. req[d].ops[m].edit \in Nat
        <5>1. req[d] \in Request
          BY <1>2 DEF OpsTypes
        <5>2. req[d].ops[m] \in Op
          BY <5>1 DEF Request
        <5> QED BY <5>2 DEF Op
      <4> QED BY <1>1, <1>2, <4>1, <4>2
    <3> QED BY <1>5, <1>6, <3>1, <3>2
  <2> QED BY <1>6, <2>1 DEF RequestOrder, About
<1>11. ASSUME ~ damaged' PROVE FileIsCurrent'
  <2>1. ~ damaged /\ \A d \in Client : req[d].pc \notin Loaded
    BY <1>1, <1>11 DEF In
  <2>2. ~ opsFile.torn /\ LoadedOps = opsFile.ops
    BY <2>1 DEF FileIsCurrent, Loaded, LoadedOps
  <2>3. \A m \in Name : opsFile.ops[m].edit <= ops[m].edit
    BY <1>2, <1>3, <1>4, <2>2
  <2> QED BY <1>1, <1>5, <1>6, <2>1, <2>2, <2>3 DEF FileIsCurrent, Loaded
<1>12. ASSUME ~ damaged' PROVE CacheIsCurrent'
  <2>1. \A d \in Client : req[d].pc \in Saving => req'[d] = req[d]
    BY <1>1, <1>6 DEF Saving
  <2>2. ~ damaged /\ CacheIsCurrent /\ opsCache' = opsCache /\ acked' = acked
    BY <1>1, <1>12
  <2> HIDE DEF OpsInv
  <2> QED BY <2>1, <2>2 DEF CacheIsCurrent
<1> QED BY <1>1, <1>6, <1>7, <1>8, <1>9, <1>10, <1>11, <1>12

\* Kept by the first half of a save, which empties the file.
LEMMA SaveTruncatesKeeps ==
    ASSUME OpsInv, NEW c \in Client, SaveTruncates(c), current' = current PROVE OpsInv'
<1> DEFINE rec == [req[c] EXCEPT !.pc = "write"]
<1>1. /\ req[c].pc = "truncate" /\ Moves(c, rec) /\ opsFile' = [opsFile EXCEPT !.torn = TRUE]
      /\ UNCHANGED <<opsCache, responses, edits, acked, ackedAt, clears, damaged>>
  BY DEF SaveTruncates
<1>2. req[c] \in Request /\ opsFile \in [torn : BOOLEAN, ops : [Name -> Op]]
  BY DEF OpsInv, OpsTypes
<1>3. /\ rec \in Request /\ rec.pc = "write" /\ rec.start = req[c].start /\ rec.name = req[c].name
      /\ rec.ops = req[c].ops
  BY <1>2 DEF Request
<1>4. opsFile' \in [torn : BOOLEAN, ops : [Name -> Op]] /\ opsFile'.ops = opsFile.ops
  BY <1>1, <1>2
<1> HIDE DEF rec
<1>5. /\ req' \in [Client -> Request] /\ req'[c] = rec
      /\ \A d \in Client \ {c} : req'[d] = req[d]
      /\ \A d \in Client : req'[d].pc \in Reading =>
           /\ req'[d].since <= acked'[req'[d].start][BatchOf[req'[d].name]]
           /\ req'[d].sinceAt <= req'[d].from /\ req'[d].from <= clears'[req'[d].start]
      /\ \A d \in Client : req'[d].pc \in {"probe", "compute"} => req'[d].born <= clears'[req'[d].start]
      /\ ~ damaged => LookupIsCurrent' /\ ReadsWillSee' /\ EditsTakeEffect'
      /\ ~ damaged => AckedAreSeen'
  <2>1. \A r \in Server, m \in Name : acked[r][m] <= acked'[r][m] /\ acked'[r][m] \in Nat
    BY <1>1, Numbers
  <2>2. req[c].pc \notin Reading
    BY <1>1 DEF Reading
  <2>3. rec.pc \in Editing \cup {"free"}
    BY <1>3 DEF Editing
  <2> QED BY <1>1, <1>3, <2>1, <2>2, <2>3, EditsLeaveReads
<1> USE DEF OpsInv
<1>6. OpsTypes'
  BY <1>1, <1>4, <1>5 DEF OpsTypes
<1>7. RequestsPlaced'
  BY <1>1, <1>3, <1>5 DEF RequestsPlaced, Editing
<1>8. HistoryOrder'
  BY <1>1, <1>4 DEF HistoryOrder, Entries, Elems
<1>9. RequestOrder'
  <2>1. \A d \in Client : req'[d].pc \in Editing => \A m \in Name : req'[d].ops[m].edit <= edits'
    BY <1>1, <1>3, <1>5 DEF RequestOrder, Editing
  <2> QED BY <1>5, <2>1 DEF RequestOrder, About
<1>10. ASSUME ~ damaged PROVE FileIsCurrent'
  BY <1>1, <1>3, <1>4, <1>5, <1>10 DEF FileIsCurrent, Loaded
<1>11. ASSUME ~ damaged PROVE CacheIsCurrent'
  <2>1. \A d \in Client : req[d].pc \in Saving => req'[d] = req[d]
    BY <1>1, <1>5 DEF Saving
  <2> QED BY <1>1, <1>11, <2>1 DEF CacheIsCurrent
<1> QED BY <1>1, <1>5, <1>6, <1>7, <1>8, <1>9, <1>10, <1>11

\* Kept by the other half, which writes what the edit had loaded and changed.
LEMMA SaveWritesKeeps ==
    ASSUME OpsInv, NEW c \in Client, SaveWrites(c), current' = current PROVE OpsInv'
<1> DEFINE rec == [req[c] EXCEPT !.pc = "invalidate"]
<1>1. /\ req[c].pc = "write" /\ Moves(c, rec)
      /\ UNCHANGED <<opsCache, responses, edits, acked, ackedAt, clears, damaged>>
  BY DEF SaveWrites
<1>2. PICK torn \in IF In({"write"}) = {c} THEN {FALSE} ELSE BOOLEAN :
        opsFile' = [torn |-> torn, ops |-> req[c].ops]
  BY DEF SaveWrites
<1>3. req[c] \in Request /\ req[c].ops \in [Name -> Op] /\ torn \in BOOLEAN
  BY DEF OpsInv, OpsTypes, Request
<1>4. /\ rec \in Request /\ rec.pc = "invalidate" /\ rec.start = req[c].start
      /\ rec.name = req[c].name /\ rec.ops = req[c].ops
  BY <1>3 DEF Request
<1>5. /\ opsFile' \in [torn : BOOLEAN, ops : [Name -> Op]] /\ opsFile'.ops = req[c].ops
      /\ opsFile'.torn = torn
  BY <1>2, <1>3
<1> HIDE DEF rec
<1>6. /\ req' \in [Client -> Request] /\ req'[c] = rec
      /\ \A d \in Client \ {c} : req'[d] = req[d]
      /\ \A d \in Client : req'[d].pc \in Reading =>
           /\ req'[d].since <= acked'[req'[d].start][BatchOf[req'[d].name]]
           /\ req'[d].sinceAt <= req'[d].from /\ req'[d].from <= clears'[req'[d].start]
      /\ \A d \in Client : req'[d].pc \in {"probe", "compute"} => req'[d].born <= clears'[req'[d].start]
      /\ ~ damaged => LookupIsCurrent' /\ ReadsWillSee' /\ EditsTakeEffect'
      /\ ~ damaged => AckedAreSeen'
  <2>1. \A r \in Server, m \in Name : acked[r][m] <= acked'[r][m] /\ acked'[r][m] \in Nat
    BY <1>1, Numbers
  <2>2. req[c].pc \notin Reading
    BY <1>1 DEF Reading
  <2>3. rec.pc \in Editing \cup {"free"}
    BY <1>4 DEF Editing
  <2> QED BY <1>1, <1>4, <2>1, <2>2, <2>3, EditsLeaveReads
<1> USE DEF OpsInv
<1>7. OpsTypes'
  BY <1>1, <1>5, <1>6 DEF OpsTypes
<1>8. RequestsPlaced'
  BY <1>1, <1>4, <1>6 DEF RequestsPlaced, Editing
<1>9. \A m \in Name : req[c].ops[m].edit <= edits
  BY <1>1 DEF RequestOrder, Editing
<1>10. HistoryOrder'
  BY <1>1, <1>5, <1>9 DEF HistoryOrder, Entries, Elems
<1>11. RequestOrder'
  <2>1. \A d \in Client : req'[d].pc \in Editing => \A m \in Name : req'[d].ops[m].edit <= edits'
    BY <1>1, <1>4, <1>6 DEF RequestOrder, Editing
  <2> QED BY <1>6, <2>1 DEF RequestOrder, About
<1>12. ASSUME ~ damaged PROVE FileIsCurrent'
  <2>1. \A d \in Client : req[d].pc \in Loaded => d = c
    BY <1>1, <1>12 DEF FileIsCurrent, Loaded
  <2>2. opsFile'.torn = FALSE
    BY <1>1, <1>5, <2>1 DEF In, Loaded
  <2>3. \A d \in Client : req'[d].pc \notin Loaded
    BY <1>4, <1>6, <2>1 DEF Loaded
  <2>4. \A m \in Name : /\ opsFile.ops[m].edit <= opsFile'.ops[m].edit
                        /\ opsFile.ops[m].edit \in Nat /\ opsFile'.ops[m].edit \in Nat
    BY <1>1, <1>3, <1>5, <1>12 DEF FileIsCurrent, Loaded, OpsTypes, Op
  <2>5. \A i, j, k \in Nat : i <= j /\ j <= k => i <= k
    OBVIOUS
  <2>6. \A r \in Server, m \in Name : acked[r][m] <= opsFile'.ops[m].edit
    BY <1>12, <2>4, <2>5, Numbers DEF FileIsCurrent
  <2>7. ASSUME NEW d \in Client, req'[d].pc = "invalidate"
        PROVE  req'[d].ops[req'[d].name].edit <= opsFile'.ops[req'[d].name].edit
    <3>1. CASE d = c
      <4>1. req[c].name \in Name
        BY <1>1 DEF RequestsPlaced, Editing
      <4>2. \A i \in Nat : i <= i
        OBVIOUS
      <4> QED BY <1>4, <1>5, <1>6, <2>4, <3>1, <4>1, <4>2
    <3>2. CASE d # c
      <4>1. req'[d] = req[d] /\ req[d] \in Request /\ req[d].name \in Name
        BY <1>6, <2>7, <3>2 DEF OpsTypes, RequestsPlaced, Editing
      <4>2. req[d].ops[req[d].name].edit <= opsFile.ops[req[d].name].edit
        BY <1>12, <2>7, <4>1 DEF FileIsCurrent
      <4>3. req[d].ops[req[d].name].edit \in Nat
        BY <4>1 DEF Request, Op
      <4> QED BY <2>4, <2>5, <4>1, <4>2, <4>3
    <3> QED BY <3>1, <3>2
  <2> QED BY <1>1, <2>2, <2>3, <2>6, <2>7 DEF FileIsCurrent
<1>13. ASSUME ~ damaged PROVE CacheIsCurrent'
  <2>1. \A d \in Client : req[d].pc \in Saving => req'[d].pc \in Saving /\ req'[d].start = req[d].start
    BY <1>1, <1>4, <1>6 DEF Saving
  <2> QED BY <1>1, <1>13, <2>1 DEF CacheIsCurrent
<1> QED BY <1>1, <1>6, <1>7, <1>8, <1>10, <1>11, <1>12, <1>13

\* Kept by the acknowledgement of an edit: the file has it, and no response was
\* cleared since.
LEMMA InvalidateKeeps ==
    ASSUME OpsInv, NEW c \in Client, Invalidate(c), current' = current PROVE OpsInv'
<1> DEFINE s == req[c].start
           n == req[c].name
           edit == req[c].ops[n].edit
           last == IF edit > acked[s][n] THEN edit ELSE acked[s][n]
<1>1. /\ req[c].pc = "invalidate" /\ Moves(c, Free)
      /\ opsCache' = [opsCache EXCEPT ![s] = Nothing]
      /\ acked' = [acked EXCEPT ![s][n] = IF edit > @ THEN edit ELSE @]
      /\ ackedAt' = [ackedAt EXCEPT ![s][n] = clears[s]]
      /\ UNCHANGED <<opsFile, responses, edits, clears, damaged>>
  BY DEF Invalidate, Acknowledge
<1>2. /\ s \in Server /\ n \in Name /\ s <= current /\ req[c] \in Request
  BY <1>1 DEF OpsInv, OpsTypes, RequestsPlaced, Editing
<1>3. edit \in Nat /\ edit <= edits /\ edits \in Nat
  BY <1>1, <1>2 DEF OpsInv, OpsTypes, RequestOrder, Editing, Request, Op
<1> HIDE DEF edit, s, n
<1>4. /\ acked \in [Server -> [Name -> Nat]] /\ ackedAt \in [Server -> [Name -> Nat]]
      /\ clears \in [Server -> Nat]
      /\ opsCache \in [Server -> {Nothing} \cup [ops : [Name -> Op], foreign : BOOLEAN]]
      /\ acked[s][n] <= edits /\ acked[s][n] \in Nat
  <2>1. /\ acked \in [Server -> [Name -> Nat]] /\ ackedAt \in [Server -> [Name -> Nat]]
        /\ clears \in [Server -> Nat]
        /\ opsCache \in [Server -> {Nothing} \cup [ops : [Name -> Op], foreign : BOOLEAN]]
    BY DEF OpsInv, OpsTypes
  <2>2. acked[s][n] <= edits
    BY <1>2 DEF OpsInv, HistoryOrder
  <2>3. acked[s][n] \in Nat
    BY <1>2, <2>1
  <2> QED BY <2>1, <2>2, <2>3
<1>5. last \in Nat /\ last <= edits /\ acked[s][n] <= last /\ last \in {edit, acked[s][n]}
  BY <1>3, <1>4
<1>6. acked' = [acked EXCEPT ![s][n] = last]
  BY <1>1, <1>2, <1>4
<1> HIDE DEF last
<1>7. /\ acked' \in [Server -> [Name -> Nat]] /\ acked'[s][n] = last
      /\ \A r \in Server, m \in Name : r # s \/ m # n => acked'[r][m] = acked[r][m]
  BY <1>2, <1>4, <1>5, <1>6
<1>8. /\ ackedAt' \in [Server -> [Name -> Nat]] /\ ackedAt'[s][n] = clears[s]
      /\ \A r \in Server, m \in Name : r # s \/ m # n => ackedAt'[r][m] = ackedAt[r][m]
  BY <1>1, <1>2, <1>4
<1>9. /\ opsCache' \in [Server -> {Nothing} \cup [ops : [Name -> Op], foreign : BOOLEAN]]
      /\ opsCache'[s] = Nothing /\ \A r \in Server \ {s} : opsCache'[r] = opsCache[r]
  BY <1>1, <1>2, <1>4
<1>10. \A r \in Server, m \in Name : acked[r][m] <= acked'[r][m] /\ acked'[r][m] \in Nat
  <2> SUFFICES ASSUME NEW r \in Server, NEW m \in Name
               PROVE  acked[r][m] <= acked'[r][m] /\ acked'[r][m] \in Nat
    OBVIOUS
  <2>1. acked[r][m] \in Nat /\ acked'[r][m] \in Nat
    BY <1>4, <1>7
  <2>2. CASE r = s /\ m = n
    BY <1>5, <1>7, <2>1, <2>2
  <2>3. CASE r # s \/ m # n
    <3>1. \A x \in Nat : x <= x
      OBVIOUS
    <3> QED BY <1>7, <2>1, <2>3, <3>1
  <2> QED BY <2>2, <2>3
<1>11. /\ req' \in [Client -> Request] /\ req'[c] = Free
       /\ \A d \in Client \ {c} : req'[d] = req[d]
       /\ \A d \in Client : req'[d].pc \in Reading =>
            /\ req'[d].since <= acked'[req'[d].start][BatchOf[req'[d].name]]
            /\ req'[d].sinceAt <= req'[d].from /\ req'[d].from <= clears'[req'[d].start]
       /\ \A d \in Client : req'[d].pc \in {"probe", "compute"} => req'[d].born <= clears'[req'[d].start]
       /\ ~ damaged => LookupIsCurrent' /\ ReadsWillSee' /\ EditsTakeEffect'
  <2>1. req[c].pc \notin Reading
    BY <1>1 DEF Reading
  <2> QED BY <1>1, <1>10, <2>1, FreeIsRequest, EditsLeaveReads
<1> USE DEF OpsInv
<1>12. OpsTypes'
  BY <1>1, <1>7, <1>8, <1>9, <1>11 DEF OpsTypes
<1>13. RequestsPlaced'
  <2>1. Free.pc \notin Reading \cup Editing
    BY FreeIsRequest DEF Reading, Editing
  <2> QED BY <1>1, <1>9, <1>11, <2>1, FreeIsRequest DEF RequestsPlaced
<1>14. HistoryOrder'
  <2>1. \A r \in Server, m \in Name : acked'[r][m] <= edits
    BY <1>5, <1>7 DEF HistoryOrder
  <2>2. \A r \in Server, m \in Name : ackedAt'[r][m] <= clears[r]
    <3>1. clears[s] \in Nat
      BY <1>2, <1>4
    <3>2. \A x \in Nat : x <= x
      OBVIOUS
    <3>3. \A r \in Server, m \in Name : ackedAt[r][m] <= clears[r]
      BY DEF HistoryOrder
    <3> HIDE DEF OpsInv
    <3> QED BY <1>8, <3>1, <3>2, <3>3
  <2> QED BY <1>1, <2>1, <2>2 DEF HistoryOrder, Entries, Elems
<1>15. RequestOrder'
  <2>1. Free.pc \notin Editing
    BY FreeIsRequest DEF Editing
  <2>2. \A d \in Client : req'[d].pc \in Editing => \A m \in Name : req'[d].ops[m].edit <= edits'
    BY <1>1, <1>11, <2>1 DEF RequestOrder
  <2> QED BY <1>11, <2>2 DEF RequestOrder, About
<1>16. ASSUME ~ damaged PROVE FileIsCurrent'
  <2>1. edit <= opsFile.ops[n].edit
    BY <1>1, <1>16 DEF FileIsCurrent, edit, n
  <2>2. \A r \in Server, m \in Name : acked'[r][m] <= opsFile.ops[m].edit
    BY <1>5, <1>7, <1>16, <2>1 DEF FileIsCurrent
  <2>3. Free.pc \notin Loaded \cup {"write", "invalidate"} /\ req[c].pc \notin Loaded
    BY <1>1, FreeIsRequest DEF Loaded
  <2> QED BY <1>1, <1>11, <1>16, <2>2, <2>3 DEF FileIsCurrent, Loaded
<1>17. ASSUME ~ damaged PROVE CacheIsCurrent'
  <2> SUFFICES ASSUME NEW r \in Server, opsCache'[r] # Nothing
               PROVE  \/ \A m \in Name : acked'[r][m] <= opsCache'[r].ops[m].edit
                      \/ /\ opsCache'[r].ops = NoOps
                         /\ opsCache'[r].foreign
                            \/ \E d \in Client : req'[d].pc \in Saving /\ req'[d].start = r
    BY DEF CacheIsCurrent
  <2>1. r # s /\ opsCache'[r] = opsCache[r]
    BY <1>9
  <2>2. \A m \in Name : acked'[r][m] = acked[r][m]
    BY <1>7, <2>1
  <2>3. \A d \in Client : req[d].start = r => req'[d] = req[d]
    BY <1>11, <2>1 DEF s
  <2> QED BY <1>17, <2>1, <2>2, <2>3 DEF CacheIsCurrent
<1>18. ASSUME ~ damaged PROVE AckedAreSeen'
  <2> SUFFICES ASSUME NEW r \in Server, NEW m \in Name
               PROVE  LaterLookups(r, m, ackedAt[r][m], acked[r][m])'
    BY DEF AckedAreSeen
  <2>1. \A d \in Client : req'[d].pc \in {"probe", "compute"} => req'[d] = req[d]
    BY <1>11, FreeIsRequest
  <2>2. Entries(r)' = Entries(r)
    BY <1>1 DEF Entries, Elems
  <2>3. CASE r = s /\ m = n
    <3>1. ASSUME NEW d \in Client, req'[d].pc \in {"probe", "compute"}, req'[d].start = s
          PROVE  ~ (req'[d].born > clears[s])
      <4>1. req[d].born <= clears[s] /\ req[d].born \in Nat /\ clears[s] \in Nat
        BY <1>2, <1>4, <2>1, <3>1 DEF RequestOrder, OpsTypes, Request
      <4> QED BY <2>1, <3>1, <4>1
    <3>2. ASSUME NEW e \in Entries(s) PROVE ~ (e.born > clears[s])
      <4>1. e.born <= e.put /\ e.put = clears[s]
        BY <1>2 DEF HistoryOrder
      <4>2. e \in Entry
        BY <1>2 DEF Entries, Elems, OpsTypes
      <4> QED BY <1>2, <1>4, <4>1, <4>2 DEF Entry
    <3> QED BY <1>8, <2>2, <2>3, <3>1, <3>2 DEF LaterLookups
  <2>4. CASE r # s \/ m # n
    <3>1. LaterLookups(r, m, ackedAt[r][m], acked[r][m])
      BY <1>18 DEF AckedAreSeen
    <3>2. ackedAt'[r][m] = ackedAt[r][m] /\ acked'[r][m] = acked[r][m]
      BY <1>7, <1>8, <2>4
    <3> QED BY <2>1, <2>2, <3>1, <3>2 DEF LaterLookups, About
  <2> QED BY <2>3, <2>4
<1> QED BY <1>1, <1>11, <1>12, <1>13, <1>14, <1>15, <1>16, <1>17, <1>18

\* Kept by the clearing of the responses.
LEMMA ReloadClearsKeeps ==
    ASSUME OpsInv, NEW c \in Client, ReloadClears(c), current' = current PROVE OpsInv'
<1>0. PICK s : s = req[c].start
  OBVIOUS
<1> DEFINE rec == [req[c] EXCEPT !.pc = "collect"]
<1>1. /\ req[c].pc = "clear" /\ Moves(c, rec)
      /\ responses' = [responses EXCEPT ![s] = <<>>]
      /\ clears' = [clears EXCEPT ![s] = @ + 1]
      /\ UNCHANGED <<opsFile, opsCache, edits, acked, ackedAt, damaged>>
  BY <1>0 DEF ReloadClears
<1>2. /\ s \in Server /\ s <= current /\ req[c] \in Request /\ req \in [Client -> Request]
      /\ responses \in [Server -> Seq(Entry)] /\ clears \in [Server -> Nat]
  BY <1>0, <1>1 DEF OpsInv, OpsTypes, RequestsPlaced
<1>3. rec \in Request /\ rec.pc = "collect" /\ rec.start = s
  BY <1>0, <1>2 DEF Request
<1> HIDE DEF rec
<1>4. /\ req' \in [Client -> Request] /\ req'[c] = rec
      /\ \A d \in Client \ {c} : req'[d] = req[d]
  BY <1>1, <1>2, <1>3 DEF Moves
<1>5. /\ responses' \in [Server -> Seq(Entry)] /\ responses'[s] = <<>>
      /\ \A r \in Server \ {s} : responses'[r] = responses[r]
  BY <1>1, <1>2
<1>6. /\ clears' \in [Server -> Nat]
      /\ \A r \in Server : r # s => clears'[r] = clears[r]
      /\ \A r \in Server, x \in Nat : x <= clears[r] => x <= clears'[r]
  BY <1>1, <1>2
<1>7. Entries(s)' = {} /\ \A r \in Server : r # s => Entries(r)' = Entries(r)
  <2>1. Elems(<<>>) = {}
    BY DEF Elems
  <2> QED BY <1>5, <2>1 DEF Entries
<1>8. \A d \in Client : req'[d].pc \in Reading \cup Editing \cup {"answered"} => req'[d] = req[d]
  BY <1>3, <1>4 DEF Reading, Editing
<1>9. \A d \in Client : req[d].pc \in Editing => req'[d] = req[d]
  BY <1>1, <1>4 DEF Editing
<1> USE DEF OpsInv
<1>10. OpsTypes'
  BY <1>1, <1>4, <1>5, <1>6 DEF OpsTypes
<1>11. RequestsPlaced'
  BY <1>1, <1>2, <1>3, <1>4, <1>5, <1>8 DEF RequestsPlaced
<1>12. HistoryOrder'
  BY <1>1, <1>6, <1>7, Numbers DEF HistoryOrder
<1>13. RequestOrder'
  <2>1. ASSUME NEW d \in Client, req'[d].pc \in Reading
        PROVE  req'[d] = req[d] /\ req[d].start \in Server /\ req[d].from \in Nat /\ req[d].born \in Nat
    <3>1. req[d] \in Request
      BY DEF OpsTypes
    <3> QED BY <1>8, <2>1, <3>1 DEF RequestsPlaced, Reading, Request
  <2>2. \A d \in Client : req'[d].pc \in Reading =>
          /\ req'[d].since <= acked[req'[d].start][BatchOf[req'[d].name]]
          /\ req'[d].sinceAt <= req'[d].from /\ req'[d].from <= clears'[req'[d].start]
    BY <1>6, <2>1 DEF RequestOrder, About
  <2>3. \A d \in Client : req'[d].pc \in {"probe", "compute"} => req'[d].born <= clears'[req'[d].start]
    BY <1>6, <2>1 DEF RequestOrder, Reading
  <2>4. \A d \in Client : req'[d].pc \in Editing => \A n \in Name : req'[d].ops[n].edit <= edits
    BY <1>8 DEF RequestOrder
  <2> QED BY <1>1, <2>2, <2>3, <2>4 DEF RequestOrder, About
<1>14. ASSUME ~ damaged PROVE FileIsCurrent'
  BY <1>1, <1>8, <1>9, <1>14 DEF FileIsCurrent, Editing, Loaded
<1>15. ASSUME ~ damaged PROVE CacheIsCurrent'
  BY <1>1, <1>9, <1>15 DEF CacheIsCurrent, Editing, Saving
<1>16. ASSUME ~ damaged PROVE LookupIsCurrent' /\ EditsTakeEffect'
  BY <1>8, <1>16 DEF LookupIsCurrent, Reading, EditsTakeEffect
<1>17. ASSUME NEW r \in Server, NEW n, NEW at, NEW edit, LaterLookups(r, n, at, edit)
       PROVE  LaterLookups(r, n, at, edit)'
  BY <1>7, <1>8, <1>17 DEF LaterLookups, About, Reading
<1>18. ASSUME ~ damaged PROVE AckedAreSeen'
  BY <1>1, <1>17, <1>18 DEF AckedAreSeen
<1>19. ASSUME ~ damaged PROVE ReadsWillSee'
  BY <1>8, <1>17, <1>19 DEF ReadsWillSee, RequestsPlaced, Reading, About
<1> QED BY <1>1, <1>10, <1>11, <1>12, <1>13, <1>14, <1>15, <1>16, <1>18, <1>19

\* Kept by a launch: the new server has neither requests nor caches.
LEMMA OpsLaunchKeeps ==
    ASSUME OpsInv, NEW s \in Server, s = current + 1, OpsLaunch(s), current' = s PROVE OpsInv'
<1> DEFINE all(n) == {acked[r][n] : r \in Server}
           most(n) == CHOOSE e \in all(n) : \A r \in Server : acked[r][n] <= e
<1>1. /\ acked' = [acked EXCEPT ![s] = [n \in Name |-> most(n)]]
      /\ UNCHANGED <<opsFile, opsCache, responses, req, edits, ackedAt, clears, damaged>>
  BY DEF OpsLaunch
<1>2. /\ acked \in [Server -> [Name -> Nat]] /\ edits \in Nat /\ current \in Nat
      /\ \A r \in Server, n \in Name : acked[r][n] <= edits /\ acked[r][n] \in Nat
  BY Numbers DEF OpsInv, OpsTypes, RequestsPlaced, HistoryOrder
<1>3. \A n \in Name : most(n) \in Nat /\ \E r \in Server : most(n) = acked[r][n]
  <2> SUFFICES ASSUME NEW n \in Name
               PROVE  most(n) \in Nat /\ \E r \in Server : most(n) = acked[r][n]
    OBVIOUS
  <2>1. all(n) \in SUBSET Nat /\ all(n) # {} /\ \A x \in all(n) : x <= edits
    BY <1>2
  <2>2. \E m \in all(n) : \A x \in all(n) : x <= m
    BY <1>2, <2>1, Greatest
  <2>3. \E m \in all(n) : \A r \in Server : acked[r][n] <= m
    BY <2>2
  <2>4. most(n) \in all(n)
    BY <2>3
  <2> QED BY <2>1, <2>4
<1> HIDE DEF all, most
<1>4. /\ acked' \in [Server -> [Name -> Nat]]
      /\ \A n \in Name : acked'[s][n] = most(n)
      /\ \A r \in Server \ {s} : acked'[r] = acked[r]
  BY <1>1, <1>2, <1>3
<1>5. \A r \in Server, n \in Name : \E q \in Server : acked'[r][n] = acked[q][n]
  <2> SUFFICES ASSUME NEW r \in Server, NEW n \in Name
               PROVE  \E q \in Server : acked'[r][n] = acked[q][n]
    OBVIOUS
  <2>1. CASE r = s
    <3>1. PICK q \in Server : most(n) = acked[q][n]
      BY <1>3
    <3>2. acked'[r][n] = acked[q][n]
      BY <1>4, <2>1, <3>1
    <3> QED BY <3>2
  <2>2. CASE r # s
    <3>1. acked'[r] = acked[r]
      BY <1>4, <2>2
    <3> QED BY <3>1
  <2> QED BY <2>1, <2>2
<1>6. /\ \A c \in Client : req[c].pc # "free" => req[c].start \in Server /\ req[c].start # s
      /\ opsCache[s] = Nothing /\ responses[s] = <<>>
  BY <1>2 DEF OpsInv, RequestsPlaced
<1>7. Entries(s)' = {} /\ \A r \in Server : Entries(r)' = Entries(r)
  <2>1. Elems(<<>>) = {}
    BY DEF Elems
  <2> QED BY <1>1, <1>6, <2>1 DEF Entries
<1> USE DEF OpsInv
<1>8. OpsTypes'
  BY <1>1, <1>4 DEF OpsTypes
<1>9. RequestsPlaced'
  <2>1. \A r \in Nat : (r <= current => r <= s) /\ (r > s => r > current)
    <3> HIDE DEF OpsInv
    <3> QED BY <1>2
  <2>2. s \in Nat /\ \A r \in Server : r \in Nat
    BY Numbers
  <2> QED BY <1>1, <2>1, <2>2 DEF RequestsPlaced
<1>10. HistoryOrder'
  <2>1. \A r \in Server, n \in Name : acked'[r][n] <= edits
    BY <1>2, <1>5
  <2> QED BY <1>1, <1>7, <2>1 DEF HistoryOrder
<1>11. RequestOrder'
  <2>1. \A c \in Client : req[c].pc \in Reading =>
          req[c].since <= acked'[req[c].start][BatchOf[req[c].name]]
    BY <1>4, <1>6 DEF RequestOrder, About, Reading
  <2> QED BY <1>1, <2>1 DEF RequestOrder, About
<1>12. ASSUME ~ damaged PROVE FileIsCurrent'
  <2>1. \A r \in Server, n \in Name : acked'[r][n] <= opsFile.ops[n].edit
    BY <1>5, <1>12 DEF FileIsCurrent
  <2> QED BY <1>1, <1>12, <2>1 DEF FileIsCurrent
<1>13. ASSUME ~ damaged PROVE CacheIsCurrent'
  BY <1>1, <1>4, <1>6, <1>13 DEF CacheIsCurrent
<1>14. ASSUME ~ damaged PROVE LookupIsCurrent' /\ EditsTakeEffect'
  BY <1>1, <1>14 DEF LookupIsCurrent, EditsTakeEffect
<1>15. ASSUME NEW r \in Server, NEW n, NEW at, NEW edit, LaterLookups(r, n, at, edit)
       PROVE  LaterLookups(r, n, at, edit)'
  BY <1>1, <1>7, <1>15 DEF LaterLookups, About
<1>16. \A n, at, edit : LaterLookups(s, n, at, edit)'
  BY <1>1, <1>6, <1>7 DEF LaterLookups
<1>17. ASSUME ~ damaged PROVE AckedAreSeen'
  <2> SUFFICES ASSUME NEW r \in Server, NEW n \in Name
               PROVE  LaterLookups(r, n, ackedAt[r][n], acked[r][n])'
    BY DEF AckedAreSeen
  <2>1. CASE r = s
    BY <1>16, <2>1
  <2>2. CASE r # s
    <3>1. ackedAt'[r][n] = ackedAt[r][n] /\ acked'[r][n] = acked[r][n]
      BY <1>1, <1>4, <2>2
    <3>2. LaterLookups(r, n, ackedAt[r][n], acked[r][n])
      BY <1>17 DEF AckedAreSeen
    <3> QED BY <1>15, <3>1, <3>2
  <2> QED BY <2>1, <2>2
<1>18. ASSUME ~ damaged PROVE ReadsWillSee'
  BY <1>1, <1>15, <1>18 DEF ReadsWillSee, RequestsPlaced, About
<1> QED BY <1>1, <1>8, <1>9, <1>10, <1>11, <1>12, <1>13, <1>14, <1>17, <1>18

\* No request is handled, nothing is cached, and the file is whole or the history
\* says that it may not be.
Unasked ==
    /\ opsFile \in [torn : BOOLEAN, ops : [Name -> Op]] /\ edits \in Nat
    /\ acked \in [Server -> [Name -> Nat]] /\ ackedAt \in [Server -> [Name -> Nat]]
    /\ clears \in [Server -> Nat] /\ damaged \in BOOLEAN /\ current \in Nat
    /\ opsCache = [s \in Server |-> Nothing] /\ responses = [s \in Server |-> <<>>]
    /\ req = [c \in Client |-> Free]
    /\ \A n \in Name : opsFile.ops[n].edit <= edits
    /\ \A s \in Server, n \in Name : acked[s][n] <= edits /\ ackedAt[s][n] <= clears[s]
    /\ ~ damaged => /\ ~ opsFile.torn
                    /\ \A s \in Server, n \in Name : acked[s][n] <= opsFile.ops[n].edit

\* OpsInv holds then.
LEMMA NoRequests == Unasked => OpsInv
<1> SUFFICES ASSUME Unasked PROVE OpsInv
  OBVIOUS
<1> USE DEF Unasked
<1>1. \A c \in Client : req[c] = Free /\ req[c].pc = "free"
  BY FreeIsRequest
<1>2. \A s \in Server : Entries(s) = {}
  BY DEF Entries, Elems
<1>3. OpsTypes
  BY FreeIsRequest DEF OpsTypes
<1>4. RequestsPlaced
  BY <1>1 DEF RequestsPlaced, Reading, Editing
<1>5. HistoryOrder
  BY <1>2 DEF HistoryOrder
<1>6. RequestOrder
  BY <1>1 DEF RequestOrder, Reading, Editing
<1>7. ASSUME ~ damaged PROVE FileIsCurrent /\ LookupIsCurrent /\ EditsTakeEffect
  BY <1>1, <1>7 DEF FileIsCurrent, LookupIsCurrent, EditsTakeEffect, Loaded
<1>8. CacheIsCurrent
  BY DEF CacheIsCurrent
<1>9. AckedAreSeen /\ ReadsWillSee
  BY <1>1, <1>2 DEF AckedAreSeen, ReadsWillSee, LaterLookups
<1> QED BY <1>3, <1>4, <1>5, <1>6, <1>7, <1>8, <1>9 DEF OpsInv

-----------------------------------------------------------------------------
(* The two invariants in the engine                                        *)

\* What the environment does leaves a scenario.
LEMMA SpendKeeps ==
    ASSUME budget \in Scenario,
           NEW what \in {"grpc", "spawns", "user", "faults", "reloads", "reads", "edits", "crashes",
                         "persists", "hours", "beats"},
           Spend(what)
    PROVE  budget' \in Scenario
<1>1. budget[what] \in Nat /\ budget[what] > 0
  BY DEF Spend, Scenario
<1>2. budget[what] - 1 \in Nat
  BY <1>1
<1>3. budget' = [budget EXCEPT ![what] = budget[what] - 1]
  BY DEF Spend
<1> QED BY <1>2, <1>3 DEF Scenario

\* Every step leaves a scenario.
LEMMA BudgetKept == ASSUME budget \in Scenario, [Next]_vars PROVE budget' \in Scenario
<1>1. CASE SpawnStep \/ UserStep \/ FaultStep \/ ReloadStep
  BY <1>1, SpendKeeps DEF SpawnStep, UserStep, FaultStep, ReloadStep
<1>2. CASE ClockStep \/ GrpcStep \/ CrashStep
  BY <1>2, SpendKeeps DEF ClockStep, GrpcStep, CrashStep
<1>3. CASE ArrivalStep
  BY <1>3, SpendKeeps DEF ArrivalStep
<1>4. CASE LifeStep \/ CounterStep \/ NetworkStep \/ RequestStep \/ StartStep \/ AnswerStep
  BY <1>4 DEF LifeStep, CounterStep, NetworkStep, RequestStep, StartStep, AnswerStep
<1>5. CASE UNCHANGED vars
  BY <1>5 DEF vars
<1> QED BY <1>1, <1>2, <1>3, <1>4, <1>5 DEF Next

\* LifeInv does not depend on the requests or the counter.
LEMMA LifeStays == ASSUME LifeInv, UNCHANGED lifeVars, budget' \in Scenario PROVE LifeInv'
<1>1. WorkersCalm
  BY StillCalm DEF lifeVars
<1>2. UNCHANGED <<handles, current, engine, ports, worker, retries, user, joins, halted, orphans>>
  BY DEF lifeVars, statics, history
<1>3. \A s, p : Own(s, p)' = Own(s, p)
  BY <1>2 DEF Own, Alive
<1>4. LifeTypes'
  BY <1>2 DEF LifeInv, LifeTypes
<1>5. Launched' /\ HandlesKept' /\ JoinersWait' /\ OldStartsHalted'
  BY <1>2 DEF LifeInv, Launched, HandlesKept, JoinersWait, OldStartsHalted, Finished, Joining
<1>6. FailedIsOver'
  BY <1>2 DEF LifeInv, FailedIsOver, Alive
<1>7. OneOwner'
  BY <1>2, <1>3 DEF LifeInv, OneOwner, AtMostOne, QueuedHaveNone, DeferredHaveNone, StagedIsOnly,
                    RetriedIsOnly, Alive
<1> QED BY <1>4, <1>5, <1>6, <1>7 DEF LifeInv

\* The two invariants after the death of the process.
LEMMA FreshNext == Fresh' => LifeInv'
BY FreshProcess, PTL
LEMMA UnaskedNext == Unasked' => OpsInv'
BY NoRequests, PTL

\* LifeInv is inductive, given where the requests are.
LEMMA LifeInvKept == ASSUME LifeInv, OpsInv, [Next]_vars PROVE LifeInv'
<1>1. budget' \in Scenario
  BY BudgetKept DEF LifeInv, LifeTypes
<1>2. CASE LifeStep
  <2>1. CASE \E j \in Joiner : JoinOne(j) \/ JoinEnd(j)
    BY <1>1, <2>1, JoinOneKeeps, JoinEndKeeps
  <2>2. CASE MenuReturns
    BY <1>1, <2>2, OtherStepsKeep
  <2>3. CASE \E s \in Start :
               Woken(s) \/ StageReport(s) \/ StageEnds(s) \/ PortsOpen(s) \/ Waits(s)
    BY <1>1, <2>3, WokenKeeps, StageReportKeeps, StageEndsKeeps, OtherStepsKeep
  <2>4. CASE \E w \in Worker :
               \/ Connected(w) \/ GoesLive(w) \/ SeesHalt(w)
               \/ RaisesFlags(w) \/ NotifiesEngine(w) \/ WorkerEnds(w)
    BY <1>1, <2>4, WorkerMovesKeep, NotifiesEngineKeeps
  <2>5. CASE \E r \in retries : RetryReport(r)
    BY <1>1, <2>5, RetryReportKeeps
  <2> QED BY <1>2, <2>1, <2>2, <2>3, <2>4, <2>5 DEF LifeStep
<1>3. CASE SpawnStep
  BY <1>1, <1>3, StageNextKeeps, RetrySpawnKeeps DEF SpawnStep
<1>4. CASE UserStep
  BY <1>1, <1>4, MenuStopsKeeps, OtherStepsKeep DEF UserStep
<1>5. CASE FaultStep
  BY <1>1, <1>5, WorkerMovesKeep DEF FaultStep
<1>6. CASE CounterStep \/ ClockStep \/ NetworkStep \/ RequestStep \/ ArrivalStep \/ AnswerStep \/ GrpcStep
  <2>1. UNCHANGED lifeVars
    BY <1>6 DEF CounterStep, ClockStep, NetworkStep, RequestStep, ArrivalStep, AnswerStep, GrpcStep
  <2> QED BY <1>1, <2>1, LifeStays
<1>7. CASE StartStep
  BY <1>1, <1>7, LaunchKeeps DEF StartStep
<1>8. CASE ReloadStep
  <2>1. PICK c \in Client, p \in Profile : ReloadSpawned(c, p) /\ ReloadSpawn(req[c].start, p)
    BY <1>8 DEF ReloadStep
  <2>2. req[c].start \in Start /\ req[c].start <= current
    BY <2>1 DEF ReloadSpawned, OpsInv, RequestsPlaced
  <2> QED BY <1>1, <2>1, <2>2, ReloadSpawnKeeps
<1>9. CASE CrashStep
  <2>1. EngineDies
    BY <1>9 DEF CrashStep
  <2>2. Fresh'
    BY <1>1, <2>1 DEF Fresh, EngineDies
  <2> QED BY <2>2, FreshNext
<1>10. CASE UNCHANGED vars
  BY <1>1, <1>10, LifeStays DEF vars
<1> QED BY <1>2, <1>3, <1>4, <1>5, <1>6, <1>7, <1>8, <1>9, <1>10 DEF Next

\* OpsInv does not depend on the workers or the counter.
LEMMA OpsStays == ASSUME OpsInv, UNCHANGED opsVars, current' = current PROVE OpsInv'
<1>1. UNCHANGED <<opsFile, opsCache, responses, req, edits, acked, ackedAt, clears, damaged, current>>
  BY DEF opsVars
<1>2. \A s : Entries(s)' = Entries(s)
  BY <1>1 DEF Entries
<1>3. OpsTypes' /\ RequestsPlaced'
  BY <1>1 DEF OpsInv, OpsTypes, RequestsPlaced
<1>4. HistoryOrder' /\ RequestOrder'
  BY <1>1, <1>2 DEF OpsInv, HistoryOrder, RequestOrder, About
<1>5. ASSUME ~ damaged PROVE FileIsCurrent' /\ CacheIsCurrent' /\ LookupIsCurrent' /\ EditsTakeEffect'
  BY <1>1, <1>5 DEF OpsInv, FileIsCurrent, CacheIsCurrent, LookupIsCurrent, EditsTakeEffect
<1>6. \A s, n, at, edit : LaterLookups(s, n, at, edit)' <=> LaterLookups(s, n, at, edit)
  BY <1>1, <1>2 DEF LaterLookups, About
<1>7. ASSUME ~ damaged PROVE AckedAreSeen' /\ ReadsWillSee'
  BY <1>1, <1>6, <1>7 DEF OpsInv, AckedAreSeen, ReadsWillSee, About
<1> QED BY <1>1, <1>3, <1>4, <1>5, <1>7 DEF OpsInv

\* OpsInv is inductive, given which servers are up.
LEMMA OpsInvKept == ASSUME LifeInv, OpsInv, [Next]_vars PROVE OpsInv'
<1>1. CASE LifeStep \/ SpawnStep \/ UserStep \/ FaultStep
  <2>1. UNCHANGED opsVars
    BY <1>1 DEF LifeStep, SpawnStep, UserStep, FaultStep, LifeOnly
  <2>2. current' = current
    <3>1. CASE LifeStep
      BY <3>1 DEF LifeStep, JoinOne, JoinEnd, MenuReturns, Woken, StageReport, StageEnds, PortsOpen,
                  Waits, Connected, GoesLive, SeesHalt, RaisesFlags, NotifiesEngine, WorkerEnds,
                  RetryReport, WorkerMoves, statics
    <3>2. CASE SpawnStep \/ UserStep \/ FaultStep
      BY <3>2 DEF SpawnStep, UserStep, FaultStep, StageNext, RetrySpawn, MenuStarts, MenuLeaves,
                  MenuStops, CtrlC, FailsEarly, FailsFatally, WorkerMoves, statics
    <3> QED BY <1>1, <3>1, <3>2
  <2> QED BY <2>1, <2>2, OpsStays
<1>2. CASE CounterStep \/ ClockStep \/ NetworkStep \/ GrpcStep
  <2>1. UNCHANGED <<opsVars, lifeVars>>
    BY <1>2 DEF CounterStep, ClockStep, NetworkStep, GrpcStep
  <2> QED BY <2>1, OpsStays DEF lifeVars, statics
<1>3. CASE RequestStep
  <2>1. current' = current
    BY <1>3 DEF RequestStep, lifeVars, statics
  <2>2. PICK c \in Client :
          \/ Lookup(c) \/ ProbeHits(c) \/ ProbeMisses(c) \/ Computed(c)
          \/ SaveTruncates(c) \/ SaveWrites(c) \/ Invalidate(c)
          \/ ReloadClears(c) \/ ReloadEnds(c)
          \/ ReloadCollects(c, SpawnSpecs(req[c].start) \cap budget.profiles)
    BY <1>3 DEF RequestStep
  <2>3. SpawnSpecs(req[c].start) \cap budget.profiles \in SUBSET Profile
    BY DEF SpawnSpecs
  <2>4. CASE ReloadCollects(c, SpawnSpecs(req[c].start) \cap budget.profiles)
    BY <2>1, <2>3, <2>4, ReloadKeeps
  <2> QED BY <2>1, <2>2, <2>4, LookupKeeps, ProbeHitsKeeps, ProbeMissesKeeps, ComputedKeeps,
             SaveTruncatesKeeps, SaveWritesKeeps, InvalidateKeeps, ReloadClearsKeeps, AnsweredKeeps
<1>4. CASE ArrivalStep
  <2>1. current' = current
    BY <1>4 DEF ArrivalStep, lifeVars, statics
  <2>2. PICK c \in Client, s \in Start :
          /\ ports[s] = "up"
          /\ \/ \E n \in Name : BeginRead(c, s, n)
             \/ \E n \in Name, there \in BOOLEAN : BeginEdit(c, s, n, there)
             \/ BeginReload(c, s)
    BY <1>4 DEF ArrivalStep
  <2>3. s <= current
    BY <2>2 DEF LifeInv, Launched
  <2> QED BY <2>1, <2>2, <2>3, BeginReadKeeps, BeginEditKeeps, ReloadKeeps
<1>5. CASE StartStep
  BY <1>5, OpsLaunchKeeps DEF StartStep, Launch
<1>6. CASE AnswerStep
  BY <1>6, AnsweredKeeps DEF AnswerStep, lifeVars, statics
<1>7. CASE ReloadStep
  BY <1>7, ReloadKeeps DEF ReloadStep, ReloadSpawn
<1>8. CASE CrashStep
  <2>1. OpsDie /\ current' = 0
    BY <1>8 DEF CrashStep, EngineDies
  <2>2. ASSUME ~ damaged'
        PROVE  /\ ~ opsFile.torn
               /\ \A s \in Server, n \in Name : acked[s][n] <= opsFile.ops[n].edit
    <3>1. ~ damaged /\ \A c \in Client : req[c].pc # "write"
      BY <2>1, <2>2 DEF OpsDie, In
    <3> QED BY <3>1 DEF OpsInv, FileIsCurrent
  <2>3. Unasked'
    BY <2>1, <2>2 DEF OpsDie, Unasked, OpsInv, OpsTypes, HistoryOrder
  <2> QED BY <2>3, UnaskedNext
<1>9. CASE UNCHANGED vars
  BY <1>9, OpsStays DEF vars, lifeVars, statics
<1> QED BY <1>1, <1>2, <1>3, <1>4, <1>5, <1>6, <1>7, <1>8, <1>9 DEF Next

\* Both hold at the start.
LEMMA EngineInit == Init => LifeInv /\ OpsInv
<1> SUFFICES ASSUME Init PROVE LifeInv /\ OpsInv
  OBVIOUS
<1>1. budget \in Scenario
  BY BudgetsAreScenarios DEF Init, Scenario
<1>2. Fresh
  BY <1>1 DEF Init, LifeInit, Fresh
<1>3. Saved \in Op /\ Saved.edit = 0
  BY DEF Saved, Op
<1>4. Unasked
  <2>1. opsFile \in [torn : BOOLEAN, ops : [Name -> Op]] /\ ~ opsFile.torn
        /\ \A n \in Name : opsFile.ops[n].edit = 0
    BY <1>3 DEF Init, OpsInit
  <2>2. /\ acked \in [Server -> [Name -> Nat]] /\ ackedAt \in [Server -> [Name -> Nat]]
        /\ clears \in [Server -> Nat] /\ edits = 0 /\ ~ damaged /\ damaged \in BOOLEAN
    BY DEF Init, OpsInit
  <2>3. \A s \in Server, n \in Name : acked[s][n] = 0 /\ ackedAt[s][n] = 0 /\ clears[s] = 0
    BY DEF Init, OpsInit
  <2>4. 0 \in Nat /\ 0 <= 0
    OBVIOUS
  <2> QED BY <2>1, <2>2, <2>3, <2>4 DEF Init, LifeInit, OpsInit, Unasked
<1> QED BY <1>2, <1>4, FreshProcess, NoRequests

\* Two workers of one profile that replicate: of one start, staging and the
\* retries had only one of them; of two, the earlier one has outlived its engine.
LEMMA LifeInvSuffices == LifeInv => OneWorkerPerProfile
<1>0. \A v, w \in Worker : v < w => v # w
  OBVIOUS
<1> SUFFICES ASSUME LifeInv, NEW v \in Worker, NEW w \in Worker, v # w, Replicating(v), Replicating(w),
                    worker[v].prof = worker[w].prof
             PROVE  \/ worker[v].start = worker[w].start /\ "reload" \in {worker[v].by, worker[w].by}
                    \/ worker[v].start # worker[w].start /\ (Outlives(v) \/ Outlives(w))
  BY <1>0 DEF OneWorkerPerProfile
<1>1. /\ Alive(v) /\ Alive(w) /\ ~ Finished(v) /\ ~ Finished(w)
      /\ worker[v].st # "unborn" /\ worker[w].st # "unborn"
  BY DEF Replicating, Alive, Finished
<1>2. CASE worker[v].start = worker[w].start
  <2>1. worker[v].start \in Start /\ worker[v].prof \in Profile
    <3>1. worker[v].start \in Start \cup {0} /\ worker[v].start \in 1 .. current
          /\ worker[v].prof \in Profile
      BY <1>1 DEF LifeInv, LifeTypes, Launched, WorkerRecord
    <3>2. 0 \notin 1 .. current
      BY DEF LifeInv, LifeTypes
    <3> QED BY <3>1, <3>2
  <2>2. ASSUME worker[v].by # "reload", worker[w].by # "reload" PROVE FALSE
    BY <1>1, <1>2, <2>1, <2>2 DEF LifeInv, OneOwner, AtMostOne, Own
  <2> QED BY <1>2, <2>2
<1>3. CASE worker[v].start # worker[w].start
  <2>1. \A u \in {v, w} : Outlives(u) \/ worker[u].start = current
    BY <1>1 DEF LifeInv, HandlesKept, OldStartsHalted, Outlives
  <2> QED BY <1>3, <2>1
<1> QED BY <1>2, <1>3

\* For any profiles, starts, workers, retries, failures and crashes: staging and
\* spawn_deferred_cdc_retries never give a profile of one start a second worker
\* that replicates, and two starts do so only when a worker outlives its engine.
THEOREM OneWorkerTheorem == Spec => []OneWorkerPerProfile
BY LifeInvSuffices, EngineInit, LifeInvKept, OpsInvKept, PTL DEF Spec

\* For any names, batches, cache limits, requests, servers and crashes: a read
\* that begins after an edit of .bittice_ops.json was acknowledged runs that edit
\* or a later one, but for the cases EditsTakeEffect names.
THEOREM EditsTheorem == Spec => []EditsTakeEffect
<1>1. OpsInv => EditsTakeEffect
  BY DEF OpsInv, EditsTakeEffect
<1> QED BY <1>1, EngineInit, LifeInvKept, OpsInvKept, PTL DEF Spec

=============================================================================
