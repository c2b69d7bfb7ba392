------------------------------ MODULE OpCounter ------------------------------
(***************************************************************************)
(* The counter of billable operations (server/op_counter.rs) and the       *)
(* heartbeat that reports it (server/heartbeat.rs).                        *)
(*                                                                         *)
(* Operations are counted per hour in memory, written to                   *)
(* .request_counts.json by a background task and sent to the control plane *)
(* which keeps the greatest value it was told of an hour.  The counter is  *)
(* a process-wide OnceCell, but every engine start spawns one more         *)
(* persistence task and one more heartbeat task; the tasks share the       *)
(* temporary file, and nothing but its name.                               *)
(*                                                                         *)
(* A bucket is one number here: its two fields, unary and notification,    *)
(* are treated alike everywhere.  A bucket that does not exist is 0.       *)
(***************************************************************************)
EXTENDS Integers, FiniteSets

CONSTANTS
    Hour,       \* the hours of the clock, 1 .. some bound
    Retention,  \* ON_DISK_RETENTION_HOURS
    Task        \* identities of the persistence tasks

ASSUME HoursAreNumbered == Hour \subseteq Nat /\ 1 \in Hour

(* The file keeps at least the two hours a heartbeat reports.              *)
ASSUME RetentionCoversReports == Retention \in Nat /\ Retention >= 2

VARIABLES
    hour,     \* the current hour
    counting, \* the OnceCell COUNTER is set
    buckets,  \* OpCounter.buckets
    file,     \* .request_counts.json
    tmp,      \* .request_counts.json.tmp
    task,     \* the persistence tasks
    beats,    \* heartbeat requests on their way
    billed,   \* request_buckets of the control plane
    real,     \* history: operations answered in each hour
    saved,    \* history: what the last persist that ended wrote
    lost,     \* history: operations a process death may forget
    told      \* history: hours whose final count reached the control plane

counterVars == <<hour, counting, buckets, file, tmp, task, beats, billed, real, saved, lost, told>>

-----------------------------------------------------------------------------
(* State                                                                   *)

Counts == [Hour -> Nat]
NoCounts == [h \in Hour |-> 0]

(* A file is a map of buckets, a text serde_json cannot read, or not there.*)
Whole(counts) == [is |-> "whole", counts |-> counts]
Torn == [is |-> "torn", counts |-> NoCounts]
Absent == [is |-> "absent", counts |-> NoCounts]

(* A task sleeps, writes the temporary file it opened ("tmp", which a      *)
(* rename by another task may have turned into the "file", or into one     *)
(* nobody can name), or is about to rename it.                             *)
Asleep == [pc |-> "asleep", snap |-> NoCounts, on |-> "tmp"]
NoTask == [Asleep EXCEPT !.pc = "none"]

(* OpCounter::new: a corrupt file is ignored like a missing one.           *)
Restored(f) == f.counts

TasksRunning == {t \in Task : task[t].pc # "none"}

CounterInit ==
    /\ hour = 1
    /\ counting = FALSE
    /\ buckets = NoCounts
    /\ file = Absent
    /\ tmp = Absent
    /\ task = [t \in Task |-> NoTask]
    /\ beats = {}
    /\ billed = NoCounts
    /\ real = NoCounts
    /\ saved = NoCounts
    /\ lost = NoCounts
    /\ told = {}

-----------------------------------------------------------------------------
(* Operations                                                              *)

(* Mutated form of StartCounter: every engine start reads the file anew.   *)
StartCounterReloads ==
    /\ buckets' = Restored(file)
    /\ saved' = Restored(file)
    /\ counting' = TRUE
    /\ \E t \in Task \ TasksRunning : task' = [task EXCEPT ![t] = Asleep]
    /\ UNCHANGED <<hour, file, tmp, beats, billed, real, lost, told>>

(* init: the first caller of a process wins and restores the file; every   *)
(* caller spawns a persistence task.                                       *)
StartCounter ==
    /\ buckets' = IF counting THEN buckets ELSE Restored(file)
    /\ saved' = IF counting THEN saved ELSE Restored(file)
    /\ counting' = TRUE
    /\ \E t \in Task \ TasksRunning : task' = [task EXCEPT ![t] = Asleep]
    /\ UNCHANGED <<hour, file, tmp, beats, billed, real, lost, told>>

(* bump, called by count_billable_request on a 2xx answer and by the gRPC  *)
(* handlers.                                                               *)
Bump ==
    /\ counting
    /\ buckets' = [buckets EXCEPT ![hour] = @ + 1]
    /\ real' = [real EXCEPT ![hour] = @ + 1]
    /\ UNCHANGED <<hour, counting, file, tmp, task, beats, billed, saved, lost, told>>

DropOldBuckets(b) == [h \in Hour |-> IF h > hour - Retention THEN b[h] ELSE 0]

(* spawn_persistence_task: the clone is taken under the lock, written      *)
(* without it.  fs::write truncates what is there.                         *)
PersistSnapshot(t) ==
    /\ task[t].pc = "asleep"
    /\ buckets' = DropOldBuckets(buckets)
    /\ task' = [task EXCEPT ![t] = [pc |-> "writing", snap |-> buckets', on |-> "tmp"]]
    /\ tmp' = Torn
    /\ UNCHANGED <<hour, counting, file, beats, billed, real, saved, lost, told>>

(* What a file holds after t has written it: with another writer on the    *)
(* same file the longer of the two texts leaves a tail.                    *)
WrittenBy(t) ==
    IF \E u \in Task \ {t} : task[u].pc = "writing" /\ task[u].on = task[t].on
    THEN {Whole(task[t].snap), Torn}
    ELSE {Whole(task[t].snap)}

PersistWrite(t) ==
    /\ task[t].pc = "writing"
    /\ \E written \in WrittenBy(t) :
         /\ tmp' = IF task[t].on = "tmp" THEN written ELSE tmp
         /\ file' = IF task[t].on = "file" THEN written ELSE file
    /\ task' = [task EXCEPT ![t].pc = "renaming"]
    /\ UNCHANGED <<hour, counting, buckets, beats, billed, real, saved, lost, told>>

(* rename replaces the file by whatever the temporary file is; without one *)
(* it fails, and the task only warns.  Writers keep the file they opened.  *)
MovedOn(where) == IF where = "tmp" THEN "file" ELSE "gone"

PersistRename(t) ==
    /\ task[t].pc = "renaming"
    /\ tmp.is # "absent"
    /\ file' = tmp
    /\ tmp' = Absent
    /\ saved' = task[t].snap
    /\ task' = [u \in Task |->
                  IF u = t THEN Asleep
                  ELSE IF task[u].pc = "writing" THEN [task[u] EXCEPT !.on = MovedOn(@)]
                  ELSE task[u]]
    /\ UNCHANGED <<hour, counting, buckets, beats, billed, real, lost, told>>

PersistFails(t) ==
    /\ task[t].pc = "renaming"
    /\ tmp.is = "absent"
    /\ task' = [task EXCEPT ![t] = Asleep]
    /\ UNCHANGED <<hour, counting, buckets, file, tmp, beats, billed, real, saved, lost, told>>

-----------------------------------------------------------------------------
(* Heartbeat                                                               *)

(* heartbeat_snapshot: the current and the previous hour.                  *)
HeartbeatSnapshot ==
    [at |-> hour, counts |-> [h \in Hour |-> IF h \in {hour - 1, hour} THEN buckets[h] ELSE 0]]

SendHeartbeat ==
    /\ counting
    /\ beats' = beats \cup {HeartbeatSnapshot}
    /\ UNCHANGED <<hour, counting, buckets, file, tmp, task, billed, real, saved, lost, told>>

(* The control plane upserts with GREATEST.                                *)
Upserted(counts) == [h \in Hour |-> IF counts[h] > billed[h] THEN counts[h] ELSE billed[h]]

DeliverHeartbeat(b) ==
    /\ beats' = beats \ {b}
    /\ billed' = Upserted(b.counts)
    /\ told' = told \cup ({b.at - 1} \cap Hour)
    /\ UNCHANGED <<hour, counting, buckets, file, tmp, task, real, saved, lost>>

(* A failed request is logged and never repeated.                          *)
LoseHeartbeat(b) ==
    /\ beats' = beats \ {b}
    /\ UNCHANGED <<hour, counting, buckets, file, tmp, task, billed, real, saved, lost, told>>

HourPasses ==
    /\ hour + 1 \in Hour
    /\ hour' = hour + 1
    /\ UNCHANGED <<counting, buckets, file, tmp, task, beats, billed, real, saved, lost, told>>

(* The process dies.  What it may forget is what it counted since the last *)
(* persist; with two tasks at the shared temporary file, whatever the file *)
(* does not hold.                                                          *)
Kept == IF Cardinality(TasksRunning) = 1 THEN saved ELSE Restored(file)
Forgotten == [h \in Hour |-> IF buckets[h] > Kept[h] THEN buckets[h] - Kept[h] ELSE 0]

CounterDies ==
    /\ counting' = FALSE
    /\ buckets' = NoCounts
    /\ task' = [t \in Task |-> NoTask]
    /\ lost' = [h \in Hour |-> lost[h] + Forgotten[h]]
    /\ UNCHANGED <<hour, file, tmp, beats, billed, real, saved, told>>

-----------------------------------------------------------------------------
(* Properties                                                              *)

(* The control plane never bills an operation that was not answered.  An   *)
(* operation is only forgotten by a process death, and then only if it was *)
(* counted since the last write of the file: the counter holds the others  *)
(* of the hours it keeps, after any restarts, and the control plane bills  *)
(* them once a heartbeat of the following hour has arrived.                *)
BillIsRight ==
    \A h \in Hour :
        /\ billed[h] <= real[h]
        /\ counting /\ h > hour - Retention => buckets[h] >= real[h] - lost[h]
        /\ h \in told => billed[h] >= real[h] - lost[h]

=============================================================================
