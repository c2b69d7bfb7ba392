------------------------------ MODULE MCEngine ------------------------------
(***************************************************************************)
(* Model of Engine for TLC.  The scenarios spend their budgets in          *)
(* different places, so that the state space is their sum.                 *)
(***************************************************************************)
EXTENDS Engine

CONSTANTS p1, p2, a, all

MCHour == 1 .. 3
MCStart == 1 .. 2
MCWorker == 1 .. 3
MCTask == 1 .. 2

(* all is a batch that runs a.                                             *)
MCBatchOf == [n \in {a, all} |-> a]

(* A scenario in which the environment does nothing but the given.         *)
Quiet == [from |-> "menu", profiles |-> {}, grpc |-> 0, spawns |-> 0, user |-> 0, faults |-> 0, reloads |-> 0, reads |-> 0, edits |-> 0,
          crashes |-> 0, persists |-> 0, hours |-> 0, beats |-> 0]

(* Starts, stops and failures of the workers; reads and edits around a     *)
(* reload; the counter over three hours, two starts and a crash.           *)
MCBudgets ==
    {[Quiet EXCEPT !.profiles = {p1}, !.spawns = 2, !.user = 3],
     [Quiet EXCEPT !.profiles = {p1}, !.spawns = 2, !.user = 2, !.faults = 1],
     [Quiet EXCEPT !.from = "shell", !.profiles = {p1, p2}, !.spawns = 2, !.user = 1, !.faults = 1],
     [Quiet EXCEPT !.from = "shell", !.profiles = {p1}, !.spawns = 3, !.faults = 1, !.reloads = 1],
     [Quiet EXCEPT !.from = "shell", !.reads = 2, !.edits = 1, !.reloads = 1],
     [Quiet EXCEPT !.from = "shell", !.reads = 1, !.edits = 2],
     [Quiet EXCEPT !.from = "shell", !.reads = 1, !.edits = 1, !.crashes = 1],
     [Quiet EXCEPT !.user = 4, !.grpc = 1, !.persists = 2, !.crashes = 1],
     [Quiet EXCEPT !.from = "shell", !.grpc = 2, !.persists = 1, !.hours = 2, !.beats = 1, !.crashes = 1]}

=============================================================================
