-------------------------------- MODULE Engine --------------------------------
(***************************************************************************)
(* The engine as a process: its starts and stops (EngineLifecycle), the    *)
(* requests its servers answer (SavedOperations) and the counter of        *)
(* billable operations (OpCounter), with the steps they take together: a   *)
(* start spawns the tasks of the counter, an answered read is billed, a    *)
(* reload spawns CDC workers, and the death of the process takes them all. *)
(*                                                                         *)
(* What the environment does is bounded by a budget chosen at the start:   *)
(* each member of Budgets is a scenario, with the way the engine is run    *)
(* and the profiles that are configured.                                   *)
(***************************************************************************)
EXTENDS EngineLifecycle, OpCounter, SavedOperations

CONSTANT Budgets  \* the scenarios: how often the environment does what

ASSUME ServersAreStarts == Server = Start
ASSUME BudgetsAreScenarios ==
    Budgets \subseteq [from : {"menu", "shell"}, profiles : SUBSET Profile, grpc : Nat, spawns : Nat,
                      user : Nat, faults : Nat, reloads : Nat, reads : Nat, edits : Nat,
                      crashes : Nat, persists : Nat, hours : Nat, beats : Nat]

VARIABLE budget

vars == <<lifeVars, counterVars, opsVars, budget>>

Spend(what) ==
    /\ budget[what] > 0
    /\ budget' = [budget EXCEPT ![what] = @ - 1]

Init ==
    /\ LifeInit
    /\ CounterInit
    /\ OpsInit
    /\ budget \in Budgets
    /\ user = budget.from

-----------------------------------------------------------------------------
(* Steps of one component                                                  *)

LifeOnly == UNCHANGED <<counterVars, opsVars>>

LifeStep ==
    /\ \/ \E j \in Joiner : JoinOne(j) \/ JoinEnd(j)
       \/ MenuReturns
       \/ \E s \in Start :
            Woken(s) \/ StageReport(s) \/ StageEnds(s) \/ PortsOpen(s) \/ Waits(s)
       \/ \E w \in Worker :
            \/ Connected(w) \/ GoesLive(w) \/ SeesHalt(w)
            \/ RaisesFlags(w) \/ NotifiesEngine(w) \/ WorkerEnds(w)
       \/ \E r \in retries : RetryReport(r)
    /\ LifeOnly
    /\ UNCHANGED budget

SpawnStep ==
    /\ (\E s \in Start : StageNext(s)) \/ (\E r \in retries : RetrySpawn(r))
    /\ Spend("spawns")
    /\ LifeOnly

UserStep ==
    /\ MenuStarts \/ MenuLeaves \/ CtrlC
    /\ Spend("user")
    /\ LifeOnly

FaultStep ==
    /\ \E w \in Worker : FailsEarly(w) \/ FailsFatally(w)
    /\ Spend("faults")
    /\ LifeOnly

CounterStep ==
    /\ \E t \in Task : PersistWrite(t) \/ PersistRename(t) \/ PersistFails(t)
    /\ UNCHANGED <<lifeVars, opsVars, budget>>

(* A persist every 30 s, a heartbeat every 5 min, each bounded.            *)
ClockStep ==
    /\ \/ Spend("hours") /\ HourPasses
       \/ Spend("persists") /\ \E t \in Task : PersistSnapshot(t)
       \/ Spend("beats") /\ SendHeartbeat
    /\ UNCHANGED <<lifeVars, opsVars>>

NetworkStep ==
    /\ \E b \in beats : DeliverHeartbeat(b) \/ LoseHeartbeat(b)
    /\ UNCHANGED <<lifeVars, opsVars, budget>>

RequestStep ==
    /\ \E c \in Client :
         \/ Lookup(c) \/ ProbeHits(c) \/ ProbeMisses(c) \/ Computed(c)
         \/ SaveTruncates(c) \/ SaveWrites(c) \/ Invalidate(c)
         \/ ReloadClears(c) \/ ReloadEnds(c)
         \/ ReloadCollects(c, SpawnSpecs(req[c].start) \cap budget.profiles)
    /\ UNCHANGED <<lifeVars, counterVars, budget>>

(* The servers answer while their ports are up.                            *)
ArrivalStep ==
    /\ \E c \in Client, s \in Start :
         /\ ports[s] = "up"
         /\ \/ Spend("reads") /\ \E n \in Name : BeginRead(c, s, n)
            \/ Spend("edits") /\ \E n \in Name, there \in BOOLEAN : BeginEdit(c, s, n, there)
            \/ Spend("reloads") /\ BeginReload(c, s)
    /\ UNCHANGED <<lifeVars, counterVars>>

-----------------------------------------------------------------------------
(* Steps of several components                                             *)

(* start_all_servers calls op_counter::init.                               *)
StartStep ==
    /\ Launch(budget.profiles)
    /\ StartCounter
    /\ OpsLaunch(current + 1)
    /\ UNCHANGED budget

(* count_billable_request: one operation for a 2xx.                        *)
AnswerStep ==
    /\ \E c \in Client :
         \/ Answered(c) /\ (IF Succeeded(c) THEN Bump ELSE UNCHANGED counterVars)
         \/ ComputeFails(c) /\ (IF BatchOf[req[c].name] # req[c].name THEN Bump
                                ELSE UNCHANGED counterVars)
    /\ UNCHANGED <<lifeVars, budget>>

(* search, search_unary and subscribe_updates of the gRPC server bump by   *)
(* themselves.                                                             *)
GrpcStep ==
    /\ \E s \in Start : ports[s] = "up"
    /\ Spend("grpc")
    /\ Bump
    /\ UNCHANGED <<lifeVars, opsVars>>

ReloadStep ==
    /\ \E c \in Client, p \in Profile :
         ReloadSpawned(c, p) /\ ReloadSpawn(req[c].start, p)
    /\ Spend("spawns")
    /\ UNCHANGED counterVars

CrashStep ==
    /\ Spend("crashes")
    /\ EngineDies
    /\ CounterDies
    /\ OpsDie

Next ==
    \/ LifeStep \/ SpawnStep \/ UserStep \/ FaultStep \/ CounterStep \/ ClockStep \/ NetworkStep
    \/ RequestStep \/ ArrivalStep \/ StartStep \/ AnswerStep \/ GrpcStep \/ ReloadStep \/ CrashStep

(* Threads and tasks that can run do.  Nothing is assumed of MySQL: a      *)
(* worker may connect for ever.                                            *)
Fairness ==
    /\ \A j \in Joiner : WF_vars((JoinOne(j) \/ JoinEnd(j)) /\ LifeOnly /\ UNCHANGED budget)
    /\ \A s \in Start : WF_vars(Woken(s) /\ LifeOnly /\ UNCHANGED budget)
    /\ \A w \in Worker : WF_vars(NotifiesEngine(w) /\ LifeOnly /\ UNCHANGED budget)

Spec == Init /\ [][Next]_vars /\ Fairness

=============================================================================
