--------------------------- MODULE EngineLifecycle ---------------------------
(***************************************************************************)
(* Starting and stopping the engine: start_all_servers of server/mod.rs,   *)
(* the CDC worker threads it stages, retries and joins, the flags they     *)
(* share, and the menu of repl/startup.rs that starts it over and over in  *)
(* one process.                                                            *)
(*                                                                         *)
(* Every start has its own Notify, TableManager and set of active workers; *)
(* the halt flag, the flag that names CDC as the cause and the list of     *)
(* thread handles are statics of the process.  Notify::notify_waiters      *)
(* wakes those who wait at that moment and is otherwise lost.              *)
(*                                                                         *)
(* A worker is reduced to the states its threads can be told apart by; its *)
(* replication is the module CdcReplication.                               *)
(***************************************************************************)
EXTENDS Integers, FiniteSets

CONSTANTS
    Profile,  \* the profiles
    Single,   \* those that mirror one database, all of one host:port here
    Lock,     \* the key of that host's single-database lock
    Start,    \* the engine starts of one process, 1 .. some bound
    Worker,   \* the worker threads, 1 .. some bound
    None

ASSUME SingleAreProfiles == Single \subseteq Profile
ASSUME LockIsNoProfile == Lock \notin Profile
ASSUME StartsAreNumbered == Start \subseteq Nat \ {0} /\ Worker \subseteq Nat \ {0}
ASSUME NoneIsNoValue == None \notin {"live", "failed"} /\ \A S \in SUBSET Worker : None # S

VARIABLES
    halt,      \* ENGINE_HALT_REQUESTED
    fromCdc,   \* ENGINE_SHUTDOWN_FROM_CDC
    handles,   \* CDC_BACKGROUND_THREAD_HANDLES
    current,   \* the start whose Notify is in ENGINE_SHUTDOWN_NOTIFY, or 0
    engine,    \* each start's task
    ports,     \* each start's servers: off, binding, up, closed
    active,    \* each start's active_workers
    worker,    \* the worker threads
    retries,   \* the threads of spawn_deferred_cdc_retries
    user,      \* where the user is: in the menu, or at the engine alone
    joins,     \* the calls of join_all_cdc_background_threads: handles left
    halted,    \* history: the starts whose workers a stop has joined
    orphans    \* history: the workers a join gave up on

statics == <<halt, fromCdc, handles, current>>
history == <<halted, orphans>>
lifeVars == <<statics, engine, ports, active, worker, retries, user, joins, history>>

-----------------------------------------------------------------------------
(* State                                                                   *)

NoWorker == [st |-> "unborn", prof |-> None, start |-> 0, by |-> None, report |-> None,
             late |-> FALSE]
Idle == [pc |-> "off", queue |-> {}, deferred |-> {}, staged |-> 0]

(* A worker that applies events, or copies tables, of its profile.         *)
Replicating(w) == worker[w].st \in {"starting", "live"}
Finished(w) == worker[w].st \in {"unborn", "gone"}

(* The waiters of notify_waiters: the task of start_all_servers and the    *)
(* graceful shutdown of its servers, once they are listening.              *)
NotifiedEngine(e, s) == [e EXCEPT ![s].pc = IF @ = "waiting" THEN "woken" ELSE @]
NotifiedPorts(p, s) == [p EXCEPT ![s] = IF @ = "up" THEN "closed" ELSE @]

(* Started by the menu, which owns shutdown, or with shutdown_on_ctrl_c.   *)
Menu == user \notin {"shell", "engine"}

(* Who joins: the menu, or the task of a start.                            *)
TheMenu == 0
Joiner == {TheMenu} \cup Start
Joining(j) == joins[j] # None

LifeInit ==
    /\ halt = FALSE /\ fromCdc = FALSE
    /\ handles = {}
    /\ current = 0
    /\ engine = [s \in Start |-> Idle]
    /\ ports = [s \in Start |-> "off"]
    /\ active = [s \in Start |-> {}]
    /\ worker = [w \in Worker |-> NoWorker]
    /\ retries = {}
    /\ user \in {"menu", "shell"}
    /\ joins = [j \in Joiner |-> None]
    /\ halted = {} /\ orphans = {}

-----------------------------------------------------------------------------
(* Stopping                                                                *)

(* repl_stop_engine_and_join_cdc and finalize_shared_engine_shutdown up to *)
(* the join: halt, notify, take the handles.                               *)
BeginStop(j, s) ==
    /\ halt' = TRUE
    /\ joins' = [joins EXCEPT ![j] = handles]
    /\ handles' = {}
    /\ halted' = halted \cup {s}

(* Mutated form of JoinOne: the join has no timeout.                       *)
JoinOneForever(j) ==
    /\ Joining(j)
    /\ \E w \in joins[j] :
         /\ Finished(w)
         /\ joins' = [joins EXCEPT ![j] = @ \ {w}]
    /\ UNCHANGED <<statics, engine, ports, active, worker, retries, user, history>>

(* join_all_cdc_background_threads: a thread that has not ended after ten  *)
(* seconds is left running.                                                *)
JoinOne(j) ==
    /\ Joining(j)
    /\ \E w \in joins[j] :
         /\ joins' = [joins EXCEPT ![j] = @ \ {w}]
         /\ orphans' = IF Finished(w) THEN orphans ELSE orphans \cup {w}
    /\ UNCHANGED <<statics, engine, ports, active, worker, retries, user, halted>>

(* After the join the halt flag is lowered, whoever raised it.             *)
JoinEnd(j) ==
    /\ Joining(j) /\ joins[j] = {}
    /\ halt' = FALSE
    /\ joins' = [joins EXCEPT ![j] = None]
    /\ IF j = TheMenu
       THEN /\ user' = IF user = "starting" THEN "launch" ELSE "menu"
            /\ UNCHANGED engine
       ELSE /\ engine' = [engine EXCEPT ![j].pc = "stopped"]
            /\ UNCHANGED user
    /\ UNCHANGED <<fromCdc, handles, current, ports, active, worker, retries, history>>

(* The menu stops whatever runs before it starts the engine, and again     *)
(* when the user leaves the Live Monitor.  The engine's task is detached:  *)
(* it is neither awaited nor aborted.                                      *)
MenuStops(from, to) ==
    /\ user = from /\ ~ Joining(TheMenu)
    /\ user' = to
    /\ BeginStop(TheMenu, current)
    /\ IF current = 0
       THEN UNCHANGED <<engine, ports>>
       ELSE /\ engine' = NotifiedEngine(engine, current)
            /\ ports' = NotifiedPorts(ports, current)
    /\ UNCHANGED <<fromCdc, current, active, worker, retries, orphans>>

MenuStarts == MenuStops("menu", "starting")
MenuLeaves == MenuStops("monitor", "leaving")

(* The engine's task has ended by itself: back to the menu.                *)
MenuReturns ==
    /\ user = "monitor"
    /\ engine[current].pc = "stopped"
    /\ user' = "menu"
    /\ UNCHANGED <<statics, engine, ports, active, worker, retries, joins, history>>

(* Without the menu, ctrl_c ends the wait of wait_for_exit itself.         *)
CtrlC ==
    /\ user = "engine"
    /\ engine[current].pc = "waiting"
    /\ engine' = [engine EXCEPT ![current].pc = "interrupted"]
    /\ UNCHANGED <<statics, ports, active, worker, retries, user, joins, history>>

(* The wait is over.  Under the menu only a stop that CDC asked for is     *)
(* finalized here; a stop by the user is finished by the menu.             *)
Woken(s) ==
    /\ engine[s].pc \in {"woken", "interrupted"}
    /\ fromCdc' = (fromCdc /\ engine[s].pc = "interrupted")
    /\ IF Menu /\ ~ fromCdc
       THEN /\ engine' = [engine EXCEPT ![s].pc = "stopped"]
            /\ UNCHANGED <<halt, handles, joins, ports, halted>>
       ELSE /\ engine' = [engine EXCEPT ![s].pc = "finalizing"]
            /\ ports' = NotifiedPorts(ports, s)
            /\ BeginStop(s, s)
    /\ UNCHANGED <<current, active, worker, retries, user, orphans>>

-----------------------------------------------------------------------------
(* Workers                                                                 *)

FreeWorkers == {w \in Worker : worker[w].st = "unborn"}

Keys(p) == {p} \cup (IF p \in Single THEN {Lock} ELSE {})

(* collect_cdc_spawn_specs: profiles without a worker; a single-database   *)
(* one is skipped while the lock of its host is taken.                     *)
SpawnSpecs(s) == {p \in Profile : Keys(p) \cap active[s] = {}}

(* spawn_cdc_worker_thread_inner up to register_cdc_background_handle, in  *)
(* one step: a stop that takes the handles in between is one that comes    *)
(* before the spawn.                                                       *)
Spawn(w, s, p, who) ==
    /\ w \in FreeWorkers
    /\ \A v \in FreeWorkers : w <= v
    /\ active' = [active EXCEPT ![s] = @ \cup Keys(p)]
    /\ worker' = [worker EXCEPT ![w] =
                    [st |-> "connecting", prof |-> p, start |-> s, by |-> who,
                     report |-> None, late |-> s \in halted]]
    /\ handles' = handles \cup {w}

(* emit_startup_report: the first report is the one that is sent.          *)
Reported(rec, what) == [rec EXCEPT !.report = IF @ = None THEN what ELSE @]

WorkerMoves(w, rec) ==
    /\ worker' = [worker EXCEPT ![w] = rec]
    /\ UNCHANGED <<statics, engine, ports, active, retries, user, joins, history>>

(* connect_mysql_with_retry does not look at the halt flag.                *)
Connected(w) ==
    /\ worker[w].st = "connecting"
    /\ WorkerMoves(w, [worker[w] EXCEPT !.st = "starting"])

GoesLive(w) ==
    /\ worker[w].st = "starting"
    /\ WorkerMoves(w, Reported([worker[w] EXCEPT !.st = "live"], "live"))

(* The tables, the retries and the stream are left when halt is seen: no   *)
(* report is sent.                                                         *)
SeesHalt(w) ==
    /\ Replicating(w) /\ halt
    /\ WorkerMoves(w, [worker[w] EXCEPT !.st = "ending"])

(* run ends with an error before live replication: no shutdown.            *)
FailsEarly(w) ==
    /\ worker[w].st \in {"connecting", "starting"}
    /\ WorkerMoves(w, Reported([worker[w] EXCEPT !.st = "ending"], "failed"))

(* enter_static_mode at any time, or an error after live replication.      *)
FailsFatally(w) ==
    /\ Replicating(w)
    /\ WorkerMoves(w, Reported([worker[w] EXCEPT !.st = "fatal"], "failed"))

(* request_engine_shutdown_from_cdc: the flags, then the notification,     *)
(* which goes to the engine started last.                                  *)
RaisesFlags(w) ==
    /\ worker[w].st = "fatal"
    /\ fromCdc' = TRUE /\ halt' = TRUE
    /\ worker' = [worker EXCEPT ![w].st = "notifying"]
    /\ UNCHANGED <<handles, current, engine, ports, active, retries, user, joins, history>>

NotifiesEngine(w) ==
    /\ worker[w].st = "notifying"
    /\ worker' = [worker EXCEPT ![w].st = "ending"]
    /\ engine' = NotifiedEngine(engine, current)
    /\ ports' = NotifiedPorts(ports, current)
    /\ UNCHANGED <<statics, active, retries, user, joins, history>>

(* The end of the thread: its keys leave the set, even if another worker   *)
(* of the profile put them there.                                          *)
WorkerEnds(w) ==
    /\ worker[w].st = "ending"
    /\ worker' = [worker EXCEPT ![w].st = "gone"]
    /\ active' = [active EXCEPT ![worker[w].start] = @ \ Keys(worker[w].prof)]
    /\ UNCHANGED <<statics, engine, ports, retries, user, joins, history>>

-----------------------------------------------------------------------------
(* Starting                                                                *)

(* start_all_servers up to the staged startup.  Compaction and the repair  *)
(* of drifted tables run before any worker does.  The profiles are those   *)
(* that have a cdc_config.json, or none under BITTICE_DISABLE_CDC_AUTOSTART*)
Launch(profiles) ==
    /\ user \in {"launch", "shell"}
    /\ current + 1 \in Start
    /\ current' = current + 1
    /\ engine' = [engine EXCEPT ![current + 1] = [Idle EXCEPT !.pc = "staging", !.queue = profiles]]
    /\ user' = IF Menu THEN "monitor" ELSE "engine"
    /\ UNCHANGED <<halt, fromCdc, handles, ports, active, worker, retries, joins, history>>

(* run_cdc_staged_sequential: one profile at a time, in the order of the   *)
(* directory.                                                              *)
StageNext(s) ==
    /\ engine[s].pc = "staging"
    /\ \E p \in engine[s].queue, w \in Worker :
         /\ Spawn(w, s, p, "stage")
         /\ engine' = [engine EXCEPT ![s].pc = "receiving", ![s].queue = @ \ {p}, ![s].staged = w]
    /\ UNCHANGED <<halt, fromCdc, current, ports, retries, user, joins, history>>

(* rx.recv returns when there is a report, or when the thread has ended    *)
(* and the sender is dropped.                                              *)
Heard(w) == worker[w].report # None \/ worker[w].st = "gone"

StageReport(s) ==
    /\ engine[s].pc = "receiving"
    /\ LET w == engine[s].staged
       IN  /\ Heard(w)
           /\ engine' = [engine EXCEPT ![s].pc = "staging",
                           ![s].deferred = IF worker[w].report = "live" THEN @
                                           ELSE @ \cup {worker[w].prof}]
    /\ UNCHANGED <<statics, ports, active, worker, retries, user, joins, history>>

(* All profiles have answered: a retry thread per deferred profile, and    *)
(* the servers.                                                            *)
StageEnds(s) ==
    /\ engine[s].pc = "staging" /\ engine[s].queue = {}
    /\ retries' = retries \cup {[start |-> s, prof |-> p, on |-> 0] : p \in engine[s].deferred}
    /\ ports' = [ports EXCEPT ![s] = "binding"]
    /\ engine' = [engine EXCEPT ![s].pc = "opening"]
    /\ UNCHANGED <<statics, active, worker, user, joins, history>>

(* The servers listen unless the ports are taken.                          *)
PortsOpen(s) ==
    /\ ports[s] = "binding"
    /\ ports' = [ports EXCEPT ![s] = IF \E r \in Start : ports[r] = "up" THEN "closed" ELSE "up"]
    /\ UNCHANGED <<statics, engine, active, worker, retries, user, joins, history>>

Waits(s) ==
    /\ engine[s].pc = "opening"
    /\ engine' = [engine EXCEPT ![s].pc = "waiting"]
    /\ UNCHANGED <<statics, ports, active, worker, retries, user, joins, history>>

(* spawn_deferred_cdc_retries: a thread of its own, joined by nobody,      *)
(* which looks neither at the halt flag nor at the set of active workers.  *)
RetrySpawn(r) ==
    /\ r.on = 0
    /\ \E w \in Worker :
         /\ Spawn(w, r.start, r.prof, "retry")
         /\ retries' = (retries \ {r}) \cup {[r EXCEPT !.on = w]}
    /\ UNCHANGED <<halt, fromCdc, current, engine, ports, user, joins, history>>

(* Mutated form of RetryReport: the loop is not left when the worker is    *)
(* live.                                                                   *)
RetryReportGoesOn(r) ==
    /\ r.on # 0 /\ Heard(r.on)
    /\ retries' = (retries \ {r}) \cup {[r EXCEPT !.on = 0]}
    /\ UNCHANGED <<statics, engine, ports, active, worker, user, joins, history>>

RetryReport(r) ==
    /\ r.on # 0 /\ Heard(r.on)
    /\ retries' = IF worker[r.on].report = "live"
                  THEN retries \ {r}
                  ELSE (retries \ {r}) \cup {[r EXCEPT !.on = 0]}
    /\ UNCHANGED <<statics, engine, ports, active, worker, user, joins, history>>

(* scan_and_start_cdc spawns what collect_cdc_spawn_specs returned, one    *)
(* after another.                                                          *)
ReloadSpawn(s, p) ==
    /\ \E w \in Worker : Spawn(w, s, p, "reload")
    /\ UNCHANGED <<halt, fromCdc, current, engine, ports, retries, user, joins, history>>

(* The process dies; the next one begins with fresh statics.               *)
EngineDies ==
    /\ halt' = FALSE /\ fromCdc' = FALSE
    /\ handles' = {}
    /\ current' = 0
    /\ engine' = [s \in Start |-> Idle]
    /\ ports' = [s \in Start |-> "off"]
    /\ active' = [s \in Start |-> {}]
    /\ worker' = [w \in Worker |-> NoWorker]
    /\ retries' = {}
    /\ user' = IF Menu THEN "menu" ELSE "shell"
    /\ joins' = [j \in Joiner |-> None]
    /\ halted' = {} /\ orphans' = {}

-----------------------------------------------------------------------------
(* Properties                                                              *)

(* A worker nobody stops: its join timed out; it was spawned after its     *)
(* engine was stopped, by a staging or a retry that goes on; or it is      *)
(* being joined when another stop, done with its own handles, lowers halt. *)
Outlives(w) ==
    \/ w \in orphans
    \/ worker[w].late
    \/ \E j \in Joiner : Joining(j) /\ w \in joins[j]

(* Two workers of one profile would both write its tables and its          *)
(* checkpoint.  Within one start only a /_config/reload makes a second:    *)
(* staging and the retries never do.  Of two starts, one worker has        *)
(* outlived its engine.                                                    *)
OneWorkerPerProfile ==
    \A v, w \in Worker :
        v < w /\ Replicating(v) /\ Replicating(w) /\ worker[v].prof = worker[w].prof =>
            \/ worker[v].start = worker[w].start /\ "reload" \in {worker[v].by, worker[w].by}
            \/ worker[v].start # worker[w].start
               /\ (Outlives(v) \/ Outlives(w))

(* A fatal failure of replication stops the engine that waits: its request *)
(* wakes start_all_servers, whose shutdown ends although a worker in its   *)
(* connect loop does not see the halt flag.  Only the engine started last  *)
(* can be reached: a new start replaces its Notify.                        *)
FatalFailureStopsEngine ==
    \A s \in Start :
        (current = s /\ engine[s].pc = "waiting" /\ \E w \in Worker : worker[w].st = "notifying")
            ~> (engine[s].pc = "stopped" \/ current # s)

=============================================================================
