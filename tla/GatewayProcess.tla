--------------------------- MODULE GatewayProcess ---------------------------
(***************************************************************************)
(* The life of the process, src/src/main.rs: main reads the settings,      *)
(* builds the gateway, fetches the catalogs once, spawns the background    *)
(* tasks (the supervisors of src/src/runtime.rs and the catalog refresher) *)
(* and their monitor, binds the listener and serves until the token fires. *)
(* A signal, a failure to bind, or the loss of any task ends the process.  *)
(*                                                                         *)
(* The handler of the signals is installed when the server starts: before  *)
(* that a signal ends the process at once.  When main returns, the runtime *)
(* is dropped and takes the tasks that are left with it.                   *)
(*                                                                         *)
(* axum's server is external: it stops accepting when its shutdown future  *)
(* resolves and returns when the requests in flight are answered.          *)
(***************************************************************************)
EXTENDS Configuration, FiniteSets

CONSTANTS
    SomeSettings,  \* the settings considered
    HistorySlots,  \* permits of history_slots (max_history_requests)
    MaxRequests    \* bound: other HTTP requests in flight

\* Durations and sizes are unsigned.
ASSUME ProcessAssumption ==
    /\ HistorySlots \in Nat \ {0} /\ MaxRequests \in Nat
    /\ \A s \in SomeSettings :
          /\ s.backoff_min \in Nat /\ s.backoff_max \in Nat
          /\ s.max_provider_subscriptions \in Nat \cup {Unset}

VARIABLES
    settings,  \* never changes
    main,      \* configuring, refreshing, binding, serving, draining, joining,
               \* returned, exited
    status,    \* how the process ended: none, ok, error, killed
    limits,    \* the ceilings the registry was built with
    health,    \* endpoints registered in the health registry
    monitor,   \* none, watching, draining, done, panicked
    shutdown,  \* the cancellation token
    task,      \* the spawned tasks: running, returned, panicked, or told to abort
    tasks,     \* the monitor's FuturesUnordered: tasks not yet joined
    requests,  \* HTTP requests in flight
    fetching   \* history requests in flight, each with a permit

built == <<settings, limits, health>>
work == <<requests, fetching>>
process_vars == <<built, main, status, monitor, shutdown, task, tasks, work>>

refresher == <<"catalog", "refresher">>
Over(t) == task[t] # "running"

-----------------------------------------------------------------------------
(* Start-up *)

\* Settings::validate refuses, or the HTTP client or a catalog URL cannot be
\* built: main returns before anything is spawned.
StartFails ==
    /\ main = "configuring"
    /\ main' = "returned" /\ status' = "error"
    /\ UNCHANGED <<built, monitor, shutdown, task, tasks, work>>

Configure ==
    /\ main = "configuring"
    /\ validate(settings)
    /\ limits' = provider_limits(settings)
    /\ main' = "refreshing"
    /\ UNCHANGED <<settings, health, status, monitor, shutdown, task, tasks, work>>

\* Faulty: the health entry of an endpoint is left to its task.
Spawn_NoRegister ==
    /\ main = "refreshing"
    /\ task' = [t \in Supervisors(settings) \cup {refresher} |-> "running"]
    /\ tasks' = DOMAIN task'
    /\ monitor' = "watching"
    /\ main' = "binding"
    /\ UNCHANGED <<built, status, shutdown, work>>

\* The first refresh_all is over, whatever it found; the supervisors are
\* registered and spawned, then the refresher and the monitor.
Spawn ==
    /\ main = "refreshing"
    /\ health' = Supervisors(settings)
    /\ task' = [t \in Supervisors(settings) \cup {refresher} |-> "running"]
    /\ tasks' = DOMAIN task'
    /\ monitor' = "watching"
    /\ main' = "binding"
    /\ UNCHANGED <<settings, limits, status, shutdown, work>>

\* The ? of TcpListener::bind: the tasks are running already.
BindFails ==
    /\ main = "binding"
    /\ main' = "returned" /\ status' = "error"
    /\ UNCHANGED <<built, monitor, shutdown, task, tasks, work>>

Bind ==
    /\ main = "binding"
    /\ main' = "serving"
    /\ UNCHANGED <<built, status, monitor, shutdown, task, tasks, work>>

-----------------------------------------------------------------------------
(* Background tasks *)

\* A task returns once it has seen the token.
TaskReturns(t) ==
    /\ task[t] = "running" /\ shutdown /\ main # "exited"
    /\ task' = [task EXCEPT ![t] = "returned"]
    /\ UNCHANGED <<built, main, status, monitor, shutdown, tasks, work>>

TaskPanics(t) ==
    /\ task[t] = "running" /\ main # "exited"
    /\ task' = [task EXCEPT ![t] = "panicked"]
    /\ UNCHANGED <<built, main, status, monitor, shutdown, tasks, work>>

-----------------------------------------------------------------------------
(* monitor_background_tasks *)

\* The monitor has seen the end of a task or the token and computes its
\* deadline.
Draining == monitor' = IF settings.grace_overflows THEN "panicked" ELSE "draining"

\* Faulty: the end of a task is only logged.
TaskLost_OnlyLogs(t) ==
    /\ monitor = "watching" /\ main # "exited"
    /\ t \in tasks /\ Over(t)
    /\ tasks' = tasks \ {t}
    /\ Draining
    /\ UNCHANGED <<built, main, status, shutdown, task, work>>

\* The first select!: a task has ended, for whatever reason.
TaskLost(t) ==
    /\ monitor = "watching" /\ main # "exited"
    /\ t \in tasks /\ Over(t)
    /\ tasks' = tasks \ {t}
    /\ shutdown' = TRUE
    /\ Draining
    /\ UNCHANGED <<built, main, status, task, work>>

MonitorSeesToken ==
    /\ monitor = "watching" /\ shutdown /\ main # "exited"
    /\ Draining
    /\ UNCHANGED <<built, main, status, shutdown, task, tasks, work>>

TaskJoined(t) ==
    /\ monitor = "draining" /\ main # "exited"
    /\ t \in tasks /\ Over(t)
    /\ tasks' = tasks \ {t}
    /\ UNCHANGED <<built, main, status, monitor, shutdown, task, work>>

AllJoined ==
    /\ monitor = "draining" /\ tasks = {} /\ main # "exited"
    /\ monitor' = "done"
    /\ UNCHANGED <<built, main, status, shutdown, task, tasks, work>>

\* Faulty: the tasks that are late are left alone.
GraceExpires_NoAbort ==
    /\ monitor = "draining" /\ tasks # {} /\ main # "exited"
    /\ \A t \in tasks : ~ Over(t)
    /\ monitor' = "done"
    /\ UNCHANGED <<built, main, status, shutdown, task, tasks, work>>

\* timeout_at polls the tasks before the clock, so only running ones are left.
\* abort() is not awaited: a task ends at its next await, or with the runtime.
GraceExpires ==
    /\ monitor = "draining" /\ tasks # {} /\ main # "exited"
    /\ \A t \in tasks : ~ Over(t)
    /\ task' = [t \in DOMAIN task |-> IF t \in tasks THEN "aborted" ELSE task[t]]
    /\ monitor' = "done"
    /\ UNCHANGED <<built, main, status, shutdown, tasks, work>>

-----------------------------------------------------------------------------
(* Serving and the end *)

\* The end of main drops the runtime; a signal without a handler does as much.
Gone ==
    /\ main' = "exited"
    /\ task' = [t \in DOMAIN task |-> IF Over(t) THEN task[t] ELSE "aborted"]
    /\ requests' = 0 /\ fetching' = 0
    /\ UNCHANGED <<built, monitor, shutdown, tasks>>

Killed ==
    /\ main \in {"configuring", "refreshing", "binding"}
    /\ status' = "killed"
    /\ Gone

\* wait_for_shutdown_signal
Signal ==
    /\ main = "serving" /\ ~ shutdown
    /\ shutdown' = TRUE
    /\ main' = "draining"
    /\ UNCHANGED <<built, status, monitor, task, tasks, work>>

\* runtime_shutdown.cancelled()
ServerSeesToken ==
    /\ main = "serving" /\ shutdown
    /\ main' = "draining"
    /\ UNCHANGED <<built, status, monitor, shutdown, task, tasks, work>>

RequestArrives ==
    /\ main = "serving" /\ requests < MaxRequests
    /\ requests' = requests + 1
    /\ UNCHANGED <<built, main, status, monitor, shutdown, task, tasks, fetching>>

\* candles: a request that finds no permit is answered with history_busy.
HistoryArrives ==
    /\ main = "serving" /\ fetching < HistorySlots
    /\ fetching' = fetching + 1
    /\ UNCHANGED <<built, main, status, monitor, shutdown, task, tasks, requests>>

RequestAnswered ==
    /\ main \in {"serving", "draining"} /\ requests > 0
    /\ requests' = requests - 1
    /\ UNCHANGED <<built, main, status, monitor, shutdown, task, tasks, fetching>>

\* The handler returns, or is dropped with its connection, and with it the
\* permit.
HistoryAnswered ==
    /\ main \in {"serving", "draining"} /\ fetching > 0
    /\ fetching' = fetching - 1
    /\ UNCHANGED <<built, main, status, monitor, shutdown, task, tasks, requests>>

ServeReturns ==
    /\ main = "draining" /\ requests = 0 /\ fetching = 0
    /\ main' = "joining"
    /\ shutdown' = TRUE
    /\ UNCHANGED <<built, status, monitor, task, tasks, work>>

\* The monitor's panic is only logged.
MainReturns ==
    /\ main = "joining" /\ monitor \in {"done", "panicked"}
    /\ main' = "returned" /\ status' = "ok"
    /\ UNCHANGED <<built, monitor, shutdown, task, tasks, work>>

RuntimeDropped ==
    /\ main = "returned"
    /\ Gone
    /\ UNCHANGED status

ProcessOver == main = "exited" /\ UNCHANGED process_vars

-----------------------------------------------------------------------------

ProcessInit ==
    /\ settings \in SomeSettings
    /\ main = "configuring" /\ status = "none" /\ monitor = "none" /\ shutdown = FALSE
    /\ limits = [p \in {} |-> 0]
    /\ health = {}
    /\ task = [t \in {} |-> "running"] /\ tasks = {}
    /\ requests = 0 /\ fetching = 0

ProcessNext ==
    \/ StartFails \/ Configure \/ Spawn \/ BindFails \/ Bind \/ Killed
    \/ \E t \in DOMAIN task : TaskReturns(t) \/ TaskPanics(t) \/ TaskLost(t) \/ TaskJoined(t)
    \/ MonitorSeesToken \/ AllJoined \/ GraceExpires
    \/ Signal \/ ServerSeesToken \/ ServeReturns \/ MainReturns \/ RuntimeDropped
    \/ RequestArrives \/ HistoryArrives \/ RequestAnswered \/ HistoryAnswered
    \/ ProcessOver

\* Ready tasks run and timers fire.  Handlers are bounded by the HTTP client's
\* timeouts; that a response is then read is assumed of the clients, for axum's
\* drain has no deadline.  The refresher may be in a refresh when the token fires.
Fairness ==
    /\ WF_process_vars(StartFails \/ Configure) /\ WF_process_vars(Spawn)
    /\ WF_process_vars(Bind \/ BindFails)
    /\ WF_process_vars(\E t \in DOMAIN task \ {refresher} : TaskReturns(t))
    /\ WF_process_vars(\E t \in DOMAIN task : TaskLost(t) \/ TaskJoined(t))
    /\ WF_process_vars(MonitorSeesToken) /\ WF_process_vars(AllJoined \/ GraceExpires)
    /\ WF_process_vars(ServerSeesToken)
    /\ WF_process_vars(RequestAnswered) /\ WF_process_vars(HistoryAnswered)
    /\ WF_process_vars(ServeReturns) /\ WF_process_vars(MainReturns)
    /\ WF_process_vars(RuntimeDropped)

ProcessSpec == ProcessInit /\ [][ProcessNext]_process_vars /\ Fairness

-----------------------------------------------------------------------------
(* Properties *)

\* The gateway does not go on serving a part of its providers: once a task has
\* ended, or the token was cancelled, the process exits, whether the listener
\* was bound by then or not, and even if another task never looks at the token,
\* provided that clients read their responses.
LossEndsProcess ==
    (shutdown \/ \E t \in DOMAIN task : Over(t)) ~> main = "exited"

\* A gateway that has served returns from main only when every task has
\* returned, panicked or been told to abort once its grace was over, whichever of
\* the signal and the loss of a task came first; none is cut off within its grace
\* by the end of the runtime, unless the grace period is too long for the clock
\* and the monitor panics over it.
NothingLeftRunning ==
    main = "returned" /\ status = "ok" /\ ~ settings.grace_overflows =>
        \A t \in DOMAIN task : Over(t)

\* What is served is what the settings ask for: the reconnect range the
\* supervisors double in is sound, each ceiling is positive and neither above
\* what the provider declared nor above the operator's, and readiness knows
\* every endpoint of every enabled provider, so that none is missing from it
\* while its task has not run yet.
ServedAsConfigured ==
    main = "serving" =>
        /\ 0 < settings.backoff_min /\ settings.backoff_min <= settings.backoff_max
        /\ \A p \in enabled_providers(settings) :
              /\ limits[p] \in 1 .. Declared[p]
              /\ settings.max_provider_subscriptions # Unset
                    => limits[p] <= settings.max_provider_subscriptions
              /\ \A e \in Endpoints[p] : <<p, e>> \in health \cap DOMAIN task
=============================================================================
