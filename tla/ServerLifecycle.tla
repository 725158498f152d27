--------------------------- MODULE ServerLifecycle ---------------------------
(***************************************************************************)
(* The life cycle of the in-process MCP server of one Home Assistant       *)
(* config entry: entry set-up and unload (embedded_entry.py), the          *)
(* background bring-up task and the teardown (embedded_setup.py), the      *)
(* worker thread and its readiness probe (embedded_server.py), and the     *)
(* registration of the ingress webhook (mcp_webhook.py).                   *)
(*                                                                         *)
(* Everything but the worker threads runs on Home Assistant's event loop,  *)
(* so an action of the loop is the code between two awaits.  The worker    *)
(* threads, other processes that bind the server's port, and the user who  *)
(* edits the options interleave with it at every await.                    *)
(*                                                                         *)
(* A manager is a number: the n-th bring-up builds manager n, which owns   *)
(* worker thread n.                                                        *)
(***************************************************************************)
EXTENDS Integers

CONSTANTS Ports,          \* the TCP ports the user may choose
          MaxManagers,    \* bound: how many bring-ups a behaviour has
          UserOptions,    \* the option sets the user may save
          ForeignPorts    \* the ports other processes may bind

Managers == 1 .. MaxManagers
NoManager == 0

Modes == {"none", "ha_auth"}
OptionSets == [port : Ports, webhook : Modes \cup {"disabled", "unknown"}]

ASSUME PortsAssumption ==
  Ports \subseteq Nat \ {0} /\ UserOptions \subseteq OptionSets /\ ForeignPorts \subseteq Ports
ASSUME ManagersAssumption == MaxManagers \in Nat

\* EmbeddedServerError.kind, and the repair issue it is filed under
Kinds == {"package", "restart", "start"}

\* Who awaits async_teardown_server: async_unload_server_entry, or the
\* except clause of async_bring_up_server that was entered
Callers == {"unload", "cancelled"} \cup Kinds

Idle == [at |-> "idle", for |-> "unload", of |-> NoManager]
NoHook == [mode |-> "unregistered", manager |-> NoManager]
NoOptions == [port |-> 0, webhook |-> "disabled"]

Free == 0
Foreign == -1

VARIABLES
  entry,        \* state of the config entry in Home Assistant
  goal,         \* what Home Assistant unloads the entry for
  options,      \* entry.options
  lastOptions,  \* hass.data DATA_LAST_OPTIONS
  reload,       \* an update listener waits for the entry's set-up lock
  task,         \* where the bring-up task stands (hass.data DATA_BRINGUP_TASK)
  cancelling,   \* task.cancel() was called and is not delivered yet
  teardown,     \* where async_teardown_server stands, and for whom
  made,         \* how many managers were built
  manager,      \* hass.data DATA_MANAGER
  hook,         \* hass.data DATA_WEBHOOK with the registered webhook
  issue,        \* the repair issues on file
  notification, \* the "connect" notification is shown
  thread,       \* state of each manager's worker thread
  port,         \* EmbeddedServerManager._port
  signalled,    \* the managers whose thread's stop event is set
  exc,          \* EmbeddedServerManager._thread_exc
  abandoned,    \* history: threads dropped while they were alive
  listener      \* who accepts connections on each loopback port

coreVars == <<entry, goal, options, lastOptions, reload>>
threadVars == <<thread, port, exc, listener>>
vars == <<entry, goal, options, lastOptions, reload, task, cancelling,
          teardown, made, manager, hook, issue, notification, thread, port,
          signalled, exc, abandoned, listener>>

\* The states of a bring-up that awaits something in async_start or
\* async_register_webhook
Starting == {"makedirs", "probing", "accepted", "sleeping", "deadline", "rollback"}
Pending == Starting \cup {"cleanup"}
LoopPublished == {"importing", "binding", "serving", "closing"}

Init ==
  /\ entry = "not_loaded" /\ goal = "run"
  /\ options \in UserOptions /\ lastOptions = NoOptions
  /\ reload = FALSE
  /\ task = "absent" /\ cancelling = FALSE /\ teardown = Idle
  /\ made = 0 /\ manager = NoManager
  /\ hook = NoHook /\ issue = {} /\ notification = FALSE
  /\ thread = [m \in Managers |-> "new"]
  /\ port \in [Managers -> {options.port}]
  /\ signalled = {}
  /\ exc = [m \in Managers |-> "none"]
  /\ abandoned = {}
  /\ listener = [p \in Ports |-> Free]

-----------------------------------------------------------------------------
(* async_teardown_server, cut at its awaits.                               *)

\* EmbeddedServerManager.async_stop up to the join: set the stop event if the
\* worker has published its loop and has not closed it
Signal(m) ==
  signalled' = IF thread[m] \in LoopPublished THEN signalled \cup {m} ELSE signalled

\* async_stop after the join: a thread that outlived the timeout is dropped
Drop(m) == abandoned' = IF thread[m] = "dead" THEN abandoned ELSE abandoned \cup {m}

\* Mutant of ReturnTo: any end of the bring-up but an unload files an issue
ReturnTo_FilesForCancel(caller) ==
  /\ teardown' = Idle
  /\ notification' = FALSE
  /\ task' = IF caller = "unload" THEN "absent" ELSE "done"
  /\ issue' = IF caller = "unload" THEN issue ELSE issue \cup {caller}
  /\ entry' = IF caller = "unload" THEN "not_loaded" ELSE entry
  /\ lastOptions' = IF caller = "unload" THEN NoOptions ELSE lastOptions

\* Mutant of ReturnTo: the notification is not dismissed
ReturnTo_KeepsNotification(caller) ==
  /\ teardown' = Idle
  /\ notification' = notification
  /\ task' = IF caller = "unload" THEN "absent" ELSE "done"
  /\ issue' = IF caller \in Kinds THEN issue \cup {caller} ELSE issue
  /\ entry' = IF caller = "unload" THEN "not_loaded" ELSE entry
  /\ lastOptions' = IF caller = "unload" THEN NoOptions ELSE lastOptions

\* The teardown is over; its caller goes on to its own end
ReturnTo(caller) ==
  /\ teardown' = Idle
  /\ notification' = FALSE
  /\ task' = IF caller = "unload" THEN "absent" ELSE "done"
  /\ issue' = IF caller \in Kinds THEN issue \cup {caller} ELSE issue
  /\ entry' = IF caller = "unload" THEN "not_loaded" ELSE entry
  /\ lastOptions' = IF caller = "unload" THEN NoOptions ELSE lastOptions

\* The teardown is suspended at an await; its caller with it
SuspendAt(stage, caller, m) ==
  /\ teardown' = [at |-> stage, for |-> caller, of |-> m]
  /\ task' = IF caller = "unload" THEN "absent" ELSE "cleanup"
  /\ entry' = IF caller = "unload" THEN "unloading" ELSE entry
  /\ UNCHANGED <<notification, issue, lastOptions>>

\* Mutant of StopManager: a thread that has not published its loop is not joined
StopManager_SkipsUnpublished(caller) ==
  /\ manager' = NoManager
  /\ IF manager # NoManager /\ thread[manager] \in LoopPublished
       THEN Signal(manager) /\ SuspendAt("join", caller, manager)
       ELSE ReturnTo(caller) /\ UNCHANGED signalled

\* Pop the manager from hass.data and stop it
StopManager(caller) ==
  /\ manager' = NoManager
  /\ IF manager # NoManager /\ thread[manager] # "new"
       THEN Signal(manager) /\ SuspendAt("join", caller, manager)
       ELSE ReturnTo(caller) /\ UNCHANGED signalled

\* Mutant of BeginTeardown: the manager is stopped before the webhook is withdrawn
BeginTeardown_StopsFirst(caller) == StopManager(caller) /\ UNCHANGED hook

\* async_unregister_webhook, and on if there was nothing registered
BeginTeardown(caller) ==
  \/ /\ hook # NoHook
     /\ hook' = NoHook
     /\ SuspendAt("close", caller, NoManager)
     /\ UNCHANGED <<manager, signalled>>
  \/ /\ hook = NoHook
     /\ StopManager(caller)
     /\ UNCHANGED hook

\* session.close() and cimd_session.close() of the unregistered hook returned
SessionsClosed ==
  /\ teardown.at = "close" /\ ~cancelling
  /\ StopManager(teardown.for)
  /\ UNCHANGED <<goal, options, reload, cancelling, made, hook, abandoned, threadVars>>

\* Mutant of JoinReturns: the join has no time-out
JoinReturns_NoTimeout ==
  /\ teardown.at = "join" /\ ~cancelling /\ thread[teardown.of] = "dead"
  /\ Drop(teardown.of)
  /\ ReturnTo(teardown.for)
  /\ UNCHANGED <<goal, options, reload, cancelling, made, manager, hook, signalled, threadVars>>

\* thread.join() in the executor returned: the thread ended, or the time-out
JoinReturns ==
  /\ teardown.at = "join" /\ ~cancelling
  /\ Drop(teardown.of)
  /\ ReturnTo(teardown.for)
  /\ UNCHANGED <<goal, options, reload, cancelling, made, manager, hook, signalled, threadVars>>

-----------------------------------------------------------------------------
(* The config entry.                                                       *)

\* Home Assistant calls async_setup_entry, which awaits the compatibility check
SetupStarts ==
  /\ entry = "not_loaded" /\ goal = "run" /\ made < MaxManagers
  /\ entry' = "setting_up"
  /\ UNCHANGED <<goal, options, lastOptions, reload, task, cancelling, teardown, made,
                 manager, hook, issue, notification, signalled, abandoned, threadVars>>

\* The compatibility requirement or, in ha_auth mode, the early binding of the
\* OAuth views raised
SetupFails ==
  /\ entry = "setting_up"
  /\ entry' = "setup_error"
  /\ UNCHANGED <<goal, options, lastOptions, reload, task, cancelling, teardown, made,
                 manager, hook, issue, notification, signalled, abandoned, threadVars>>

\* async_setup_server_entry; the eager bring-up task runs to its first await,
\* the makedirs job, before the update listener is added
SetupSucceeds ==
  /\ entry = "setting_up" /\ made < MaxManagers
  /\ entry' = "loaded"
  /\ lastOptions' = options
  /\ made' = made + 1
  /\ manager' = made + 1
  /\ port' = [port EXCEPT ![made + 1] = options.port]
  /\ issue' = {}
  /\ task' = "makedirs"
  /\ UNCHANGED <<goal, options, reload, cancelling, teardown, hook, notification, thread,
                 signalled, exc, abandoned, listener>>

\* async_unload_server_entry up to its first await
UnloadEntry(g) ==
  /\ entry = "loaded"
  /\ goal' = g
  /\ \/ /\ task \in Pending
        /\ cancelling' = TRUE
        /\ entry' = "unloading"
        /\ UNCHANGED <<lastOptions, task, teardown, manager, hook, issue, notification,
                       signalled>>
     \/ /\ task = "done"
        /\ BeginTeardown("unload")
        /\ UNCHANGED cancelling
  /\ UNCHANGED <<options, made, abandoned, threadVars>>

\* The cancelled bring-up task is over and the unload goes on
UnloadResumes ==
  /\ entry = "unloading" /\ task = "done"
  /\ BeginTeardown("unload")
  /\ UNCHANGED <<goal, options, reload, cancelling, made, abandoned, threadVars>>

\* Home Assistant disables or removes the entry, or the user reloads it
UserUnloads ==
  /\ \/ UnloadEntry("stop")
     \/ UnloadEntry("remove")
     \/ made < MaxManagers /\ UnloadEntry("run")
  /\ UNCHANGED reload

\* Mutant of ReloadLoaded: an entry whose bring-up failed is not reloaded
ReloadLoaded_OnlyRunning ==
  /\ reload /\ made < MaxManagers /\ manager # NoManager
  /\ UnloadEntry("run")
  /\ reload' = FALSE

\* The listener's async_reload got the set-up lock
ReloadLoaded ==
  /\ reload /\ made < MaxManagers
  /\ UnloadEntry("run")
  /\ reload' = FALSE

\* The listener's async_reload got the lock when the entry is not set up
ReloadUnloaded ==
  /\ reload /\ reload' = FALSE
  /\ \/ entry \in {"not_loaded", "removed"} /\ entry' = entry
     \/ entry = "setup_error" /\ made < MaxManagers /\ entry' = "not_loaded"
  /\ UNCHANGED <<goal, options, lastOptions, task, cancelling, teardown, made, manager,
                 hook, issue, notification, signalled, abandoned, threadVars>>

\* The user enables a disabled entry, retries a failed one, or removes either
UserResumes(g) ==
  /\ \/ entry = "not_loaded" /\ goal = "stop"
     \/ entry = "setup_error"
  /\ goal' = g
  /\ entry' = "not_loaded"
  /\ UNCHANGED <<options, lastOptions, reload, task, cancelling, teardown, made, manager,
                 hook, issue, notification, signalled, abandoned, threadVars>>

\* async_remove_server_entry, after the unload
RemoveEntry ==
  /\ entry = "not_loaded" /\ goal = "remove"
  /\ entry' = "removed"
  /\ issue' = {} /\ notification' = FALSE
  /\ UNCHANGED <<goal, options, lastOptions, reload, task, cancelling, teardown, made,
                 manager, hook, signalled, abandoned, threadVars>>

\* Mutant of SaveOptions: the listener ignores options saved during a bring-up
SaveOptions_OnlyWhenDone(o) ==
  /\ entry # "removed" /\ made < MaxManagers
  /\ options' = o
  /\ reload' = (reload \/ (entry = "loaded" /\ task = "done" /\ lastOptions # o))
  /\ UNCHANGED <<entry, goal, lastOptions, task, cancelling, teardown, made, manager, hook,
                 issue, notification, signalled, abandoned, threadVars>>

\* The user saves options; Home Assistant starts the update listener eagerly,
\* so _async_options_updated compares at once and then waits for the lock
SaveOptions(o) ==
  /\ entry # "removed" /\ made < MaxManagers
  /\ options' = o
  /\ reload' = (reload \/ (entry \in {"loaded", "unloading"} /\ lastOptions # o))
  /\ UNCHANGED <<entry, goal, lastOptions, task, cancelling, teardown, made, manager, hook,
                 issue, notification, signalled, abandoned, threadVars>>

-----------------------------------------------------------------------------
(* async_bring_up_server and EmbeddedServerManager.async_start.            *)

\* makedirs returned; the thread is started and the first probe is sent
StartThread ==
  /\ task = "makedirs" /\ ~cancelling
  /\ thread' = [thread EXCEPT ![manager] = "started"]
  /\ task' = "probing"
  /\ UNCHANGED <<coreVars, cancelling, teardown, made, manager, hook, issue, notification,
                 port, signalled, exc, abandoned, listener>>

\* A turn of _async_wait_until_ready finds the thread failed or gone
ThreadFailureSeen ==
  /\ task = "sleeping" /\ ~cancelling
  /\ \/ exc[manager] # "none" /\ BeginTeardown(exc[manager])
     \/ exc[manager] = "none" /\ thread[manager] = "dead" /\ BeginTeardown("start")
  /\ UNCHANGED <<goal, options, reload, cancelling, made, abandoned, threadVars>>

\* A turn of _async_wait_until_ready finds the thread alive and probes again
SendProbe ==
  /\ task = "sleeping" /\ ~cancelling
  /\ exc[manager] = "none" /\ thread[manager] # "dead"
  /\ task' = "probing"
  /\ UNCHANGED <<coreVars, cancelling, teardown, made, manager, hook, issue, notification,
                 signalled, abandoned, threadVars>>

\* The connection was refused or timed out
ProbeFails ==
  /\ task = "probing" /\ ~cancelling
  /\ task' = "sleeping"
  /\ UNCHANGED <<coreVars, cancelling, teardown, made, manager, hook, issue, notification,
                 signalled, abandoned, threadVars>>

\* Mutant of DeadlinePasses: the readiness loop has no deadline of its own
DeadlinePasses_OnlyIfDead ==
  /\ task = "sleeping" /\ ~cancelling /\ thread[manager] = "dead"
  /\ task' = "deadline"
  /\ Signal(manager)
  /\ UNCHANGED <<coreVars, cancelling, teardown, made, manager, hook, issue, notification,
                 abandoned, threadVars>>

\* Thirty seconds passed: async_stop is awaited before the error is raised
DeadlinePasses ==
  /\ task = "sleeping" /\ ~cancelling
  /\ task' = "deadline"
  /\ Signal(manager)
  /\ UNCHANGED <<coreVars, cancelling, teardown, made, manager, hook, issue, notification,
                 abandoned, threadVars>>

\* async_stop cleared the manager's thread, so the teardown has no join
DeadlineJoinReturns ==
  /\ task = "deadline" /\ ~cancelling
  /\ Drop(manager)
  /\ manager' = NoManager
  /\ ReturnTo("start")
  /\ UNCHANGED <<goal, options, reload, cancelling, made, hook, signalled, threadVars>>

\* Something accepted the connection, which the probe now closes
ProbeAccepted ==
  /\ task = "probing" /\ ~cancelling /\ listener[port[manager]] # Free
  /\ task' = "accepted"
  /\ UNCHANGED <<coreVars, cancelling, teardown, made, manager, hook, issue, notification,
                 signalled, abandoned, threadVars>>

\* The probe's connection is closed; no await lies between here and the end of
\* the bring-up unless the registration fails
Accepted == task = "accepted" /\ ~cancelling

BringUpSucceeds ==
  /\ Accepted
  /\ options.webhook # "unknown"
  /\ hook' = IF options.webhook = "disabled" THEN NoHook
             ELSE [mode |-> options.webhook, manager |-> manager]
  /\ notification' \in BOOLEAN
  /\ task' = "done"
  /\ UNCHANGED <<coreVars, cancelling, teardown, made, manager, issue, signalled, abandoned,
                 threadVars>>

\* async_register_webhook refuses an unknown mode before it does anything
UnknownModeRefused ==
  /\ Accepted
  /\ options.webhook = "unknown"
  /\ BeginTeardown("start")
  /\ UNCHANGED <<goal, options, reload, cancelling, made, abandoned, threadVars>>

\* The registration or the binding of the OAuth surface raised; the webhook is
\* unregistered again and the sessions are being closed
RegistrationFails ==
  /\ Accepted
  /\ options.webhook \in Modes
  /\ task' = "rollback"
  /\ UNCHANGED <<coreVars, cancelling, teardown, made, manager, hook, issue, notification,
                 signalled, abandoned, threadVars>>

RollbackDone ==
  /\ task = "rollback" /\ ~cancelling
  /\ BeginTeardown("start")
  /\ UNCHANGED <<goal, options, reload, cancelling, made, abandoned, threadVars>>

\* _surface_connect_urls raised after the registration: the teardown pops the
\* new registration in the same step and closes its sessions
SurfaceFails ==
  /\ Accepted
  /\ options.webhook # "unknown"
  /\ \/ /\ options.webhook \in Modes
        /\ SuspendAt("close", "start", NoManager)
        /\ UNCHANGED <<manager, signalled>>
     \/ /\ options.webhook = "disabled"
        /\ StopManager("start")
  /\ UNCHANGED <<goal, options, reload, cancelling, made, hook, abandoned, threadVars>>

\* Mutant of CancelDelivered: the cancellation is handled as a failure to start
CancelDelivered_AsFailure ==
  /\ cancelling /\ cancelling' = FALSE
  /\ \/ /\ task \in Starting
        /\ BeginTeardown("start")
        /\ UNCHANGED abandoned
     \/ /\ task = "cleanup"
        /\ task' = "done"
        /\ teardown' = Idle
        /\ abandoned' = IF teardown.at = "join" /\ thread[teardown.of] # "dead"
                          THEN abandoned \cup {teardown.of} ELSE abandoned
        /\ UNCHANGED <<entry, lastOptions, manager, hook, issue, notification, signalled>>
  /\ UNCHANGED <<goal, options, reload, made, threadVars>>

\* CancelledError reaches the task at its await.  In async_start it enters the
\* except clause that tears down; in the teardown of a failed bring-up it
\* escapes suppress(Exception) and ends the task there
CancelDelivered ==
  /\ cancelling /\ cancelling' = FALSE
  /\ \/ /\ task \in Starting
        /\ BeginTeardown("cancelled")
        /\ UNCHANGED abandoned
     \/ /\ task = "cleanup"
        /\ task' = "done"
        /\ teardown' = Idle
        /\ abandoned' = IF teardown.at = "join" /\ thread[teardown.of] # "dead"
                          THEN abandoned \cup {teardown.of} ELSE abandoned
        /\ UNCHANGED <<entry, lastOptions, manager, hook, issue, notification, signalled>>
  /\ UNCHANGED <<goal, options, reload, made, threadVars>>

-----------------------------------------------------------------------------
(* EmbeddedServerManager._thread_main, on the worker thread, and the ports. *)

loopVars == <<coreVars, task, cancelling, teardown, made, manager, hook, issue, notification>>

\* The event loop and the stop event become visible to async_stop
PublishLoop(m) ==
  /\ thread[m] = "started"
  /\ thread' = [thread EXCEPT ![m] = "importing"]
  /\ UNCHANGED <<loopVars, port, signalled, exc, abandoned, listener>>

ImportSucceeds(m) ==
  /\ thread[m] = "importing"
  /\ thread' = [thread EXCEPT ![m] = "binding"]
  /\ UNCHANGED <<loopVars, port, signalled, exc, abandoned, listener>>

\* An import failed, or the server could not be built: _thread_exc is set
ThreadFails(m) ==
  /\ \/ thread[m] = "importing" /\ \E k \in Kinds : exc' = [exc EXCEPT ![m] = k]
     \/ thread[m] = "binding" /\ exc' = [exc EXCEPT ![m] = "start"]
  /\ thread' = [thread EXCEPT ![m] = "closing"]
  /\ UNCHANGED <<loopVars, port, signalled, abandoned, listener>>

\* Mutant of Bind: a stop event set before the server listens is forgotten
Bind_ForgetsSignal(m) ==
  /\ thread[m] = "binding" /\ listener[port[m]] = Free
  /\ thread' = [thread EXCEPT ![m] = "serving"]
  /\ listener' = [listener EXCEPT ![port[m]] = m]
  /\ signalled' = signalled \ {m}
  /\ UNCHANGED <<loopVars, port, exc, abandoned>>

\* uvicorn binds the port, also when the stop event is already set
Bind(m) ==
  /\ thread[m] = "binding" /\ listener[port[m]] = Free
  /\ thread' = [thread EXCEPT ![m] = "serving"]
  /\ listener' = [listener EXCEPT ![port[m]] = m]
  /\ UNCHANGED <<loopVars, port, signalled, exc, abandoned>>

\* The port is taken: uvicorn ends in SystemExit, which _thread_main does not
\* record in _thread_exc
BindFails(m) ==
  /\ thread[m] = "binding" /\ listener[port[m]] # Free
  /\ thread' = [thread EXCEPT ![m] = "closing"]
  /\ UNCHANGED <<loopVars, port, signalled, exc, abandoned, listener>>

\* The stop event is seen: uvicorn closes its listener
StopServing(m) ==
  /\ thread[m] = "serving" /\ m \in signalled
  /\ thread' = [thread EXCEPT ![m] = "closing"]
  /\ listener' = [listener EXCEPT ![port[m]] = Free]
  /\ UNCHANGED <<loopVars, port, signalled, exc, abandoned>>

CloseLoop(m) ==
  /\ thread[m] = "closing"
  /\ thread' = [thread EXCEPT ![m] = "dead"]
  /\ UNCHANGED <<loopVars, port, signalled, exc, abandoned, listener>>

ThreadStep(m) ==
  PublishLoop(m) \/ ImportSucceeds(m) \/ ThreadFails(m) \/ Bind(m) \/ BindFails(m)
    \/ StopServing(m) \/ CloseLoop(m)

\* Another process takes or gives up a port
ForeignBinds(p) ==
  /\ listener[p] = Free
  /\ listener' = [listener EXCEPT ![p] = Foreign]
  /\ UNCHANGED <<loopVars, thread, port, signalled, exc, abandoned>>

ForeignCloses(p) ==
  /\ listener[p] = Foreign
  /\ listener' = [listener EXCEPT ![p] = Free]
  /\ UNCHANGED <<loopVars, thread, port, signalled, exc, abandoned>>

\* A removed entry whose threads have stopped, or wait for a signal that no
\* one will send, has nothing left to do
Finished ==
  /\ entry = "removed"
  /\ \A m \in Managers : thread[m] \in {"new", "serving", "dead"}
  /\ UNCHANGED vars

-----------------------------------------------------------------------------
BringUpStep ==
  \/ StartThread \/ ThreadFailureSeen \/ SendProbe \/ ProbeFails \/ ProbeAccepted
  \/ DeadlinePasses \/ DeadlineJoinReturns \/ BringUpSucceeds \/ UnknownModeRefused
  \/ RegistrationFails \/ RollbackDone \/ SurfaceFails \/ CancelDelivered

TeardownStep == SessionsClosed \/ JoinReturns

Next ==
  \/ SetupStarts \/ SetupFails \/ SetupSucceeds
  \/ UserUnloads \/ ReloadLoaded \/ ReloadUnloaded \/ UnloadResumes
  \/ UserResumes("remove") \/ (made < MaxManagers /\ UserResumes("run")) \/ RemoveEntry
  \/ \E o \in UserOptions : SaveOptions(o)
  \/ BringUpStep
  \/ TeardownStep
  \/ \E m \in Managers : ThreadStep(m)
  \/ \E p \in ForeignPorts : ForeignBinds(p) \/ ForeignCloses(p)
  \/ Finished

Spec == Init /\ [][Next]_vars

\* The event loop, the executor, the worker threads and the clock all go on.
\* A turn of the readiness loop can always be followed by another, so the
\* deadline needs strong fairness: time passes between the turns.  The set-up
\* lock is first come, first served, so a reload that waits for it is not
\* overtaken for ever by set-ups that fail and are retried.
Fairness ==
  /\ WF_vars(BringUpStep) /\ SF_vars(DeadlinePasses) /\ WF_vars(TeardownStep)
  /\ WF_vars(UnloadResumes) /\ WF_vars(SetupSucceeds \/ SetupFails)
  /\ WF_vars(SetupStarts) /\ SF_vars(ReloadLoaded \/ ReloadUnloaded)
  /\ \A m \in Managers : WF_vars(ThreadStep(m))

FairSpec == Spec /\ Fairness

-----------------------------------------------------------------------------
(* What the life cycle promises.                                           *)

TeardownStates == [at : {"idle", "close", "join"}, for : Callers,
                   of : Managers \cup {NoManager}]
Hooks == [mode : Modes, manager : Managers] \cup {NoHook}
ThreadStates == {"new", "started", "importing", "binding", "serving", "closing", "dead"}

LoopTypes ==
  /\ entry \in {"not_loaded", "setting_up", "loaded", "unloading", "setup_error", "removed"}
  /\ goal \in {"run", "stop", "remove"}
  /\ options \in UserOptions /\ lastOptions \in UserOptions \cup {NoOptions}
  /\ reload \in BOOLEAN /\ cancelling \in BOOLEAN /\ notification \in BOOLEAN
  /\ task \in Pending \cup {"absent", "done"}
  /\ teardown \in TeardownStates
  /\ made \in 0 .. MaxManagers
  /\ manager \in Managers \cup {NoManager}
  /\ hook \in Hooks
  /\ issue \subseteq Kinds

WorkerTypes ==
  /\ thread \in [Managers -> ThreadStates]
  /\ port \in [Managers -> Ports]
  /\ signalled \subseteq Managers
  /\ exc \in [Managers -> Kinds \cup {"none"}]
  /\ abandoned \subseteq Managers
  /\ listener \in [Ports -> Managers \cup {Free, Foreign}]

\* The types of the state, and of what hass.data and the manager hold
TypeOK == LoopTypes /\ WorkerTypes

\* An entry that is not loaded leaves nothing behind on the event loop, however
\* the unload met the bring-up: no registered webhook, no manager, no task, no
\* notification (async_unload_server_entry).
UnloadedIsQuiet ==
  entry \in {"not_loaded", "setting_up", "setup_error", "removed"} =>
    /\ hook = NoHook /\ manager = NoManager
    /\ task = "absent" /\ ~cancelling /\ teardown = Idle
    /\ ~notification /\ lastOptions = NoOptions

\* A registered webhook belongs to the manager in hass.data, whose bring-up is
\* over and whose thread has not been told to stop: async_teardown_server
\* withdraws the webhook first.
RegistrationBacked ==
  hook # NoHook =>
    /\ manager = hook.manager
    /\ task = "done" /\ teardown = Idle
    /\ thread[manager] # "new" /\ manager \notin signalled

\* A worker thread that runs is the current manager's or the one a teardown
\* joins, unless its join timed out or was cancelled: no path of start, failure,
\* cancellation and unload loses a thread in any other way.
NoStrayThread ==
  \A m \in Managers \ abandoned :
    thread[m] \notin {"new", "dead"} =>
      m = manager \/ (teardown.at = "join" /\ teardown.of = m)

\* A repair issue says that the server is down: it is filed after the teardown
\* and cleared before the next manager exists (async_bring_up_server).
IssueMeansDown == issue # {} => manager = NoManager /\ hook = NoHook

\* What is exposed is what the options say, or a reload is on its way: the mode
\* is read after the start and the port before it, and options change between
\* (async_bring_up_server, _async_options_updated).
LiveMatchesOptions ==
  entry = "loaded" /\ hook # NoHook /\ ~reload =>
    hook.mode = options.webhook /\ port[hook.manager] = options.port

\* Nothing is registered once the unload began, though the bring-up it cancels
\* may be one probe away from registering (async_unload_server_entry).
NoRegistrationDuringUnload ==
  [][entry = "unloading" => hook' \in {hook, NoHook}]_vars

\* Every bring-up comes to an end: the readiness loop has a deadline and each
\* failure path ends (_async_wait_until_ready, async_bring_up_server).
BringUpTerminates == task \in Pending ~> task \in {"done", "absent"}

\* Every unload comes to an end, whatever the worker thread does.
UnloadCompletes == entry = "unloading" ~> entry # "unloading"

\* Options saved while the entry was loaded are applied by a reload, or the
\* bound on bring-ups is reached (_async_options_updated).
ReloadHappens == reload ~> ~reload \/ made = MaxManagers

\* A thread whose stop event is set ends, at whatever point of its start it was
\* (_thread_main, _serve).
SignalledThreadDies == \A m \in Managers : m \in signalled ~> thread[m] = "dead"

\* The life cycle seen from outside: EntryContract's state in terms of this one
Phase ==
  CASE entry = "unloading" -> "stopping"
    [] entry = "loaded" /\ task \in Starting -> "starting"
    [] entry = "loaded" /\ task = "cleanup" -> "failing"
    [] entry = "loaded" /\ task = "done" /\ issue # {} -> "failed"
    [] entry = "loaded" /\ task = "done" /\ issue = {} -> "up"
    [] OTHER -> "down"

Contract == INSTANCE EntryContract
              WITH phase <- Phase, exposed <- hook.mode, reported <- issue,
                   Unregistered <- "unregistered"

\* The registrations of the ingress seen from here: IngressTurns' state in terms of
\* this one
Turns == INSTANCE IngressTurns
           WITH mode <- hook.mode, closing <- teardown.at = "close" \/ task = "rollback",
                Unregistered <- "unregistered"

\* Set-up, bring-up, teardown and unload keep the contract of EntryContract, and
\* register the webhook only in turn (IngressTurns): never while sessions of the
\* registration before are being closed, whichever caller closes them
\* (async_bring_up_server, async_teardown_server).
ImplementsContract == Contract!Spec /\ Turns!Spec

\* "Signal the worker thread to shut down and join it": a dropped thread that
\* serves has been told to stop (async_stop).
DroppedWasSignalled == \A m \in abandoned : thread[m] = "serving" => m \in signalled

-----------------------------------------------------------------------------
(* The inductive invariant: the properties above with what ties the entry,  *)
(* the bring-up task, the teardown and the worker thread together.          *)

\* Who runs: the bring-up task exists between set-up and unload; a cancellation
\* is pending only while the unload waits for the task; a teardown has exactly
\* one caller, and its webhook is already withdrawn; no issue is on file while
\* the outcome is open.
OneRunner ==
  /\ entry = "loaded" => task # "absent"
  /\ task # "absent" => entry \in {"loaded", "unloading"}
  /\ cancelling => entry = "unloading" /\ task \in Pending
  /\ task \in Starting /\ ~cancelling => entry = "loaded"
  /\ task = "cleanup" <=> teardown.at # "idle" /\ teardown.for # "unload"
  /\ task = "cleanup" /\ ~cancelling /\ entry = "unloading" => teardown.for = "cancelled"
  /\ task = "cleanup" /\ teardown.for = "cancelled" => entry = "unloading" /\ ~cancelling
  /\ teardown.at = "idle" => teardown = Idle
  /\ teardown.at # "idle" \/ entry = "unloading" => hook = NoHook
  /\ task \in Pending => issue = {}
  /\ teardown.at # "idle" /\ teardown.for = "unload" =>
       entry = "unloading" /\ task = "absent"
  /\ entry = "unloading" /\ task = "absent" => teardown.at # "idle"
  /\ teardown.at = "join" => manager = NoManager /\ teardown.of \in Managers

\* What the manager in hass.data is: the last one built, unsignalled while its
\* bring-up may still register the webhook; later managers are untouched.
LatestManager ==
  /\ manager \in {NoManager, made}
  /\ task \in Starting => manager # NoManager /\ hook = NoHook
  /\ task = "makedirs" => thread[manager] = "new"
  /\ manager # NoManager /\ task # "makedirs" => thread[manager] # "new"
  /\ task \in Starting \ {"deadline"} => manager \notin signalled
  /\ \A m \in Managers : m > made => thread[m] = "new" /\ m \notin signalled

\* The options a loaded entry was set up with are the saved ones unless a
\* reload waits.
SettledOptions ==
  entry = "loaded" /\ ~reload =>
    /\ lastOptions = options
    /\ manager # NoManager => port[manager] = options.port
    /\ hook # NoHook => hook.mode = options.webhook

Structure ==
  /\ UnloadedIsQuiet /\ RegistrationBacked /\ NoStrayThread /\ IssueMeansDown
  /\ OneRunner /\ LatestManager /\ SettledOptions

Inv == TypeOK /\ Structure
=============================================================================
