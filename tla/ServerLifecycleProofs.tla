------------------------ MODULE ServerLifecycleProofs ------------------------
(***************************************************************************)
(* ServerLifecycle keeps its promises for every set of ports and options   *)
(* and any number of bring-ups.  The inductive invariant is Inv: its types *)
(* are shown first, then, action by action, that its Structure survives.   *)
(***************************************************************************)
EXTENDS ServerLifecycle, TLAPS

USE DEF coreVars, threadVars, loopVars, Kinds, Modes, Callers, Starting, Pending, ThreadStates

\* Saved options are option sets: a port, and a webhook mode or the lack of one.
LEMMA OptionTypes ==
  \A o \in UserOptions : o.port \in Ports /\ o.webhook \in Modes \cup {"disabled", "unknown"}
  BY PortsAssumption DEF OptionSets

-----------------------------------------------------------------------------
(* The initial states.                                                      *)

LEMMA InitInv == Init => Inv
<1> SUFFICES ASSUME Init PROVE Inv
  OBVIOUS
<1>1. LoopTypes
  <2>1. teardown \in TeardownStates
    BY DEF Init, TeardownStates, Idle
  <2>2. hook \in Hooks
    BY DEF Init, Hooks
  <2>3. made \in 0 .. MaxManagers
    BY ManagersAssumption DEF Init
  <2> QED
    BY <2>1, <2>2, <2>3 DEF Init, LoopTypes
<1>2. WorkerTypes
  <2>1. port \in [Managers -> Ports]
    BY OptionTypes DEF Init
  <2>2. exc \in [Managers -> Kinds \cup {"none"}]
    BY DEF Init
  <2>3. thread \in [Managers -> ThreadStates]
    BY DEF Init
  <2>4. listener \in [Ports -> Managers \cup {Free, Foreign}]
    BY DEF Init
  <2> QED
    BY <2>1, <2>2, <2>3, <2>4 DEF Init, WorkerTypes
<1>3. Structure
  BY ManagersAssumption
     DEF Init, Structure, UnloadedIsQuiet, RegistrationBacked, NoStrayThread, IssueMeansDown,
         OneRunner, LatestManager, SettledOptions, Managers, NoManager, Idle, NoHook, NoOptions
<1> QED
  BY <1>1, <1>2, <1>3 DEF Inv, TypeOK

-----------------------------------------------------------------------------
(* Types.  The teardown is part of many actions, so what it assigns is typed *)
(* once, for whoever calls it.                                               *)

TeardownTypes ==
  /\ entry' \in {"not_loaded", "setting_up", "loaded", "unloading", "setup_error", "removed"}
  /\ lastOptions' \in UserOptions \cup {NoOptions}
  /\ notification' \in BOOLEAN
  /\ task' \in Pending \cup {"absent", "done"}
  /\ teardown' \in TeardownStates
  /\ issue' \subseteq Kinds

\* The end of a teardown.
LEMMA ReturnTypes ==
  ASSUME LoopTypes, NEW caller \in Callers, ReturnTo(caller) PROVE TeardownTypes
  BY DEF LoopTypes, ReturnTo, TeardownTypes, TeardownStates, Idle

\* An await of a teardown.
LEMMA SuspendTypes ==
  ASSUME LoopTypes, NEW caller \in Callers, NEW stage \in {"close", "join"},
         NEW m \in Managers \cup {NoManager}, SuspendAt(stage, caller, m)
  PROVE TeardownTypes
  BY DEF LoopTypes, SuspendAt, TeardownTypes, TeardownStates

\* The manager is popped and stopped.
LEMMA StopTypes ==
  ASSUME TypeOK, NEW caller \in Callers, StopManager(caller)
  PROVE TeardownTypes /\ manager' = NoManager /\ signalled' \subseteq Managers
<1>1. CASE manager # NoManager /\ thread[manager] # "new"
  <2>1. manager \in Managers
    BY <1>1 DEF TypeOK, LoopTypes
  <2>2. TeardownTypes
    BY <1>1, <2>1, SuspendTypes DEF StopManager, TypeOK
  <2> QED
    BY <1>1, <2>1, <2>2 DEF StopManager, Signal, TypeOK, WorkerTypes
<1>2. CASE ~(manager # NoManager /\ thread[manager] # "new")
  BY <1>2, ReturnTypes DEF StopManager, TypeOK, WorkerTypes
<1> QED
  BY <1>1, <1>2

\* The webhook is withdrawn, and the manager too if there was none.
LEMMA BeginTypes ==
  ASSUME TypeOK, NEW caller \in Callers, BeginTeardown(caller)
  PROVE /\ TeardownTypes /\ signalled' \subseteq Managers
        /\ manager' \in Managers \cup {NoManager} /\ hook' \in Hooks
<1>0. NoHook \in Hooks
  BY DEF Hooks
<1>1. CASE hook # NoHook
  <2>1. TeardownTypes
    BY <1>1, SuspendTypes DEF BeginTeardown, TypeOK
  <2> QED
    BY <1>0, <1>1, <2>1 DEF BeginTeardown, TypeOK, LoopTypes, WorkerTypes
<1>2. CASE hook = NoHook
  BY <1>0, <1>2, StopTypes DEF BeginTeardown
<1> QED
  BY <1>1, <1>2

\* The unload runs the teardown at once or leaves it to the cancelled task.
LEMMA UnloadTypes ==
  ASSUME TypeOK, NEW g \in {"run", "stop", "remove"}, UnloadEntry(g), reload' \in BOOLEAN
  PROVE TypeOK'
<1>1. CASE task \in Pending
  <2>1. LoopTypes'
    BY <1>1 DEF UnloadEntry, TypeOK, LoopTypes
  <2>2. WorkerTypes'
    BY <1>1 DEF UnloadEntry, TypeOK, WorkerTypes
  <2> QED
    BY <2>1, <2>2 DEF TypeOK
<1>2. CASE task = "done"
  <2>1. BeginTeardown("unload")
    BY <1>2 DEF UnloadEntry
  <2>2. LoopTypes'
    BY <2>1, <1>2, BeginTypes DEF UnloadEntry, TypeOK, LoopTypes, TeardownTypes
  <2>3. WorkerTypes'
    BY <2>1, <1>2, BeginTypes DEF UnloadEntry, TypeOK, WorkerTypes
  <2> QED
    BY <2>2, <2>3 DEF TypeOK
<1> QED
  BY <1>1, <1>2 DEF UnloadEntry

\* Every step keeps the types of what lives on the event loop.
LEMMA LoopTypeStep == Inv /\ [Next]_vars => LoopTypes'
<1> SUFFICES ASSUME Inv, [Next]_vars PROVE LoopTypes'
  OBVIOUS
<1>0. TypeOK /\ LoopTypes /\ WorkerTypes
  BY DEF Inv, TypeOK
<1>1. CASE SetupStarts
  BY <1>1, <1>0 DEF SetupStarts, LoopTypes
<1>2. CASE SetupFails
  BY <1>2, <1>0 DEF SetupFails, LoopTypes
<1>3. CASE SetupSucceeds
  BY <1>3, <1>0, ManagersAssumption DEF SetupSucceeds, LoopTypes, Managers, NoManager
<1>4. CASE UserUnloads
  BY <1>4, <1>0, UnloadTypes DEF UserUnloads, TypeOK, LoopTypes
<1>5. CASE ReloadLoaded
  BY <1>5, <1>0, UnloadTypes DEF ReloadLoaded, TypeOK
<1>6. CASE ReloadUnloaded
  BY <1>6, <1>0 DEF ReloadUnloaded, LoopTypes
<1>7. CASE RemoveEntry
  BY <1>7, <1>0 DEF RemoveEntry, LoopTypes
<1>8. CASE StartThread
  BY <1>8, <1>0 DEF StartThread, LoopTypes
<1>9. CASE SendProbe
  BY <1>9, <1>0 DEF SendProbe, LoopTypes
<1>10. CASE ProbeFails \/ ProbeAccepted
  BY <1>10, <1>0 DEF ProbeFails, ProbeAccepted, LoopTypes
<1>11. CASE DeadlinePasses
  BY <1>11, <1>0 DEF DeadlinePasses, LoopTypes
<1>12. CASE RegistrationFails
  BY <1>12, <1>0 DEF RegistrationFails, LoopTypes
<1>13. CASE UnloadResumes
  <2>1. BeginTeardown("unload")
    BY <1>13 DEF UnloadResumes
  <2> QED
    BY <1>13, <1>0, <2>1, BeginTypes DEF UnloadResumes, LoopTypes, TeardownTypes
<1>14. CASE ThreadFailureSeen
  <2>1. PICK k \in Kinds : BeginTeardown(k)
    <3>1. manager \in Managers /\ exc[manager] \in Kinds \cup {"none"}
      BY <1>14, <1>0 DEF ThreadFailureSeen, Inv, Structure, LatestManager, LoopTypes, WorkerTypes
    <3> QED
      BY <1>14, <3>1 DEF ThreadFailureSeen
  <2> QED
    BY <1>14, <1>0, <2>1, BeginTypes DEF ThreadFailureSeen, LoopTypes, TeardownTypes
<1>15. CASE UnknownModeRefused
  <2>1. BeginTeardown("start")
    BY <1>15 DEF UnknownModeRefused
  <2> QED
    BY <1>15, <1>0, <2>1, BeginTypes DEF UnknownModeRefused, LoopTypes, TeardownTypes
<1>16. CASE RollbackDone
  <2>1. BeginTeardown("start")
    BY <1>16 DEF RollbackDone
  <2> QED
    BY <1>16, <1>0, <2>1, BeginTypes DEF RollbackDone, LoopTypes, TeardownTypes
<1>17. CASE SurfaceFails
  <2>1. /\ TeardownTypes /\ signalled' \subseteq Managers
        /\ manager' \in Managers \cup {NoManager}
    BY <1>17, <1>0, SuspendTypes, StopTypes DEF SurfaceFails, Accepted, LoopTypes, WorkerTypes
  <2> QED
    BY <1>17, <1>0, <2>1 DEF SurfaceFails, LoopTypes, TeardownTypes
<1>18. CASE BringUpSucceeds
  <2>1. manager \in Managers
    BY <1>18, <1>0 DEF BringUpSucceeds, Accepted, Inv, Structure, LatestManager, LoopTypes
  <2>2. options.webhook \in Modes \/ options.webhook = "disabled"
    BY <1>18, <1>0, OptionTypes DEF BringUpSucceeds, LoopTypes
  <2>3. hook' \in Hooks
    BY <1>18, <2>1, <2>2 DEF BringUpSucceeds, Hooks
  <2> QED
    BY <1>18, <1>0, <2>3 DEF BringUpSucceeds, LoopTypes
<1>19. CASE CancelDelivered
  <2>1. CASE task \in Starting
    <3>1. BeginTeardown("cancelled")
      BY <1>19, <2>1 DEF CancelDelivered
    <3> QED
      BY <1>19, <1>0, <3>1, BeginTypes DEF CancelDelivered, LoopTypes, TeardownTypes
  <2>2. CASE task = "cleanup"
    <3>1. teardown' \in TeardownStates
      BY <1>19, <2>2 DEF CancelDelivered, TeardownStates, Idle
    <3> QED
      BY <1>19, <1>0, <2>2, <3>1 DEF CancelDelivered, LoopTypes
  <2> QED
    BY <1>19, <2>1, <2>2 DEF CancelDelivered
<1>20. CASE SessionsClosed
  <2>1. teardown.for \in Callers
    BY <1>0 DEF LoopTypes, TeardownStates
  <2> QED
    BY <1>20, <1>0, <2>1, StopTypes DEF SessionsClosed, LoopTypes, TeardownTypes
<1>21. CASE JoinReturns
  <2>1. teardown.for \in Callers
    BY <1>0 DEF LoopTypes, TeardownStates
  <2> QED
    BY <1>21, <1>0, <2>1, ReturnTypes DEF JoinReturns, LoopTypes, TeardownTypes
<1>22. CASE DeadlineJoinReturns
  BY <1>22, <1>0, ReturnTypes DEF DeadlineJoinReturns, LoopTypes, TeardownTypes
<1>23. CASE UserResumes("remove") \/ (made < MaxManagers /\ UserResumes("run"))
  BY <1>23, <1>0 DEF UserResumes, LoopTypes
<1>24. CASE \E o \in UserOptions : SaveOptions(o)
  BY <1>24, <1>0 DEF SaveOptions, LoopTypes
<1>25. CASE \E m \in Managers : ThreadStep(m)
  <2>1. UNCHANGED loopVars
    BY <1>25 DEF ThreadStep, PublishLoop, ImportSucceeds, ThreadFails, Bind,
          BindFails, StopServing, CloseLoop
  <2> QED
    BY <1>0, <2>1 DEF LoopTypes
<1>26. CASE \E p \in ForeignPorts : ForeignBinds(p) \/ ForeignCloses(p)
  <2>1. UNCHANGED loopVars
    BY <1>26 DEF ForeignBinds, ForeignCloses
  <2> QED
    BY <1>0, <2>1 DEF LoopTypes
<1>27. CASE Finished
  BY <1>27, <1>0 DEF Finished, vars, LoopTypes
<1>28. CASE UNCHANGED vars
  BY <1>28, <1>0 DEF vars, LoopTypes
<1> QED
  BY <1>1, <1>2, <1>3, <1>4, <1>5, <1>6, <1>7, <1>8, <1>9, <1>10, <1>11, <1>12, <1>13,
     <1>14, <1>15, <1>16, <1>17, <1>18, <1>19, <1>20, <1>21, <1>22, <1>23, <1>24, <1>25,
     <1>26, <1>27, <1>28
     DEF Next, BringUpStep, TeardownStep

\* Every step keeps the types of the worker threads and the ports.
LEMMA WorkerTypeStep == Inv /\ [Next]_vars => WorkerTypes'
<1> SUFFICES ASSUME Inv, [Next]_vars PROVE WorkerTypes'
  OBVIOUS
<1>0. TypeOK /\ LoopTypes /\ WorkerTypes
  BY DEF Inv, TypeOK
<1>1. CASE SetupStarts \/ SetupFails \/ ReloadUnloaded \/ RemoveEntry
  BY <1>1, <1>0 DEF SetupStarts, SetupFails, ReloadUnloaded, RemoveEntry, WorkerTypes
<1>2. CASE SendProbe \/ ProbeFails \/ ProbeAccepted \/ BringUpSucceeds \/ RegistrationFails
  BY <1>2, <1>0 DEF SendProbe, ProbeFails, ProbeAccepted, BringUpSucceeds, RegistrationFails, WorkerTypes
<1>3. CASE SetupSucceeds
  BY <1>3, <1>0, OptionTypes DEF SetupSucceeds, LoopTypes, WorkerTypes
<1>4. CASE UserUnloads
  BY <1>4, <1>0, UnloadTypes DEF UserUnloads, TypeOK, LoopTypes
<1>5. CASE ReloadLoaded
  BY <1>5, <1>0, UnloadTypes DEF ReloadLoaded, TypeOK
<1>6. CASE StartThread
  BY <1>6, <1>0 DEF StartThread, WorkerTypes
<1>7. CASE DeadlinePasses
  <2>1. manager \in Managers
    BY <1>7, <1>0 DEF DeadlinePasses, Inv, Structure, LatestManager, LoopTypes
  <2> QED
    BY <1>7, <1>0, <2>1 DEF DeadlinePasses, Signal, WorkerTypes
<1>8. CASE UnloadResumes
  <2>1. BeginTeardown("unload")
    BY <1>8 DEF UnloadResumes
  <2> QED
    BY <1>8, <1>0, <2>1, BeginTypes DEF UnloadResumes, WorkerTypes
<1>9. CASE ThreadFailureSeen
  <2>1. PICK k \in Kinds : BeginTeardown(k)
    <3>1. manager \in Managers /\ exc[manager] \in Kinds \cup {"none"}
      BY <1>9, <1>0 DEF ThreadFailureSeen, Inv, Structure, LatestManager, LoopTypes, WorkerTypes
    <3> QED
      BY <1>9, <3>1 DEF ThreadFailureSeen
  <2> QED
    BY <1>9, <1>0, <2>1, BeginTypes DEF ThreadFailureSeen, WorkerTypes
<1>10. CASE UnknownModeRefused
  <2>1. BeginTeardown("start")
    BY <1>10 DEF UnknownModeRefused
  <2> QED
    BY <1>10, <1>0, <2>1, BeginTypes DEF UnknownModeRefused, WorkerTypes
<1>11. CASE RollbackDone
  <2>1. BeginTeardown("start")
    BY <1>11 DEF RollbackDone
  <2> QED
    BY <1>11, <1>0, <2>1, BeginTypes DEF RollbackDone, WorkerTypes
<1>12. CASE SurfaceFails
  <2>1. /\ TeardownTypes /\ signalled' \subseteq Managers
        /\ manager' \in Managers \cup {NoManager}
    BY <1>12, <1>0, SuspendTypes, StopTypes DEF SurfaceFails, Accepted, LoopTypes, WorkerTypes
  <2> QED
    BY <1>12, <1>0, <2>1 DEF SurfaceFails, WorkerTypes
<1>13. CASE CancelDelivered
  <2>1. CASE task \in Starting
    <3>1. BeginTeardown("cancelled")
      BY <1>13, <2>1 DEF CancelDelivered
    <3> QED
      BY <1>13, <1>0, <2>1, <3>1, BeginTypes DEF CancelDelivered, WorkerTypes
  <2>2. CASE task = "cleanup"
    <3>1. teardown.at = "join" => teardown.of \in Managers
      BY DEF Inv, Structure, OneRunner
    <3> QED
      BY <1>13, <1>0, <2>2, <3>1 DEF CancelDelivered, WorkerTypes
  <2> QED
    BY <1>13, <2>1, <2>2 DEF CancelDelivered
<1>14. CASE SessionsClosed
  <2>1. teardown.for \in Callers
    BY <1>0 DEF LoopTypes, TeardownStates
  <2> QED
    BY <1>14, <1>0, <2>1, StopTypes DEF SessionsClosed, WorkerTypes
<1>15. CASE JoinReturns
  <2>1. teardown.of \in Managers
    BY <1>15 DEF JoinReturns, Inv, Structure, OneRunner
  <2> QED
    BY <1>15, <1>0, <2>1 DEF JoinReturns, Drop, WorkerTypes
<1>16. CASE DeadlineJoinReturns
  <2>1. manager \in Managers
    BY <1>16, <1>0 DEF DeadlineJoinReturns, Inv, Structure, LatestManager, LoopTypes
  <2> QED
    BY <1>16, <1>0, <2>1 DEF DeadlineJoinReturns, Drop, WorkerTypes
<1>17. CASE UserResumes("remove") \/ (made < MaxManagers /\ UserResumes("run"))
  BY <1>17, <1>0 DEF UserResumes, WorkerTypes
<1>18. CASE \E o \in UserOptions : SaveOptions(o)
  BY <1>18, <1>0 DEF SaveOptions, WorkerTypes
<1>19. CASE \E m \in Managers : ThreadStep(m)
  <2>1. PICK m \in Managers : ThreadStep(m)
    BY <1>19
  <2>2. CASE ThreadFails(m)
    <3>1. exc' \in [Managers -> Kinds \cup {"none"}]
      BY <1>0, <2>2 DEF ThreadFails, WorkerTypes
    <3> QED
      BY <1>0, <2>2, <3>1 DEF ThreadFails, WorkerTypes
  <2>3. CASE PublishLoop(m) \/ ImportSucceeds(m) \/ BindFails(m) \/ CloseLoop(m)
    BY <1>0, <2>3 DEF PublishLoop, ImportSucceeds, BindFails, CloseLoop, WorkerTypes
  <2>4. CASE Bind(m)
    BY <1>0, <2>4 DEF Bind, WorkerTypes
  <2>5. CASE StopServing(m)
    BY <1>0, <2>5 DEF StopServing, WorkerTypes
  <2> QED
    BY <2>1, <2>2, <2>3, <2>4, <2>5 DEF ThreadStep
<1>20. CASE \E p \in ForeignPorts : ForeignBinds(p) \/ ForeignCloses(p)
  BY <1>20, <1>0 DEF ForeignBinds, ForeignCloses, WorkerTypes
<1>21. CASE Finished
  BY <1>21, <1>0 DEF Finished, vars, WorkerTypes
<1>22. CASE UNCHANGED vars
  BY <1>22, <1>0 DEF vars, WorkerTypes
<1> QED
  BY <1>1, <1>2, <1>3, <1>4, <1>5, <1>6, <1>7, <1>8, <1>9, <1>10, <1>11, <1>12, <1>13,
     <1>14, <1>15, <1>16, <1>17, <1>18, <1>19, <1>20, <1>21, <1>22
     DEF Next, BringUpStep, TeardownStep

-----------------------------------------------------------------------------
(* The structure, one step per action of Next.                              *)

USE ManagersAssumption
    DEF Managers, NoManager, Idle, NoHook, NoOptions, LoopPublished, Hooks, TeardownStates,
        Structure, UnloadedIsQuiet, RegistrationBacked, NoStrayThread, IssueMeansDown,
        OneRunner, LatestManager, SettledOptions, TypeOK, LoopTypes, WorkerTypes

\* The unload of a loaded entry.
LEMMA UnloadStructure ==
  ASSUME Inv, NEW g \in {"run", "stop", "remove"}, UnloadEntry(g) PROVE Structure'
<1>0. TypeOK /\ Structure
  BY DEF Inv
<1>1. CASE task \in Pending
  <2>1. /\ entry = "loaded" /\ entry' = "unloading" /\ cancelling' = TRUE
        /\ UNCHANGED <<lastOptions, task, teardown, manager, hook, issue, notification, signalled,
                       made, abandoned, threadVars>>
    BY <1>1 DEF UnloadEntry
  <2> QED
    BY <1>0, <1>1, <2>1
<1>2. CASE task = "done"
  <2>1. /\ BeginTeardown("unload") /\ entry = "loaded"
        /\ UNCHANGED <<made, abandoned, threadVars, cancelling>>
    BY <1>2 DEF UnloadEntry
  <2> QED
    BY <1>0, <1>2, <2>1 DEF BeginTeardown, StopManager, SuspendAt, ReturnTo, Signal
<1> QED
  BY <1>1, <1>2 DEF UnloadEntry

\* Every step keeps the parts of the invariant that tie the components together.
LEMMA StructureStep == Inv /\ [Next]_vars => Structure'
<1> SUFFICES ASSUME Inv, [Next]_vars PROVE Structure'
  OBVIOUS
<1>0. TypeOK /\ Structure
  BY DEF Inv
<1>1. CASE SetupStarts
  BY <1>1, <1>0 DEF SetupStarts
<1>2. CASE SetupFails
  BY <1>2, <1>0 DEF SetupFails
<1>3. CASE SetupSucceeds
  BY <1>3, <1>0 DEF SetupSucceeds
<1>4. CASE UserUnloads
  BY <1>4, UnloadStructure DEF UserUnloads
<1>5. CASE ReloadLoaded
  BY <1>5, UnloadStructure DEF ReloadLoaded
<1>6. CASE UnloadResumes
  BY <1>6, <1>0 DEF UnloadResumes, BeginTeardown, StopManager,
          SuspendAt, ReturnTo, Signal
<1>7. CASE ReloadUnloaded
  BY <1>7, <1>0 DEF ReloadUnloaded
<1>8. CASE RemoveEntry
  BY <1>8, <1>0 DEF RemoveEntry
<1>9. CASE StartThread
  BY <1>9, <1>0 DEF StartThread
<1>10. CASE SendProbe
  BY <1>10, <1>0 DEF SendProbe
<1>11. CASE ProbeFails \/ ProbeAccepted
  BY <1>11, <1>0 DEF ProbeFails, ProbeAccepted
<1>12. CASE DeadlinePasses
  BY <1>12, <1>0 DEF DeadlinePasses, Signal
<1>13. CASE DeadlineJoinReturns
  BY <1>13, <1>0 DEF DeadlineJoinReturns, ReturnTo, Drop
<1>14. CASE BringUpSucceeds
  BY <1>14, <1>0 DEF BringUpSucceeds, Accepted
<1>15. CASE RegistrationFails
  BY <1>15, <1>0 DEF RegistrationFails, Accepted
<1>16. CASE ThreadFailureSeen
  <2>1. PICK k \in Kinds : BeginTeardown(k)
    <3>1. manager \in Managers /\ exc[manager] \in Kinds \cup {"none"}
      BY <1>16, <1>0 DEF ThreadFailureSeen
    <3> QED
      BY <1>16, <3>1 DEF ThreadFailureSeen
  <2> QED
    BY <1>16, <1>0, <2>1 DEF ThreadFailureSeen, BeginTeardown, StopManager,
          SuspendAt, ReturnTo, Signal
<1>17. CASE UnknownModeRefused
  BY <1>17, <1>0 DEF UnknownModeRefused, Accepted, BeginTeardown, StopManager,
          SuspendAt, ReturnTo, Signal
<1>18. CASE RollbackDone
  BY <1>18, <1>0 DEF RollbackDone, BeginTeardown, StopManager,
          SuspendAt, ReturnTo, Signal
<1>19. CASE SurfaceFails
  BY <1>19, <1>0 DEF SurfaceFails, Accepted, StopManager, SuspendAt, ReturnTo, Signal
<1>20. CASE CancelDelivered
  BY <1>20, <1>0 DEF CancelDelivered, BeginTeardown, StopManager,
          SuspendAt, ReturnTo, Signal
<1>21. CASE SessionsClosed
  BY <1>21, <1>0 DEF SessionsClosed, StopManager, SuspendAt, ReturnTo, Signal
<1>22. CASE JoinReturns
  BY <1>22, <1>0 DEF JoinReturns, ReturnTo, Drop
<1>23. CASE UserResumes("remove") \/ (made < MaxManagers /\ UserResumes("run"))
  BY <1>23, <1>0 DEF UserResumes
<1>24. CASE \E o \in UserOptions : SaveOptions(o)
  <2>1. PICK o \in UserOptions : SaveOptions(o)
    BY <1>24
  <2>2. UNCHANGED <<entry, goal, lastOptions, task, cancelling, teardown, made, manager, hook,
                    issue, notification, signalled, abandoned, threadVars>>
    BY <2>1 DEF SaveOptions
  <2>3. entry = "loaded" /\ ~reload' => ~reload /\ options' = options
    BY <1>0, <2>1 DEF SaveOptions
  <2>4. SettledOptions'
    BY <1>0, <2>2, <2>3
  <2> QED
    BY <1>0, <2>2, <2>4
<1>25. CASE \E m \in Managers : ThreadStep(m)
  <2>1. PICK m \in Managers : ThreadStep(m)
    BY <1>25
  <2>2. /\ UNCHANGED <<loopVars, port, signalled, abandoned>>
        /\ thread[m] \notin {"new", "dead"} /\ thread' = [thread EXCEPT ![m] = thread'[m]]
        /\ thread'[m] # "new"
    BY <1>0, <2>1 DEF ThreadStep, PublishLoop, ImportSucceeds, ThreadFails, Bind,
          BindFails, StopServing, CloseLoop
  <2> QED
    BY <1>0, <2>2
<1>26. CASE \E p \in ForeignPorts : ForeignBinds(p) \/ ForeignCloses(p)
  <2>1. UNCHANGED <<loopVars, thread, port, signalled, abandoned>>
    BY <1>26 DEF ForeignBinds, ForeignCloses
  <2> QED
    BY <1>0, <2>1
<1>27. CASE Finished
  BY <1>27, <1>0 DEF Finished, vars
<1>28. CASE UNCHANGED vars
  BY <1>28, <1>0 DEF vars
<1> QED
  BY <1>1, <1>2, <1>3, <1>4, <1>5, <1>6, <1>7, <1>8, <1>9, <1>10, <1>11, <1>12, <1>13,
     <1>14, <1>15, <1>16, <1>17, <1>18, <1>19, <1>20, <1>21, <1>22, <1>23, <1>24, <1>25,
     <1>26, <1>27, <1>28
     DEF Next, BringUpStep, TeardownStep

\* The invariant is inductive.
LEMMA NextInv == Inv /\ [Next]_vars => Inv'
  BY LoopTypeStep, WorkerTypeStep, StructureStep DEF Inv, TypeOK

-----------------------------------------------------------------------------
(* The theorems.                                                            *)

\* The invariant holds in every state of the life cycle.
THEOREM Invariance == Spec => []Inv
<1>1. Init => Inv
  BY InitInv
<1>2. Inv /\ [Next]_vars => Inv'
  BY NextInv
<1> QED
  BY <1>1, <1>2, PTL DEF Spec

\* hass.data, the entry and the managers hold values of their types, whatever
\* the interleaving of the loop, the threads and the user (embedded_setup.py).
THEOREM TypeCorrect == Spec => []TypeOK
<1>1. Inv => TypeOK
  BY DEF Inv
<1> QED
  BY <1>1, Invariance, PTL

\* An unloaded entry left no webhook, manager, task or notification behind
\* (async_unload_server_entry).
THEOREM UnloadIsClean == Spec => []UnloadedIsQuiet
<1>1. Inv => UnloadedIsQuiet
  BY DEF Inv
<1> QED
  BY <1>1, Invariance, PTL

\* A registered webhook forwards to the current manager, whose thread has not
\* been told to stop (async_teardown_server).
THEOREM RegistrationIsBacked == Spec => []RegistrationBacked
<1>1. Inv => RegistrationBacked
  BY DEF Inv
<1> QED
  BY <1>1, Invariance, PTL

\* No worker thread is lost except by a join that timed out or was cancelled.
THEOREM ThreadsAreOwned == Spec => []NoStrayThread
<1>1. Inv => NoStrayThread
  BY DEF Inv
<1> QED
  BY <1>1, Invariance, PTL

\* A repair issue on file means that no server is up (async_bring_up_server).
THEOREM IssuesAreCurrent == Spec => []IssueMeansDown
<1>1. Inv => IssueMeansDown
  BY DEF Inv
<1> QED
  BY <1>1, Invariance, PTL

\* What is exposed agrees with the saved options unless a reload waits
\* (_async_options_updated).
THEOREM ExposureFollowsOptions == Spec => []LiveMatchesOptions
<1>1. Inv => LiveMatchesOptions
  BY DEF Inv, LiveMatchesOptions
<1> QED
  BY <1>1, Invariance, PTL

\* No webhook is registered once the unload of the entry began.
THEOREM UnloadIsFinal == Spec => NoRegistrationDuringUnload
<1>1. ASSUME Inv, [Next]_vars
      PROVE [entry = "unloading" => hook' \in {hook, NoHook}]_vars
  <2>0. TypeOK /\ Structure
    BY <1>1 DEF Inv
  <2>1. CASE BringUpSucceeds
    BY <2>0, <2>1 DEF BringUpSucceeds, Accepted
  <2>2. CASE [Next /\ ~BringUpSucceeds]_vars
    <3>1. hook' \in {hook, NoHook}
      BY <2>2 DEF vars, Next, BringUpStep, TeardownStep, SetupStarts, SetupFails, SetupSucceeds,
            UserUnloads, ReloadLoaded, ReloadUnloaded, UnloadResumes, RemoveEntry, UserResumes,
            SaveOptions, StartThread, ThreadFailureSeen, SendProbe, ProbeFails,
            ProbeAccepted, DeadlinePasses, DeadlineJoinReturns, UnknownModeRefused, RegistrationFails, RollbackDone,
            SurfaceFails, CancelDelivered, SessionsClosed, JoinReturns, ThreadStep, PublishLoop,
            ImportSucceeds, ThreadFails, Bind, BindFails, StopServing, CloseLoop, ForeignBinds,
            ForeignCloses, Finished, UnloadEntry, BeginTeardown
    <3> QED
      BY <3>1
  <2> QED
    BY <1>1, <2>1, <2>2
<1>2. Inv /\ [Next]_vars => [entry = "unloading" => hook' \in {hook, NoHook}]_vars
  BY <1>1
<1> QED
  BY <1>2, Invariance, PTL DEF Spec, NoRegistrationDuringUnload

-----------------------------------------------------------------------------
(* The contract.                                                            *)

\* Phase in each situation of the entry, before and after a step.
LEMMA PhaseCases ==
  /\ entry = "unloading" => Phase = "stopping"
  /\ entry = "loaded" /\ task \in Starting => Phase = "starting"
  /\ entry = "loaded" /\ task = "cleanup" => Phase = "failing"
  /\ entry = "loaded" /\ task = "done" /\ issue # {} => Phase = "failed"
  /\ entry = "loaded" /\ task = "done" /\ issue = {} => Phase = "up"
  /\ entry \notin {"unloading", "loaded"} => Phase = "down"
  BY DEF Phase

LEMMA NextPhaseCases ==
  /\ entry' = "unloading" => Phase' = "stopping"
  /\ entry' = "loaded" /\ task' \in Starting => Phase' = "starting"
  /\ entry' = "loaded" /\ task' = "cleanup" => Phase' = "failing"
  /\ entry' = "loaded" /\ task' = "done" /\ issue' # {} => Phase' = "failed"
  /\ entry' = "loaded" /\ task' = "done" /\ issue' = {} => Phase' = "up"
  /\ entry' \notin {"unloading", "loaded"} => Phase' = "down"
  BY DEF Phase

LEMMA ContractInit == Init => Contract!Init
<1> SUFFICES ASSUME Init PROVE Contract!Init
  OBVIOUS
<1>1. Phase = "down"
  BY PhaseCases DEF Init
<1>2. hook.mode = "unregistered"
  BY DEF Init
<1> QED
  BY <1>1, <1>2 DEF Init, Contract!Init

\* A step that leaves the entry, the task, the issues and the webhook alone.
LEMMA ContractStutter ==
  ASSUME UNCHANGED <<entry, task, issue, hook>> PROVE UNCHANGED Contract!vars
  BY DEF Contract!vars, Phase

\* A stop in any phase but "down".
LEMMA ContractStop ==
  ASSUME Inv, entry = "loaded", entry' \in {"unloading", "not_loaded"},
         hook' = NoHook, issue' = issue
  PROVE Contract!Stop
<1>1. Phase \in {"starting", "up", "failing", "failed"}
  BY PhaseCases DEF Inv
<1>2. Phase' \in {"stopping", "down"}
  BY NextPhaseCases
<1> QED
  BY <1>1, <1>2 DEF Contract!Stop

\* A step of an unload: the entry stays in it or is unloaded.
LEMMA ContractUnloading ==
  ASSUME entry = "unloading", entry' \in {"unloading", "not_loaded"},
         hook = NoHook, hook' = NoHook, issue' = issue
  PROVE [Contract!Next]_(Contract!vars)
<1>1. Phase = "stopping" /\ Phase' \in {"stopping", "down"}
  BY PhaseCases, NextPhaseCases
<1> QED
  BY <1>1 DEF Contract!Next, Contract!Stopped, Contract!vars

\* A failing bring-up of a loaded entry: it goes on, or its end is reported.
LEMMA ContractFailing ==
  ASSUME Inv, entry = "loaded", entry' = "loaded", task \in Starting \cup {"cleanup"},
         hook = NoHook, hook' = NoHook,
         \/ task' = "cleanup" /\ issue' = issue
         \/ task' = "done" /\ \E k \in Kinds : issue' = {k}
  PROVE [Contract!Next]_(Contract!vars)
<1>1. Phase \in {"starting", "failing"} /\ (task = "cleanup" => Phase = "failing")
       /\ (task \in Starting => Phase = "starting")
  BY PhaseCases
<1>2. CASE task' = "cleanup" /\ issue' = issue
  <2>1. Phase' = "failing"
    BY <1>2, NextPhaseCases
  <2> QED
    BY <1>1, <1>2, <2>1 DEF Contract!Next, Contract!StartFails, Contract!vars
<1>3. CASE task' = "done" /\ \E k \in Kinds : issue' = {k}
  <2>1. Phase' = "failed"
    BY <1>3, NextPhaseCases
  <2> QED
    BY <1>1, <1>3, <2>1 DEF Contract!Next, Contract!Report
<1> QED
  BY <1>2, <1>3

\* The effect of the teardown of a failing bring-up on what the contract sees.
LEMMA FailureEffect ==
  ASSUME NEW k \in Kinds, issue = {}, hook = NoHook,
         BeginTeardown(k)
  PROVE /\ entry' = entry /\ hook' = NoHook
        /\ \/ task' = "cleanup" /\ issue' = issue
           \/ task' = "done" /\ issue' = {k}
  BY DEF BeginTeardown, StopManager, SuspendAt, ReturnTo

\* The effect of the teardown in an unload.
LEMMA UnloadEffect ==
  ASSUME BeginTeardown("unload")
  PROVE entry' \in {"unloading", "not_loaded"} /\ hook' = NoHook /\ issue' = issue
  BY DEF BeginTeardown, StopManager, SuspendAt, ReturnTo

LEMMA ContractStep == Inv /\ [Next]_vars => [Contract!Next]_(Contract!vars)
<1> SUFFICES ASSUME Inv, [Next]_vars PROVE [Contract!Next]_(Contract!vars)
  OBVIOUS
<1>0. TypeOK /\ Structure
  BY DEF Inv
<1>1. CASE SetupStarts \/ SetupFails
  <2>1. Phase = "down" /\ Phase' = "down"
    BY <1>1, PhaseCases, NextPhaseCases DEF SetupStarts, SetupFails
  <2> QED
    BY <1>1, <2>1 DEF SetupStarts, SetupFails, Contract!vars
<1>2. CASE SetupSucceeds
  <2>1. Phase = "down" /\ Phase' = "starting"
    BY <1>2, PhaseCases, NextPhaseCases DEF SetupSucceeds
  <2> QED
    BY <1>2, <2>1 DEF SetupSucceeds, Contract!Next, Contract!Start
<1>3. CASE UserUnloads \/ ReloadLoaded
  <2>1. PICK g \in {"run", "stop", "remove"} : UnloadEntry(g)
    BY <1>3 DEF UserUnloads, ReloadLoaded
  <2>2. CASE task \in Pending
    <3>1. hook = NoHook
      BY <1>0, <2>2
    <3> QED
      BY <2>1, <2>2, <3>1, ContractStop DEF UnloadEntry, Contract!Next
  <2>3. CASE task = "done"
    <3>1. BeginTeardown("unload") /\ entry = "loaded"
      BY <2>1, <2>3 DEF UnloadEntry
    <3> QED
      BY <3>1, UnloadEffect, ContractStop DEF Contract!Next
  <2> QED
    BY <2>1, <2>2, <2>3 DEF UnloadEntry
<1>4. CASE UnloadResumes
  <2>2. entry = "unloading" /\ BeginTeardown("unload")
    BY <1>4 DEF UnloadResumes
  <2>3. entry' \in {"unloading", "not_loaded"} /\ hook' = NoHook /\ issue' = issue
    BY <2>2, UnloadEffect
  <2>4. hook = NoHook
    BY <1>4, <1>0 DEF UnloadResumes
  <2> QED
    BY <2>2, <2>3, <2>4, ContractUnloading
<1>5. CASE ReloadUnloaded \/ UserResumes("remove") \/ (made < MaxManagers /\ UserResumes("run"))
  <2>1. Phase = "down" /\ Phase' = "down" /\ UNCHANGED <<hook, issue>>
    BY <1>5, PhaseCases, NextPhaseCases DEF ReloadUnloaded, UserResumes
  <2> QED
    BY <2>1 DEF Contract!vars
<1>6. CASE RemoveEntry
  <2>1. Phase = "down" /\ Phase' = "down" /\ UNCHANGED hook /\ issue' = {}
    BY <1>6, PhaseCases, NextPhaseCases DEF RemoveEntry
  <2> QED
    BY <2>1 DEF Contract!Next, Contract!Forget
<1>7. CASE \E o \in UserOptions : SaveOptions(o)
  BY <1>7, ContractStutter DEF SaveOptions
<1>8. CASE StartThread \/ SendProbe \/ ProbeFails \/ ProbeAccepted \/ DeadlinePasses
           \/ RegistrationFails
  <2>1. /\ task \in Starting /\ task' \in Starting /\ ~cancelling
        /\ UNCHANGED <<entry, hook, issue>>
    BY <1>8 DEF StartThread, SendProbe, ProbeFails, ProbeAccepted, DeadlinePasses,
          RegistrationFails, Accepted
  <2>2. Phase = "starting" /\ Phase' = "starting"
    BY <1>0, <2>1, PhaseCases, NextPhaseCases
  <2> QED
    BY <2>1, <2>2 DEF Contract!vars
<1>9. CASE BringUpSucceeds
  <2>1. entry = "loaded" /\ manager # NoManager
    BY <1>9, <1>0 DEF BringUpSucceeds, Accepted
  <2>2. issue = {}
    BY <1>0, <2>1
  <2>3. Phase = "starting" /\ Phase' = "up"
    BY <1>9, <2>1, <2>2, PhaseCases, NextPhaseCases DEF BringUpSucceeds, Accepted
  <2>4. options.webhook \in Modes \/ options.webhook = "disabled"
    BY <1>9, <1>0, OptionTypes DEF BringUpSucceeds
  <2>5. hook'.mode \in Modes \cup {"unregistered"}
    BY <1>9, <2>4 DEF BringUpSucceeds
  <2> QED
    BY <1>9, <2>3, <2>5 DEF BringUpSucceeds, Contract!Next, Contract!ComeUp
<1>10. CASE ThreadFailureSeen \/ UnknownModeRefused \/ RollbackDone
  <2>1. entry = "loaded" /\ manager # NoManager /\ hook = NoHook /\ task \in Starting
    BY <1>10, <1>0 DEF ThreadFailureSeen, UnknownModeRefused, RollbackDone, Accepted
  <2>2. issue = {}
    BY <1>0, <2>1
  <2>3. PICK k \in Kinds : BeginTeardown(k)
    <3>1. manager \in Managers /\ exc[manager] \in Kinds \cup {"none"}
      BY <1>0, <2>1
    <3> QED
      BY <1>10, <3>1 DEF ThreadFailureSeen, UnknownModeRefused, RollbackDone
  <2>4. /\ entry' = entry /\ hook' = NoHook
        /\ \/ task' = "cleanup" /\ issue' = issue
           \/ task' = "done" /\ issue' = {k}
    BY <2>1, <2>2, <2>3, FailureEffect
  <2> QED
    BY <2>1, <2>4, ContractFailing
<1>11. CASE SurfaceFails
  <2>1. entry = "loaded" /\ manager # NoManager /\ hook = NoHook /\ task \in Starting
    BY <1>11, <1>0 DEF SurfaceFails, Accepted
  <2>2. issue = {}
    BY <1>0, <2>1
  <2>3. CASE SuspendAt("close", "start", NoManager)
    <3>1. entry' = entry /\ task' = "cleanup" /\ issue' = issue /\ hook' = hook
      BY <1>11, <2>3 DEF SurfaceFails, SuspendAt
    <3> QED
      BY <2>1, <3>1, ContractFailing
  <2>4. CASE StopManager("start")
    <3>1. /\ entry' = entry /\ hook' = hook
          /\ \/ task' = "cleanup" /\ issue' = issue
             \/ task' = "done" /\ issue' = {"start"}
      BY <1>11, <2>2, <2>4 DEF SurfaceFails, StopManager, SuspendAt, ReturnTo
    <3> QED
      BY <2>1, <3>1, ContractFailing
  <2> QED
    BY <1>11, <2>3, <2>4 DEF SurfaceFails
<1>12. CASE DeadlineJoinReturns
  <2>1. entry = "loaded" /\ manager # NoManager /\ hook = NoHook /\ task \in Starting
    BY <1>12, <1>0 DEF DeadlineJoinReturns
  <2>2. issue = {}
    BY <1>0, <2>1
  <2>3. entry' = entry /\ task' = "done" /\ issue' = {"start"} /\ hook' = hook
    BY <1>12, <2>2 DEF DeadlineJoinReturns, ReturnTo
  <2> QED
    BY <2>1, <2>3, ContractFailing
<1>13. CASE CancelDelivered
  <2>1. entry = "unloading" /\ hook = NoHook
    BY <1>13, <1>0 DEF CancelDelivered
  <2>2. entry' = "unloading" /\ hook' = NoHook /\ issue' = issue
    BY <1>13, <2>1 DEF CancelDelivered, BeginTeardown, StopManager, SuspendAt, ReturnTo
  <2> QED
    BY <2>1, <2>2, ContractUnloading
<1>14. CASE SessionsClosed \/ JoinReturns
  <2>1. hook = NoHook /\ hook' = NoHook /\ teardown.at # "idle" /\ ~cancelling
    BY <1>14, <1>0 DEF SessionsClosed, JoinReturns
  <2>2. CASE entry = "unloading"
    <3>1. teardown.for \in {"unload", "cancelled"}
      BY <1>0, <2>1, <2>2
    <3>2. entry' \in {"unloading", "not_loaded"} /\ issue' = issue
      BY <1>14, <2>2, <3>1 DEF SessionsClosed, JoinReturns, StopManager, SuspendAt, ReturnTo
    <3> QED
      BY <2>1, <2>2, <3>2, ContractUnloading
  <2>3. CASE entry # "unloading"
    <3>1. task = "cleanup" /\ entry = "loaded" /\ teardown.for \in Kinds /\ issue = {}
      BY <1>0, <2>1, <2>3
    <3>2. /\ entry' = entry
          /\ \/ task' = "cleanup" /\ issue' = issue
             \/ task' = "done" /\ issue' = {teardown.for}
      BY <1>14, <3>1 DEF SessionsClosed, JoinReturns, StopManager, SuspendAt, ReturnTo
    <3> QED
      BY <2>1, <3>1, <3>2, ContractFailing
  <2> QED
    BY <2>2, <2>3
<1>15. CASE \E m \in Managers : ThreadStep(m)
  <2>1. UNCHANGED loopVars
    BY <1>15 DEF ThreadStep, PublishLoop, ImportSucceeds, ThreadFails, Bind, BindFails,
          StopServing, CloseLoop
  <2> QED
    BY <2>1, ContractStutter
<1>16. CASE \E p \in ForeignPorts : ForeignBinds(p) \/ ForeignCloses(p)
  <2>1. UNCHANGED loopVars
    BY <1>16 DEF ForeignBinds, ForeignCloses
  <2> QED
    BY <2>1, ContractStutter
<1>17. CASE Finished \/ UNCHANGED vars
  BY <1>17, ContractStutter DEF Finished, vars
<1> QED
  BY <1>1, <1>2, <1>3, <1>4, <1>5, <1>6, <1>7, <1>8, <1>9, <1>10, <1>11, <1>12, <1>13,
     <1>14, <1>15, <1>16, <1>17
     DEF Next, BringUpStep, TeardownStep

-----------------------------------------------------------------------------
(* The turns of the ingress.                                                *)

Closing == teardown.at = "close" \/ task = "rollback"

\* What is at most the end of a closing.
LEMMA QuietTurn ==
  ASSUME UNCHANGED hook, Closing' => Closing
  PROVE  [Turns!Next]_(Turns!vars)
  BY DEF Closing, Turns!Next, Turns!Closed, Turns!vars

\* A manager is stopped when nothing is left to close.
LEMMA StopIsQuiet ==
  ASSUME NEW caller \in Callers, StopManager(caller)
  PROVE  ~Closing'
  BY DEF StopManager, SuspendAt, ReturnTo, Closing, Idle

\* A teardown withdraws the webhook, or goes on to stop the manager.
LEMMA TeardownTurn ==
  ASSUME Inv, NEW caller \in Callers, BeginTeardown(caller)
  PROVE  [Turns!Next]_(Turns!vars)
<1>1. CASE hook = NoHook
  <2>1. StopManager(caller) /\ UNCHANGED hook
    BY <1>1 DEF BeginTeardown
  <2> QED
    BY <2>1, StopIsQuiet, QuietTurn
<1>2. CASE hook # NoHook
  <2>1. hook.mode \in Modes
    BY <1>2 DEF Inv, TypeOK, LoopTypes, Hooks
  <2>2. hook'.mode = "unregistered"
    BY <1>2 DEF BeginTeardown, NoHook
  <2> QED
    BY <2>1, <2>2 DEF Turns!Next, Turns!Withdraw, Turns!vars
<1> QED
  BY <1>1, <1>2

\* A bring-up that has not registered yet finds no webhook and nothing to close,
\* but for its own roll-back.
LEMMA StartingIsClear ==
  ASSUME Inv, task \in Starting
  PROVE  hook = NoHook /\ teardown.at = "idle" /\ (Closing <=> task = "rollback")
<1>1. teardown.at \in {"idle", "close", "join"}
  BY DEF Inv, TypeOK, LoopTypes, TeardownStates
<1>2. teardown.at = "idle" /\ hook = NoHook
  BY <1>1 DEF Inv, Structure, OneRunner, LatestManager
<1> QED
  BY <1>2 DEF Closing

LEMMA TurnsStep == Inv /\ [Next]_vars => [Turns!Next]_(Turns!vars)
<1> SUFFICES ASSUME Inv, [Next]_vars PROVE [Turns!Next]_(Turns!vars)
  OBVIOUS
<1>0. TypeOK /\ Structure
  BY DEF Inv
<1>1. CASE UNCHANGED <<hook, task, teardown>>
  BY <1>1, QuietTurn DEF Closing
<1>2. CASE SetupSucceeds
  <2>1. UNCHANGED <<hook, teardown>> /\ task' = "makedirs"
    BY <1>2 DEF SetupSucceeds
  <2> QED
    BY <2>1, QuietTurn DEF Closing
<1>3. CASE UserUnloads \/ ReloadLoaded
  <2>1. PICK g \in {"run", "stop", "remove"} : UnloadEntry(g)
    BY <1>3 DEF UserUnloads, ReloadLoaded
  <2>2. UNCHANGED <<hook, task, teardown>> \/ BeginTeardown("unload")
    BY <2>1 DEF UnloadEntry
  <2> QED
    BY <1>1, <2>2, TeardownTurn
<1>4. CASE \/ UnloadResumes \/ ThreadFailureSeen \/ UnknownModeRefused \/ RollbackDone
  <2>1. CASE ThreadFailureSeen
    <3>1. exc[manager] \in Kinds \cup {"none"}
      BY <1>0, <2>1 DEF ThreadFailureSeen, TypeOK, LoopTypes, WorkerTypes, Structure, LatestManager
    <3>2. \E k \in Kinds : BeginTeardown(k)
      BY <2>1, <3>1 DEF ThreadFailureSeen
    <3> QED
      BY <3>2, TeardownTurn
  <2> QED
    BY <1>4, <2>1, TeardownTurn DEF UnloadResumes, UnknownModeRefused, RollbackDone
<1>5. CASE \/ StartThread \/ SendProbe \/ ProbeFails \/ ProbeAccepted \/ DeadlinePasses
  <2>1. /\ UNCHANGED <<hook, teardown>> /\ task \in Starting
        /\ task' \in {"probing", "sleeping", "accepted", "deadline"}
    BY <1>5 DEF StartThread, SendProbe, ProbeFails, ProbeAccepted, DeadlinePasses
  <2> QED
    BY <2>1, StartingIsClear, QuietTurn DEF Closing
<1>6. CASE BringUpSucceeds
  <2>1. /\ task = "accepted" /\ task' = "done" /\ UNCHANGED teardown
        /\ options.webhook \in Modes \cup {"disabled"}
    BY <1>0, <1>6, OptionTypes DEF BringUpSucceeds, Accepted, TypeOK, LoopTypes
  <2>2. hook = NoHook /\ ~Closing /\ ~Closing'
    BY <2>1, StartingIsClear DEF Closing
  <2>3. CASE options.webhook = "disabled"
    BY <1>6, <2>2, <2>3, QuietTurn DEF BringUpSucceeds
  <2>4. CASE options.webhook # "disabled"
    <3>1. hook.mode = "unregistered" /\ hook'.mode \in Modes
      BY <1>6, <2>1, <2>2, <2>4 DEF BringUpSucceeds, NoHook
    <3> QED
      BY <2>2, <3>1 DEF Turns!Next, Turns!Register, Closing
  <2> QED
    BY <2>3, <2>4
<1>7. CASE RegistrationFails \/ SurfaceFails
  <2>1. task = "accepted" /\ UNCHANGED hook
    BY <1>7 DEF RegistrationFails, SurfaceFails, Accepted
  <2>2. hook.mode = "unregistered" /\ ~Closing
    BY <2>1, StartingIsClear DEF NoHook
  <2>3. Closing' \/ ~Closing'
    OBVIOUS
  <2> QED
    BY <2>1, <2>2, QuietTurn DEF Turns!Next, Turns!RegisterFails, Closing
<1>8. CASE DeadlineJoinReturns \/ JoinReturns
  <2>1. UNCHANGED hook /\ ~Closing'
    BY <1>8 DEF DeadlineJoinReturns, JoinReturns, ReturnTo, Closing, Idle
  <2> QED
    BY <2>1, QuietTurn
<1>9. CASE CancelDelivered
  <2>1. CASE BeginTeardown("cancelled")
    BY <2>1, TeardownTurn
  <2>2. CASE UNCHANGED hook /\ teardown' = Idle /\ task' = "done"
    BY <2>2, QuietTurn DEF Closing, Idle
  <2> QED
    BY <1>9, <2>1, <2>2 DEF CancelDelivered
<1>10. CASE SessionsClosed
  <2>1. teardown.for \in Callers
    BY <1>0 DEF TypeOK, LoopTypes, TeardownStates
  <2> QED
    BY <1>10, <2>1, StopIsQuiet, QuietTurn DEF SessionsClosed
<1>11. CASE \E m \in Managers : ThreadStep(m)
  <2>1. UNCHANGED loopVars
    BY <1>11 DEF ThreadStep, PublishLoop, ImportSucceeds, ThreadFails, Bind, BindFails,
          StopServing, CloseLoop
  <2> QED
    BY <1>1, <2>1
<1>12. CASE \E p \in ForeignPorts : ForeignBinds(p) \/ ForeignCloses(p)
  <2>1. UNCHANGED loopVars
    BY <1>12 DEF ForeignBinds, ForeignCloses
  <2> QED
    BY <1>1, <2>1
<1>13. CASE \/ SetupStarts \/ SetupFails \/ ReloadUnloaded \/ RemoveEntry \/ Finished
            \/ UserResumes("remove") \/ (made < MaxManagers /\ UserResumes("run"))
            \/ UNCHANGED vars \/ \E o \in UserOptions : SaveOptions(o)
  <2>1. UNCHANGED <<hook, task, teardown>>
    BY <1>13 DEF SetupStarts, SetupFails, ReloadUnloaded, RemoveEntry, Finished, UserResumes,
                 SaveOptions, vars
  <2> QED
    BY <1>1, <2>1
<1> QED
  BY <1>2, <1>3, <1>4, <1>5, <1>6, <1>7, <1>8, <1>9, <1>10, <1>11, <1>12, <1>13
     DEF Next, BringUpStep, TeardownStep

\* Set-up, bring-up, teardown and unload implement EntryContract: the server is
\* exposed only while the entry is up, and each failed start is reported once.  They
\* implement IngressTurns as well: whoever tears down, no webhook is registered
\* before the sessions of the one before are closed or given up.
THEOREM KeepsContract == Spec => ImplementsContract
<1>1. Init => Contract!Init /\ Turns!Init
  <2>1. Init => Turns!Init
    BY DEF Init, Idle, NoHook, Turns!Init
  <2> QED
    BY <2>1, ContractInit
<1>2. Inv /\ [Next]_vars => [Contract!Next]_(Contract!vars) /\ [Turns!Next]_(Turns!vars)
  BY ContractStep, TurnsStep
<1> QED
  BY <1>1, <1>2, Invariance, PTL
     DEF Spec, ImplementsContract, Contract!Spec, Turns!Spec
=============================================================================
