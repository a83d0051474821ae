--------------------------- MODULE DesktopProofs ---------------------------
(* Proofs about Desktop for every set of configurations: the window and    *)
(* the shutdown use the manager one operation at a time, so that what      *)
(* ManagerProofs proves holds beneath them, and the window is truthful.    *)
EXTENDS Desktop, ManagerProofs

USE DEF dvars, window, work, screen, mvars, held, call, dirty, InLoop, TryLock, IsRunning

\* An operation's step starts from within an operation.
LEMMA StepsWork == ManagerStep => step # "idle"
  BY DEF ManagerStep, Apply, Start, Load, ResolveRoutes, LaunchRefused, Launched,
         Replace, Bound, BindFails, StopProxy, StopServices, ServiceOp

\* A job that starts while no other runs has its worker, and its controls off.
LEMMA JobWorks ==
  ASSUME WorkInv, ui # "new" => ~busy, worker = "none",
         Job("start") \/ Job("apply") \/ Job("service"),
         ui' = "loop", ui \in {"new", "loop"}, UNCHANGED <<step, lock>>
  PROVE  WorkInv'
  <1> USE DEF WorkInv, OneOperator
  <1>1. CASE UNCHANGED work BY <1>1
  <1>2. CASE busy' = TRUE /\ job' \in {"start", "apply", "service"} /\ worker' = "spawned"
    BY <1>2
  <1> QED BY <1>1, <1>2 DEF Job

\* Locks and workers.
LEMMA WorkStep == WorkInv /\ [DesktopNext]_dvars => WorkInv'
  <1> SUFFICES ASSUME WorkInv, [DesktopNext]_dvars PROVE WorkInv'
    OBVIOUS
  <1> USE DEF WorkInv, OneOperator
  <1>1. CASE Launch
    <2>1. CASE Job("start") /\ ui' = "loop" BY <1>1, <2>1, JobWorks DEF Launch
    <2>2. CASE Sync /\ UNCHANGED work BY <1>1, <2>2 DEF Launch, Sync
    <2> QED BY <1>1, <2>1, <2>2 DEF Launch
  <1>2. CASE LaunchFails BY <1>2 DEF LaunchFails
  <1>3. CASE Refresh BY <1>3 DEF Refresh, Sync
  <1>4. CASE EditConfig BY <1>4 DEF EditConfig
  <1>5. CASE CancelEdit BY <1>5 DEF CancelEdit
  <1>6. CASE \E text \in File : Type(text) BY <1>6 DEF Type
  <1>7. CASE NotPersisted BY <1>7 DEF NotPersisted
  <1>8. CASE PersistAndApply BY <1>8, JobWorks DEF PersistAndApply, Save, Enabled
  <1>9. CASE ServiceAction BY <1>9, JobWorks DEF ServiceAction, Enabled
  <1>10. CASE FinishJob
    <2>1. /\ ui = "loop" /\ worker = "sent" /\ UNCHANGED <<lock, step>>
          /\ busy' = FALSE /\ worker' = "none" /\ InLoop'
      BY <1>10 DEF FinishJob, Sync
    <2> QED BY <2>1
  <1>11. CASE WorkerLocks BY <1>11 DEF WorkerLocks, Begin
  <1>12. CASE WorkerReleases BY <1>12 DEF WorkerReleases
  <1>13. CASE WorkerSends BY <1>13 DEF WorkerSends
  <1>14. CASE Operate BY <1>14, StepsWork DEF Operate
  <1>15. CASE Activate BY <1>15 DEF Activate
  <1>16. CASE Quit BY <1>16 DEF Quit
  <1>17. CASE CloseWindow BY <1>17 DEF CloseWindow
  <1>18. CASE LoopEnds BY <1>18 DEF LoopEnds
  <1>19. CASE ShutDown BY <1>19 DEF ShutDown, Begin
  <1>20. CASE ShutDownReturns BY <1>20 DEF ShutDownReturns
  <1>21. CASE Exit BY <1>21 DEF Exit
  <1>22. CASE EditOnDisk BY <1>22 DEF EditOnDisk, EditByHand
  <1>23. CASE UNCHANGED dvars BY <1>23
  <1>24. CASE LoadShown BY <1>24 DEF LoadShown
  <1> QED
    BY <1>1, <1>2, <1>3, <1>4, <1>5, <1>6, <1>7, <1>8, <1>9, <1>10, <1>11, <1>12,
       <1>13, <1>14, <1>15, <1>16, <1>17, <1>18, <1>19, <1>20, <1>21, <1>22, <1>23, <1>24
       DEF DesktopNext

\* The lock is held by who operates, and a worker is for a job.
THEOREM WorkInvariance == DesktopSpec => []WorkInv
  <1>1. DesktopInit => WorkInv
    BY DEF DesktopInit, ManagerInit, WorkInv, OneOperator
  <1> QED BY <1>1, WorkStep, PTL DEF DesktopSpec

\* A step of the desktop is an operation's beginning, a step of one, a save, a
\* hand edit, or nothing to the manager.
LEMMA StepsManage == WorkInv /\ [DesktopNext]_dvars => [ManagerNext]_mvars
  <1> SUFFICES ASSUME WorkInv, DesktopNext PROVE ManagerNext \/ UNCHANGED mvars
    BY DEF ManagerNext
  <1>1. CASE WorkerLocks
    BY <1>1 DEF WorkerLocks, WorkInv, ManagerNext
  <1>2. CASE ShutDown
    BY <1>2 DEF ShutDown, ManagerNext
  <1>3. CASE PersistAndApply
    BY <1>3 DEF PersistAndApply, ManagerNext, Save
  <1>4. CASE Operate \/ EditOnDisk
    BY <1>4 DEF Operate, EditOnDisk, ManagerNext
  <1>5. CASE ~(WorkerLocks \/ ShutDown \/ PersistAndApply \/ Operate \/ EditOnDisk)
    BY <1>5 DEF DesktopNext, Launch, LaunchFails, Refresh, LoadShown, EditConfig,
                CancelEdit, Type, NotPersisted, ServiceAction, FinishJob,
                WorkerReleases, WorkerSends,
                Activate, Quit, CloseWindow, LoopEnds, ShutDownReturns, Exit
  <1> QED BY <1>1, <1>2, <1>3, <1>4, <1>5

\* The window and the shutdown use the manager one operation at a time, so what
\* is proved of the manager holds beneath them.
LEMMA DesktopUsesManager == DesktopSpec => ManagerSpec
  <1>1. DesktopInit => ManagerInit BY DEF DesktopInit
  <1> QED
    BY <1>1, WorkInvariance, StepsManage, PTL DEF DesktopSpec, ManagerSpec

\* What the window shows.
LEMMA ScreenStep ==
  WorkInv /\ WorkInv' /\ ScreenInv /\ [DesktopNext]_dvars => ScreenInv'
  <1> SUFFICES ASSUME WorkInv, WorkInv', ScreenInv, [DesktopNext]_dvars
               PROVE  ScreenInv'
    OBVIOUS
  <1> USE DEF ScreenInv, ShownIsTrue, UnsavedEditsOnScreen, WorkInv, OneOperator
  <1>1. CASE Launch BY <1>1 DEF Launch, Sync
  <1>2. CASE LaunchFails BY <1>2 DEF LaunchFails
  <1>3. CASE Refresh BY <1>3 DEF Refresh, Sync
  <1>4. CASE EditConfig BY <1>4 DEF EditConfig, LoadConfig, Enabled
  <1>5. CASE CancelEdit BY <1>5 DEF CancelEdit, LoadConfig, Enabled
  <1>6. CASE \E text \in File : Type(text) BY <1>6 DEF Type, Enabled
  <1>7. CASE NotPersisted BY <1>7 DEF NotPersisted
  <1>8. CASE PersistAndApply BY <1>8 DEF PersistAndApply, Save, Enabled
  <1>9. CASE ServiceAction BY <1>9 DEF ServiceAction, Enabled
  <1>10. CASE FinishJob BY <1>10 DEF FinishJob, Sync
  <1>11. CASE WorkerLocks BY <1>11 DEF WorkerLocks, Begin
  <1>12. CASE WorkerReleases BY <1>12 DEF WorkerReleases
  <1>13. CASE WorkerSends BY <1>13 DEF WorkerSends
  <1>14. CASE Operate BY <1>14, StepsWork DEF Operate
  <1>15. CASE Activate BY <1>15 DEF Activate
  <1>16. CASE Quit BY <1>16 DEF Quit
  <1>17. CASE CloseWindow BY <1>17 DEF CloseWindow
  <1>18. CASE LoopEnds BY <1>18 DEF LoopEnds
  <1>19. CASE ShutDown BY <1>19 DEF ShutDown, Begin
  <1>20. CASE ShutDownReturns BY <1>20 DEF ShutDownReturns
  <1>21. CASE Exit BY <1>21 DEF Exit
  <1>22. CASE EditOnDisk BY <1>22 DEF EditOnDisk, EditByHand
  <1>23. CASE UNCHANGED dvars BY <1>23
  <1>24. CASE LoadShown BY <1>24 DEF LoadShown, LoadConfig
  <1> QED
    BY <1>1, <1>2, <1>3, <1>4, <1>5, <1>6, <1>7, <1>8, <1>9, <1>10, <1>11, <1>12,
       <1>13, <1>14, <1>15, <1>16, <1>17, <1>18, <1>19, <1>20, <1>21, <1>22, <1>23, <1>24
       DEF DesktopNext

LEMMA ScreenInvariance == DesktopSpec => []ScreenInv
  <1>1. DesktopInit => ScreenInv
    BY DEF DesktopInit, ScreenInv, ShownIsTrue, UnsavedEditsOnScreen
  <1> QED BY <1>1, WorkInvariance, ScreenStep, PTL DEF DesktopSpec

\* When no job runs, the window shows whether the manager runs.
THEOREM ShowsTheTruth == DesktopSpec => []ShownIsTrue
  <1>1. ScreenInv => ShownIsTrue BY DEF ScreenInv
  <1> QED BY ScreenInvariance, <1>1, PTL

\* Unsaved edits are on screen, with nothing running beneath them.
THEOREM EditsStayOnScreen == DesktopSpec => []UnsavedEditsOnScreen
  <1>1. ScreenInv => UnsavedEditsOnScreen BY DEF ScreenInv
  <1> QED BY ScreenInvariance, <1>1, PTL

\* What shut_down runs is a stop (Manager::stop), and no one else operates.
Stopping == ui = "stopping" =>
  result = "stopped" /\ then = "idle" /\ step \in {"stop_proxy", "stop_services", "idle"}

LEMMA StoppingStep == WorkInv /\ Stopping /\ [DesktopNext]_dvars => Stopping'
  <1> SUFFICES ASSUME WorkInv, Stopping, [DesktopNext]_dvars, ui' = "stopping"
               PROVE  result' = "stopped" /\ then' = "idle"
                        /\ step' \in {"stop_proxy", "stop_services", "idle"}
    BY DEF Stopping
  <1>1. CASE ShutDown
    BY <1>1 DEF ShutDown, Begin, First
  <1>2. CASE Operate
    <2>1. /\ ui = "stopping" /\ step # "idle"
          /\ result = "stopped" /\ then = "idle"
          /\ step \in {"stop_proxy", "stop_services"}
      BY <1>2, StepsWork DEF Operate, Stopping
    <2>2. StopProxy \/ StopServices
      BY <1>2, <2>1 DEF Operate, ManagerStep, Apply, Start, Load, ResolveRoutes,
             LaunchRefused, Launched, Replace, Bound, BindFails, ServiceOp
    <2> QED BY <2>1, <2>2 DEF StopProxy, StopServices, To
  <1>3. CASE WorkerLocks \/ PersistAndApply
    BY <1>3 DEF WorkerLocks, PersistAndApply, WorkInv, OneOperator, Enabled
  <1>4. CASE ~(ShutDown \/ Operate \/ WorkerLocks \/ PersistAndApply)
    BY <1>4 DEF Stopping, DesktopNext, Launch, LaunchFails, Refresh, Sync, LoadShown,
                EditConfig, CancelEdit, Type, NotPersisted, ServiceAction, FinishJob,
                WorkerReleases, WorkerSends, Activate, Quit, CloseWindow, LoopEnds,
                ShutDownReturns, Exit, EditOnDisk, EditByHand
  <1> QED BY <1>1, <1>2, <1>3, <1>4

\* However the loop ends, shut_down leaves nothing serving and nothing alive.
THEOREM ShutDownStopsAll == DesktopSpec => ShutDownStops
  <1> DEFINE Stops == ui # "stopped" /\ ui' = "stopped" => proxy' = NoConfig /\ live' = {}
  <1>1. DesktopSpec => []Stopping
    <2>1. DesktopInit => Stopping BY DEF DesktopInit, Stopping
    <2> QED BY <2>1, StoppingStep, WorkInvariance, PTL DEF DesktopSpec
  <1>2. DesktopSpec => []ManagerInv
    BY DesktopUsesManager, ManagerInvariance, PTL
  <1>3. ManagerInv /\ Stopping /\ [DesktopNext]_dvars => [Stops]_dvars
    <2> SUFFICES ASSUME ManagerInv, Stopping, DesktopNext, ui # "stopped", ui' = "stopped"
                 PROVE  proxy' = NoConfig /\ live' = {}
      OBVIOUS
    <2>1. ShutDownReturns
      BY DEF DesktopNext, Launch, LaunchFails, Refresh, Sync, LoadShown, EditConfig,
             CancelEdit, Type, NotPersisted, PersistAndApply, ServiceAction, FinishJob,
             WorkerLocks, WorkerReleases, WorkerSends, Operate, Activate, Quit, CloseWindow, LoopEnds,
             ShutDown, Exit, EditOnDisk
    <2>2. result = "stopped" /\ step = "idle" /\ UNCHANGED <<proxy, live>>
      BY <2>1 DEF ShutDownReturns, Stopping
    <2> QED BY <2>2 DEF ManagerInv, HeldInStep, ReturnInStep
  <1> QED BY <1>1, <1>2, <1>3, PTL DEF DesktopSpec, ShutDownStops

=============================================================================
