------------------------------ MODULE Desktop ------------------------------
(***************************************************************************)
(* The desktop frontend of src/src/desktop.rs over the manager core: a UI  *)
(* thread that never waits for the manager (try_lock), one worker thread   *)
(* at a time that runs a blocking operation under the manager's mutex, and *)
(* the shutdown that follows the event loop however it ends.               *)
(*                                                                         *)
(* A handler of the event loop is one action, or two where it tries the    *)
(* lock twice.  A text in the editor is the configuration it parses to,    *)
(* NoConfig when empty, Broken when invalid.                               *)
(***************************************************************************)
EXTENDS Manager

VARIABLES
  ui,        \* new, loop, loading, leaving, stopping, stopped, exited
  quitting,  \* Controller::quitting
  tray,      \* Controller::tray_visible
  visible,   \* the window is shown
  busy,      \* Controller::busy, which disables the window's controls
  job,       \* the operation the worker is for
  worker,    \* none, spawned, locked, released, sent
  lock,      \* who holds the manager's mutex
  shown,     \* ViewState::last_running
  view,      \* ViewState::view
  editor,    \* the editor's text
  saved      \* ViewState::loaded_config

window == <<ui, quitting, tray, visible>>
work == <<busy, job, worker>>
screen == <<shown, view, editor, saved>>
dvars == <<mvars, window, work, lock, screen>>

dirty == editor # saved

\* the event loop runs, loading where a handler of it is not through yet
InLoop == ui \in {"loop", "loading"}

DesktopInit ==
  /\ ManagerInit
  /\ ui = "new"
  /\ quitting = FALSE
  /\ tray = FALSE
  /\ visible = FALSE
  /\ busy = FALSE
  /\ job = "none"
  /\ worker = "none"
  /\ lock = "free"
  /\ shown = "unknown"
  /\ view = "services"
  /\ editor = NoConfig
  /\ saved = NoConfig

-----------------------------------------------------------------------------
(* Parts of handlers.                                                      *)

\* try_lock succeeds
TryLock == lock = "free"

LoadConfig ==
  IF TryLock THEN editor' = disk /\ saved' = disk ELSE UNCHANGED <<editor, saved>>

\* refresh: sync_run_state switches the view when what is shown is outdated; the
\* lock is dropped again before set_view loads the text of the editor
Sync ==
  LET now == IF IsRunning THEN "running" ELSE "stopped"
  IN IF TryLock /\ shown # now
     THEN /\ shown' = now
          /\ view' = IF IsRunning THEN "services" ELSE "edit"
          /\ ui' = IF IsRunning THEN "loop" ELSE "loading"
          /\ UNCHANGED <<editor, saved>>
     ELSE ui' = "loop" /\ UNCHANGED screen

\* job: nothing if quitting or busy; the spawn may also fail, and what its
\* finish_job then refreshes is already shown
Job(o) ==
  \/ ~quitting /\ ~busy /\ busy' = TRUE /\ job' = o /\ worker' = "spawned"
  \/ UNCHANGED work

-----------------------------------------------------------------------------
(* The event loop.                                                         *)

Launch ==
  /\ ui = "new"
  /\ visible' = TRUE
  /\ tray' \in BOOLEAN
  /\ \/ disk # NoConfig /\ Job("start") /\ busy' /\ ui' = "loop" /\ UNCHANGED screen
     \/ Sync /\ UNCHANGED work    \* no file, or no thread for the job
  /\ UNCHANGED <<mvars, quitting, lock>>

\* the window cannot be shown
LaunchFails ==
  /\ ui = "new"
  /\ ui' = "leaving"
  /\ UNCHANGED <<mvars, quitting, tray, visible, work, lock, screen>>

Refresh ==
  /\ ui = "loop" /\ ~quitting
  /\ Sync
  /\ UNCHANGED <<mvars, quitting, tray, visible, work, lock>>

\* the rest of a handler that switched to the editor: a worker that locks in
\* between leaves it with the text it had
LoadShown ==
  /\ ui = "loading"
  /\ ui' = "loop"
  /\ LoadConfig
  /\ UNCHANGED <<mvars, quitting, tray, visible, work, lock, shown, view>>

\* the window's controls work while it is shown and no job runs
Enabled(v) == ui = "loop" /\ visible /\ ~busy /\ view = v

EditConfig ==
  /\ Enabled("services")
  /\ LoadConfig
  /\ view' = "edit"
  /\ UNCHANGED <<mvars, window, work, lock, shown>>

\* mutant: leaving the editor keeps what was typed
CancelKeepsEdits ==
  /\ Enabled("edit")
  /\ view' = "services"
  /\ UNCHANGED <<mvars, window, work, lock, shown, editor, saved>>

CancelEdit ==
  /\ Enabled("edit")
  /\ LoadConfig
  /\ view' = "services"
  /\ UNCHANGED <<mvars, window, work, lock, shown>>

Type(text) ==
  /\ Enabled("edit")
  /\ editor' = text
  /\ UNCHANGED <<mvars, window, work, lock, shown, view, saved>>

\* persist does not go through, and apply returns
NotPersisted ==
  /\ Enabled("edit")
  /\ UNCHANGED dvars

\* apply: persist the text, show the services of a running manager, and have
\* the worker apply what is on disk
PersistAndApply ==
  /\ Enabled("edit") /\ TryLock
  /\ Save(editor)
  /\ saved' = editor
  /\ view' = IF shown = "running" THEN "services" ELSE view
  /\ Job("apply")
  /\ UNCHANGED <<window, lock, shown, editor>>

\* start, stop or restart the selected service of the list
ServiceAction ==
  /\ Enabled("services")
  /\ gen # 0 /\ shown # "unknown"
  /\ Job("service")
  /\ UNCHANGED <<mvars, window, lock, screen>>

\* mutant: the outcome is shown but not the state it leads to
FinishUnrefreshed ==
  /\ ui = "loop"
  /\ worker = "sent"
  /\ busy' = FALSE
  /\ job' = "none"
  /\ worker' = "none"
  /\ UNCHANGED <<mvars, window, lock, screen>>

FinishJob ==
  /\ ui = "loop"
  /\ worker = "sent"
  /\ busy' = FALSE
  /\ job' = "none"
  /\ worker' = "none"
  /\ Sync
  /\ UNCHANGED <<mvars, quitting, tray, visible, lock>>

-----------------------------------------------------------------------------
(* The worker thread: lock the manager, work, unlock, then wake the UI.    *)

WorkerLocks ==
  /\ ui # "exited"
  /\ worker = "spawned" /\ lock = "free"
  /\ worker' = "locked"
  /\ lock' = "worker"
  /\ Begin(job)
  /\ UNCHANGED <<window, busy, job, screen>>

\* mutant: the guard outlives the send
ReleasesAfterSend ==
  /\ ui # "exited"
  /\ \/ worker = "locked" /\ step = "idle" /\ worker' = "sent" /\ UNCHANGED lock
     \/ worker \in {"sent", "none"} /\ lock = "worker" /\ lock' = "free" /\ UNCHANGED worker
  /\ UNCHANGED <<mvars, window, busy, job, screen>>

\* mutant: the guard is never dropped
KeepsGuard ==
  /\ ui # "exited"
  /\ worker = "locked" /\ step = "idle"
  /\ worker' = "released"
  /\ UNCHANGED <<mvars, window, busy, job, lock, screen>>

WorkerReleases ==
  /\ ui # "exited"
  /\ worker = "locked" /\ step = "idle"
  /\ worker' = "released"
  /\ lock' = "free"
  /\ UNCHANGED <<mvars, window, busy, job, screen>>

\* mutant: an operation that fails sends no outcome
SendsSuccess ==
  /\ ui # "exited"
  /\ worker = "released" /\ result \notin {"config_error", "bind_error", "not_running"}
  /\ worker' = "sent"
  /\ UNCHANGED <<mvars, window, busy, job, lock, screen>>

WorkerSends ==
  /\ ui # "exited"
  /\ worker = "released"
  /\ worker' = "sent"
  /\ UNCHANGED <<mvars, window, busy, job, lock, screen>>

\* a step of the operation of whoever holds the lock
Operate ==
  /\ ui # "exited"
  /\ ManagerStep
  /\ UNCHANGED <<window, work, lock, screen>>

-----------------------------------------------------------------------------
(* Closing, quitting, and shutting down.                                   *)

Activate ==
  /\ ui = "loop" /\ ~quitting
  /\ visible' = TRUE
  /\ UNCHANGED <<mvars, ui, quitting, tray, work, lock, screen>>

Quit ==
  /\ ui = "loop" /\ ~quitting
  /\ quitting' = TRUE
  /\ visible' = FALSE
  /\ UNCHANGED <<mvars, ui, tray, work, lock, screen>>

\* without a tray icon a hidden window could not be reopened
CloseWindow ==
  /\ ui = "loop" /\ visible
  /\ quitting' = (quitting \/ ~tray)
  /\ visible' = FALSE
  /\ UNCHANGED <<mvars, ui, tray, work, lock, screen>>

\* the loop returns after quit, on an error, or to let AppKit terminate
LoopEnds ==
  /\ ui = "loop"
  /\ ui' = "leaving"
  /\ UNCHANGED <<mvars, quitting, tray, visible, work, lock, screen>>

\* mutant: shut_down only tries the lock
ShutDownTries ==
  /\ ui = "leaving"
  /\ IF lock = "free"
     THEN ui' = "stopping" /\ lock' = "exit" /\ Begin("stop")
     ELSE ui' = "stopped" /\ UNCHANGED <<mvars, lock>>
  /\ UNCHANGED <<quitting, tray, visible, work, screen>>

\* shut_down waits for the lock and stops
ShutDown ==
  /\ ui = "leaving" /\ lock = "free"
  /\ ui' = "stopping"
  /\ lock' = "exit"
  /\ Begin("stop")
  /\ UNCHANGED <<quitting, tray, visible, work, screen>>

ShutDownReturns ==
  /\ ui = "stopping" /\ step = "idle"
  /\ ui' = "stopped"
  /\ lock' = "free"
  /\ UNCHANGED <<mvars, quitting, tray, visible, work, screen>>

Exit ==
  /\ ui = "stopped"
  /\ ui' = "exited"
  /\ UNCHANGED <<mvars, quitting, tray, visible, work, lock, screen>>

EditOnDisk ==
  /\ ui # "exited"
  /\ EditByHand
  /\ UNCHANGED <<window, work, lock, screen>>

DesktopNext ==
  \/ Launch \/ LaunchFails \/ Refresh \/ LoadShown \/ EditConfig \/ CancelEdit
  \/ \E text \in File : Type(text)
  \/ NotPersisted \/ PersistAndApply \/ ServiceAction \/ FinishJob
  \/ WorkerLocks \/ WorkerReleases \/ WorkerSends \/ Operate
  \/ Activate \/ Quit \/ CloseWindow \/ LoopEnds
  \/ ShutDown \/ ShutDownReturns \/ Exit \/ EditOnDisk

DesktopSpec == DesktopInit /\ [][DesktopNext]_dvars

\* The threads are scheduled, and the event loop gets to what is queued.
DesktopFairSpec ==
  /\ DesktopSpec
  /\ WF_dvars(WorkerLocks \/ WorkerReleases \/ WorkerSends)
  /\ WF_dvars(Operate)
  /\ WF_dvars(FinishJob) /\ WF_dvars(LoadShown)
  /\ WF_dvars(quitting /\ LoopEnds)
  /\ WF_dvars(ShutDown \/ ShutDownReturns \/ Exit)

-----------------------------------------------------------------------------
(* What must hold.                                                         *)

\* When no job runs, the window shows whether the manager runs: the refresh
\* that follows a job gets the lock (job, finish_job, sync_run_state).
ShownIsTrue ==
  InLoop /\ ~busy => shown = (IF IsRunning THEN "running" ELSE "stopped")

\* Unsaved edits are always on screen with nothing running beneath them that
\* could switch the view and reload the text (apply, set_view, cancel_edit).
UnsavedEditsOnScreen == dirty => view = "edit" /\ ~busy

\* An operation on the manager belongs to the holder of its lock, and the UI
\* has at most one worker that could want it.
OneOperator ==
  /\ step # "idle" => lock # "free"
  /\ lock = "worker" <=> worker = "locked"
  /\ lock = "exit" <=> ui = "stopping"
  /\ InLoop => (busy <=> worker # "none")

\* However the loop ends, shut_down leaves nothing serving and nothing alive.
ShutDownStops ==
  [][ui # "stopped" /\ ui' = "stopped" => proxy' = NoConfig /\ live' = {}]_dvars

\* A job's end always reaches the window, which takes commands again.
BusyEnds == busy ~> (~busy \/ ~InLoop)

\* Quit ends the program, also while a job runs.
QuitExits == quitting ~> ui = "exited"

\* "stop everything" (src/src/desktop.rs:64): once the process is gone nothing
\* it started lives.
NothingOutlivesExit == ui = "exited" => live = {}

-----------------------------------------------------------------------------
(* Inductive invariants, for the proofs.                                   *)

\* Who holds the lock, and that a worker is for a job (job, shut_down).
WorkInv ==
  /\ busy \in BOOLEAN /\ lock \in {"free", "worker", "exit"}
  /\ worker # "none" => job \in {"start", "apply", "service"}
  /\ ui = "new" => worker = "none" /\ lock = "free" /\ ~busy
  /\ OneOperator

\* ... and what the window shows (finish_job, sync_run_state, persist).
ScreenInv ==
  /\ ShownIsTrue
  /\ UnsavedEditsOnScreen
  /\ ui = "new" => ~dirty

=============================================================================
