# local-dev-proxy: a TLA+ verification development

local-dev-proxy is a desktop (or headless) program that runs a developer's
services as child processes and a host-routed HTTP reverse proxy in front of
them, both described by one `services.toml`. This directory models the parts of
it that are hard to test: threads that share a mutex, processes that ignore
signals, files that change while they are read, a window that must never wait,
processes that are killed between two system calls.

Paths below are relative to the repository's root, `src/`; line numbers refer to
the commit the development was written for. `PROJECT.json` maps every definition
that stands for code to its lines, lists the runs, a mutant for each property,
the hazards and the theorems.

    tlc -workers 2 -config services_one.cfg MCServiceManager.tla   # a run
    tlapm ServiceManagerProofs.tla                                 # the proofs of a module

## 1. The system

```
 launch --> main.rs: run ---- instance lock + activation socket (instance.rs) <--knock-- later launches
              | shell_env.rs: PATH from the login shell (before any thread is started)
              v
        desktop.rs  (UI thread, worker, app-events)   or   frontend.rs (headless)
              | Mutex<Manager>: start / apply / stop / service operations
              v
        manager.rs ----- config.rs, routes.rs (parse, validate, resolve)
           |       \
           |        proxy.rs   (tokio tasks: accept loops, connections, tunnels)
           v
        process.rs  (service table mutex, crash monitor thread, child process groups)
           | stdout pipes
           v
        log_rotation.rs  (one pump thread per launch; SharedLog for the manager's own log)
```

| Component | State | Operations | What is hard | Modelled in |
|---|---|---|---|---|
| Service manager, `src/process.rs` | table of `ServiceInfo` behind one mutex; children and their process groups; log pumps; the monitor thread | `start_all`, `stop_all`, `start`, `stop`, `restart`, `poll_exits`, `Drop` | the monitor reaps while callers start and stop; SIGTERM is ignored; group ids are reused; pumps outlive their service | `ServiceManager`, `ServiceSlots` |
| Manager core, `src/manager.rs` | the running manifest, the proxy, the current `ServiceManager` | `start`, `apply`, `stop`, service operations, `save_config` | each step can fail after earlier ones took effect; the file is read twice and edited by hand | `Manager` |
| Desktop, `src/desktop.rs`, `ui/app.slint` | view, editor, busy flag, worker, tray, quitting | window callbacks, refresh timer, jobs, quit, activation | the UI only `try_lock`s; a worker outlives the event loop; unsaved edits | `Desktop` |
| Single instance, `src/instance.rs`, `src/main.rs` | lock file, socket name, listener and its backlog | acquire, listen, accept, knock, drop | kills leave a stale socket; startup takes longer than a knock's patience; order of drops | `Instance` |
| Log rotation, `src/log_rotation.rs` | the files, the open handle, `size` | `open`, `write_bytes`, `rotate`, `pump_log_stream`, `SharedLog` | failures and kills between renames; torn writes | `LogRotation` |
| Reverse proxy, `src/proxy.rs` | listeners, accept tasks, connections, tunnels, stop signal | `bind`, accept, serve, tunnel, `shutdown` | tasks that shutdown does not await; upgrades that race it | `Proxy`, `ProxyPromise` |
| Login shell's PATH, `src/shell_env.rs` | child, reader thread, deadline | `restore_login_shell_path`, `merge_path` | a shell that hangs or leaves its pipe open | `ShellPath` (in `Instance`) |
| Configuration, `src/config.rs` | none | read the tables strictly, expand placeholders | an odd file must fail loudly, an argument must not be mangled | `Config`, `Startup` |
| Routing, `src/routes.rs` | none | resolve routes, match a host | the environment is read three times; exact hosts before globs, order, case | `Routes`, `Startup` |
| `frontend.rs`, `paths.rs`, `logging.rs`, `desktop/syntax.rs`, `build.rs`, `ci`, `packaging` | none of their own | | | not modelled |

Interactions. The UI thread and its worker call the manager through a mutex;
the manager calls the service manager, whose own monitor thread shares a second
mutex with those calls; every launch adds a pump thread that ends with the
pipe, not with the service; activation requests arrive on a listener thread and
reach the UI thread through a channel. Locks
nest in one order: the manager's, the monitor slot's (held by `stop_monitor` while
it joins the monitor, which never takes it), the service table's, and innermost
the manager's own log's.

What makes each part correct:

* service manager: one live process tree per service and none untracked (as long as
  children can be waited for), what a snapshot shows is true, a kill reaches only its own tree, `stop_all` leaves
  nothing alive, every call returns, crashes are noticed;
* manager: it runs a configuration exactly while the proxy serves it over
  services made from it, and otherwise nothing is left; its answers are true
  although the file changes under it; it takes services down only for a cause;
* desktop: the window shows the truth whenever no job runs, unsaved edits are
  not overwritten, a job always gives the window back, quit exits and stops
  everything;
* instance: one primary per profile, a request reaches only it and is answered while
  it serves, every launch serves or exits;
* log rotation: bounded files, an unbroken end of the log, bounded loss, and a
  tail that is the end of the file;
* proxy: all addresses or none, free again when it is down, and each client served
  by one server that lets go of it soon after it is told to stop;
* login shell's PATH: no directory that could be read is lost, and startup never hangs on it;
* configuration and routing: no key of an accepted file is ignored, a child, its
  command and its routes agree on every variable, and a request goes where the file
  says.

## 2. The modules

### ServiceManager (core)

One action is one step between two points where another thread, process or the
kernel can intervene. Two threads, `caller` and `monitor`, have a program
counter each; the mutex is `lock`. A *launch* is a number: its process group
(`pid`, `leader`, `rest`), its pump (`pump`, `discard`) and, as the value of
`exitCode`, the exit status it left. `rest` is the group's members other than the
leader. Process ids come from the small set `Pids` and are handed out only while
no group has them, as a kernel does; `strangers` are groups of other programs.

| Code | Actions |
|---|---|
| `start_all`, `stop_all`, `start`/`stop`/`restart`, `poll_exits`, `stop_monitor`, `start_monitor` | `StartAll`, `StopAll`, `WithManaged`, `PollExits`, `JoinMonitor`, `StartMonitor` |
| the monitor's loop | `MonitorTick`, `MonitorExit` |
| `lock()` and the loop over the table | `Acquire`, `Pick`, `Release` |
| `poll_exits`, `start_locked`, `stop_locked` up to the child | `PollSkips`, `TakeExited`, `StartAlreadyRunning`, `StartOver`, `NoChild`, `RequestTreeStop` |
| `terminate_tree`, `wait_group_drained`, `stop_orphaned_group` | `LeaderStopped`, `GraceExpires`, `ForceTreeStop`, `ReapKilled`, `WaitFails`, `GroupDrained`, `DrainExpires`, `KillOrphans` |
| `finish_capture`, `LogCapture::finish` | `CaptureFinished`, `CaptureLingers`, `CaptureDropped` |
| `mark_exited`, the end of `stop_locked`, spawning | `SettleExit`, `SettleStop`, `LaunchFails`, `LaunchSucceeds` |
| processes and `pump_log_stream` | `LeaderExits`, `LeaderForks`, `RestExits`, `StrangerStarts`, `StrangerExits`, `PumpReads`, `PumpWrites`, `PumpEnds` |

A wait with a timeout is two actions: what was waited for, and the timeout,
which may come at any time. A member may always survive SIGTERM; SIGKILL cannot
be survived but takes effect later. Processes that leave the group (`setsid`)
are outside the manager's reach; they appear only in that a pump need not end
when the group does.

`try_wait` can fail. On Unix it does so for one reason, that the child is not there to be
waited for, and the only way there is that the manager was started with SIGCHLD ignored, a
setting that is inherited and that the code never resets: the kernel then reaps each child as
it exits. `waitable` is this setting, chosen once in `Init`; a leader that exits under it is
`lost` (`Unknown`). Each place that asks about a child has its own answer to the error:
`poll_exits` takes it for no exit (`PollSkips`), `stop_locked` goes on to `terminate_tree`
(`RequestTreeStop`), which makes an exit up after both waits failed (`WaitFails`), and
`start_locked` launches over the child it still holds (`StartOver`), whose group is never
looked at again. Such a launch is `Forsaken`; the properties name it as their exception, and
nothing else is excepted.

Not modelled: unmanaged and disabled services (every
operation returns before the table), and the Windows half of the code.

`ServiceSlots` is what the manager promises of each service: a slot that holds
at most one live tree, filled by a fresh launch, reported stopped or crashed
only when empty. `ServiceManager!ImplementsSlots` instantiates it with the
launches that are alive and whose leader `try_wait` would know of.

### Manager

One operation at a time, as `&mut self` demands, each a sequence of steps: one
call it makes or one check it returns on (`Apply`, `Start`, `Load`,
`ResolveRoutes`, `LaunchRefused`/`Launched`, `Replace`, `Bound`/`BindFails`,
`StopProxy`, `StopServices`, `ServiceOp`). `EditByHand` may change the file
between any two. A configuration is an opaque value; `Unroutable` and
`Unlaunchable` are those that fail at later checks; `Broken` does not parse.
Services are a generation number (which `ServiceManager` object) and the set of
generations with live processes: `ServiceManager` is the detail of one, and its
`StopAllLeavesNothing` is what justifies removing a generation in one step.
Binding may fail for any reason; so may launching a launchable configuration.

### Desktop

`Desktop` EXTENDS `Manager` and drives its operations through the mutex. One
action is one callback of the event loop (two where a refresh switches to the editor,
since the text is loaded under a second `try_lock`, `LoadShown`), or one step of the worker (`WorkerLocks`,
the manager's own steps through `Operate`, `WorkerReleases`, `WorkerSends`), or
one step after the loop (`LoopEnds`, `ShutDown`, `ShutDownReturns`, `Exit`).
`Enabled` is the condition under which `ui/app.slint` enables a control. A text
in the editor is the configuration it parses to. Left out: the log view, the
list of routes, selection, messages: nothing else reads them.

### Instance

A process is at a place of `run`: `starting` (lock held, login shell asked),
`serving`, `leaving` (frontend returned), `unlocking` (listener gone, lock held),
or `knocking`. Time is counted in ticks; a tick cannot pass while somebody would
be late: connecting and writing one byte to a listener takes no tick. `endpoint` is whose listener the socket's name leads to: a killed
process may leave it. A kill may hit any primary at any time.

### LogRotation

One action is one system call of `open`, `write_bytes` and `rotate`; each can
fail and the process can be killed between any two. Bytes are numbered as they
are written, so a file is a set of numbers and the order of files is visible.
`writer` is who writes: the manager's own `SharedLog`, which goes on with the next message
after a failure, or in a service's log first `start_locked`, which writes a header, ignores what
becomes of it (`process.rs:223`) and hands the writer on (`PumpTakesOver`), and then the pump,
muted by its first failure. `torn` counts the bytes of failed writes after which their writer
went on: those that `size` misses. `Tail` is `tail_file`: the chunks
it reads backwards (`ReadBack`) and the lines it keeps; since files only grow, it
is a function of the file at its seek and of where lines end.

### Proxy

An action is what a Tokio task does between two awaits: `bind` address by address
(`Bind`, `Listen`, `ListenFails`, `Listening`) and spawn by spawn (`SpawnAccept`,
`LocalAddrFails`), the accept loop (`Accept`, `AcceptFails`, `BackoffEnds`,
`LoopStops`), a connection in `handle` (`Forward`, `Dial`, `Switch`, ...), its
upgraded upstream (`HandOver`, `UpstreamEnds`) and its tunnel (`Join`, `JoinFails`,
`TunnelEnds`, `TunnelStops`), and `shutdown` (`Shutdown`, `ShutdownReturns`). The watch channel is
`signal`: quiet, sent, or its sender gone. Servers follow each other as `Manager`
calls them, but what is left of an earlier one (connections, tunnels, the accept
tasks of a bind that gave up while spawning) goes on beside the next.

`ProxyPromise` says what a client sees: one server takes clients in at a time, a
session stays with the server it began with, and a server that is told to stop
lets go of its clients. `Proxy!ImplementsPromise` maps the accept tasks, the signals
and the tasks of a connection to it, with fairness.

### ShellPath

The query of the login shell: the child, what it prints (nothing, a part, or both
markers), a process of its rc files that holds the pipe, the reader thread, and the
caller, who first waits for the exit and then for the reader until the deadline.
`Instance` EXTENDS it: each primary makes the query between taking the lock and
listening, and its clock is the deadline. PATHs are sequences of what stands between the
separators. `Mangled` gives the names that are not UTF-8 and what `from_utf8_lossy` makes of
them (`Decode`); two may become one. An inherited PATH that is not UTF-8 is `Garbled`.

### Config, Routes, Startup

`Config` reads the tables of a file into a manifest and expands a command's
placeholders; `Routes` resolves a manifest to a table of targets and answers a
request; both are operators and recursive functions. `Startup` strings them
together as `Manager::start` does (`Load`, `Resolve`, `Prepare`, `Serve`): each step takes the
manifest and looks at the process environment by itself, and its properties
relate their results to each other and to the file. `Manager` models what happens
when one of them fails. A table is a function with `Missing` for absent keys, a value of a
wrong type is `Wrong`; characters matter only in arguments, hosts, paths and values.

## 3. The runs

On two workers `services_two` and `instance` take between two and three minutes each,
`services_one` and `proxy` about one, the others seconds.

| Run | Instance | Shows |
|---|---|---|
| `services_one` | one service, one launch, one restart, two pids, groups of other programs, fair threads | every call returns though children ignore SIGTERM, cannot be waited for, and pumps hang (`CallsReturn`); a crash is noticed while the monitor is on (`CrashNoticed`) |
| `services_two` | two services, two launches, two pids, with and without children that can be waited for | at most one live tree (`OneLiveTree`), none behind a service shown stopped (`NoUntrackedTree`), true snapshots (`SnapshotHonest`), only the current capture starts writes (`OnlyCaptureWrites`); the inductive invariant of the proofs (`IInv`); no kill reaches another service although ids are reused (`SiblingsSafe`); `stop_all` leaves nothing (`StopAllLeavesNothing`); the manager implements `ServiceSlots` |
| `orphan_id` | one service, groups of other programs | finding 1 |
| `log_alone` | one service | finding 2 |
| `manager` | four configurations (two good, one with bad routes, one that cannot be launched), three generations | what runs is what is served (`RunningExactlyWhileServing`), generations never overlap (`OneGeneration`), answers hold (`AnswerHonest`), nothing goes down without a cause, and what is said to be a restart had one (`DownOnlyForCause`), and the inductive invariant |
| `desktop` | two configurations, two generations | `ShownIsTrue`, `UnsavedEditsOnScreen`, `ShutDownStops`, the inductive `WorkInv`, and under fair threads `BusyEnds` and `QuitExits` |
| `exit_race` | as `desktop`, one generation | finding 3 |
| `instance` | three launches, three ticks for the shell and one for a knock, inherited and login PATHs that share directories, have empty entries, or are not UTF-8 | one primary (`OnePrimary`), requests reach only it (`ListenerHoldsLock`) and are answered while it serves (`RequestsAnswered`), launches settle (`LaunchSettles`), PATH loses nothing (`PathRestored`) |
| `startup_window` | as `instance`, a tick of half a second | finding 4 |
| `log_rotation` | files of three bytes, three backups, 14 bytes, three failures, chunks of two | the cap but for what torn writes leave, order, no gap, at most one file lost per failure, every tail of every file however its lines end (`TailRight`), and the inductive invariant (`LogInv`) |
| `proxy` | two addresses, every list of one or two of them (twice the same one too), two clients, two servers | a server accepts only once all its addresses listen and its tasks fit together (`ProxyInv`), its addresses are free when it is down (`FreedWhenDown`), clients get what `ProxyPromise` says |
| `startup` | 100 000 files: every choice of keys and odd values in a service, a route and the top level; every argument of up to six of four characters; two services with variables, sockets and hosts in common | `NothingIgnored`, `ArgumentsAsWritten`, `SameValueEverywhere`, `RouteAsDeclared` |

Why these bounds are enough. Two launches are the least that can collide over
a log file, a pid or a table entry, and two pids the least for an id to be
reused or not; a third launch of a service only repeats the second, since the
table remembers one child and one capture. With `MaxRestarts = 0` the call `restart` is left out of
`services_two`, where it is a `stop` and a `start` under one lock; `services_one` and the two
findings have it. `services_one` asks whether waits end, and every wait is about one launch. `Strange` keeps other programs' groups
out of `services_two`: the manager kills them only in the window of finding 1, which
`orphan_id` has, and in the proofs `Strange` is any set of ids. Three generations let a restart
follow a restart. Three instances are a primary, its successor and a knocking
third. Three backups give the shift loop a first, a middle and a last step, and
14 bytes with three failures fill every file and cut three rotations short. Two
servers are one and its successor, the only pairs that meet; two addresses are the
least for one to fail after the other. Six characters are a placeholder between others,
two in a row, or one inside an open brace. The references that `startup`
compares with are stated over positions and sets (a hole is a pair of positions, a request goes to the
least declared route), not as scans.
`MaxLaunches`, `MaxRestarts`, `MaxStarts`, `MaxServers`, `Bytes` and `Failures` are bounds of
the instance, not of the program; the proofs hold for every value of them.

`CHECK_DEADLOCK FALSE` is set where the program really ends: after `Exit`
(Desktop), when every process is gone (Instance), when a file is rejected (Startup).

Symmetry: pids (and the two services, both launched by `start_all`) are
interchangeable. The liveness runs use no symmetry; `RequestsAnswered`
asks it of one launch, since launches are interchangeable.

### Fairness

* `ServiceManager!FairSpec`: threads run (weak fairness of each step); a mutex
  that keeps being free is eventually taken (strong fairness of `Acquire`: the
  monitor sleeps `MONITOR_INTERVAL` between two passes); SIGKILL takes effect.
  Nothing is assumed of children, descendants or pumps otherwise.
* `Manager!ManagerFairSpec`: the step of an operation in progress is taken; binding and
  stopping return (the former by the operating system, the latter by `CallsReturn`).
* `Desktop!DesktopFairSpec`: the worker is scheduled, the event loop gets to a
  queued outcome and to a requested quit, the main thread runs on after the loop.
  Nothing is assumed of the user.
* `Instance!InstanceFairSpec`: processes run and time passes; nobody has to quit, and
  nothing is assumed of the login shell.
* `Proxy!ProxyFairSpec`: tasks that can proceed are polled (weak fairness), and an accept loop
  that wakes again and again with both branches of its `select!` ready comes to
  take the stop (strong fairness of `LoopStops`: `select!` is not biased). Nothing is
  assumed of clients and upstreams.

## 4. What is proved

TLAPS checks these for every value of the constants allowed by the modules' assumptions
(`ServicesAssumption`, `ManagerAssumption`, `InstanceAssumption`, `ShellPathAssumption`,
`ProxyAssumption`, `LogAssumption`, `StartupAssumption`, `LowerAssumption`,
`PlaceholderAssumption`): any number of services, launches and pids, any set of
configurations, any number of processes, of addresses, clients and servers, PATHs of any
length, logs of any size with any cap, number of backups and chunk size, files with any tables,
nested and valued in any way, and requests with any host.

* `ServiceManagerProofs`. `TypeCorrect`, `Invariance`, and from it `OneTreePerService`,
  `EveryTreeTracked`, `KillsStayHome`, `SnapshotsHonest`, `CaptureAlone`, `NothingLeft`. The properties are not inductive: that
  a service has one live tree says nothing of a tree that an operation has
  taken off the table and not yet killed. `ServiceManagerInv!IInv` adds what does:
  program counters in the critical section mean the mutex is held (`LockInv`); an
  operation works on the service it took and holds the launch it took off the
  table (`FrameInv`); launches are born in order (`BornInv`); a child belongs to
  its service (`ChildInv`); a live tree is a child of the table, in the hands of
  one operation, or forsaken (`TreeInv`); status and child agree outside operations
  (`StatusInv`); groups that exist have different ids, also from the id an
  operation is about to kill or a lost child of the table has (`PidInv`, `AloneInv`). Snapshots and `stop_all` need
  more: what an operation is at work for, and so what its next step will do to the
  status (`WhyInv`); that the code shown, the child and the launch in an operation's
  hands are the newest launch of their service (`CodeInv`); that a pump not
  told to discard belongs to the capture, and that an operation about to launch has
  dropped it (`CaptureInv`); that a `stop_all` has joined the monitor, launches
  nothing, and leaves empty the slots it has been through (`StopInv`). One step per
  action, one sub-step per conjunct it can disturb. `ManagerImplementsSlots` is the refinement
  `ImplementsSlots` as a whole (`ServiceSlots` states no fairness). A service's view is its
  status, its slot the set of its launches with a live tree whose leader is not lost; by `IInv` each step of a thread, a
  child, a pump or another program fills, empties or reports one slot, or is a stutter.
* `ManagerProofs`. `ManagerInvariance`, `RunsWhatItServes`, `ProxyAndServicesAgree`,
  `OneGenerationLives`, `AnswersAreHonest`, `OnlyForCause`. `ManagerInv` says what
  holds at each step of an operation: everything is down while a configuration
  is loaded (`DownWhileLoading`), only what resolves is launched
  (`LoadedResolves`), what is held follows the step (`HeldInStep`), results and
  return points fit the operation (`ReturnInStep`, `CauseInStep`).
* `DesktopProofs`. `WorkInvariance`: an operation in progress belongs to the holder of the
  mutex. `ShowsTheTruth`, `EditsStayOnScreen`, `ShutDownStopsAll` follow from it, `ScreenInv`
  and `ManagerInv`, which holds beneath the desktop since its actions are Manager's or
  leave the manager alone (the lemma `DesktopUsesManager`).
* `InstanceProofs`. `OneInstance`, `ReachesTheHolder`: inductive together with where
  requests wait (`RequestsAwaited`). `InstanceTyped`, and `PathIsRestored`: one step sets `PATH`, from an answer
  that was sent whole, to `MergePath` of both PATHs, the answer decoded (`DecodedDirs`); `MergeRight` says what that is for
  every two sequences. `merged` is a recursive function, so the lemma is about each
  of its values, by `LeastNatural`.
* `LogRotationProofs`. `LogInvariance`, and from it `NoFileExceedsCap`, `FilesContiguous`,
  `LossIsBounded`; `TailIsRight`. `Contiguous` and `CapHeld` are not inductive: the
  log could be written through a handle that a rename has carried to a backup, or
  a rename could land on a file that is there. `HandleInv` excludes both: a handle on a
  backup has a size at the cap, which lets no byte through, and the slot that a rotation
  fills next is empty. `CapInv` relates the size to the log: it misses at most what is `torn`. `LossBounded` needs to know of each file how far back its bytes lie
  (`BehindInv`): what `RemoveOldest` deletes is then as old as the failures so far allow.
  `TailIsRight` is about `ReadBack`, the recursive function of `tail_file`'s loop: whatever
  the chunk size, it stops at the start of the file or behind a line more than is asked for.
* `LeastNatural`. `Least`: a set of naturals that is not empty has a least element, the
  induction of the proofs about recursive functions, stated over a set since no
  installed prover can instantiate a theorem that takes an operator.
* `ProxyProofs`. `ProxyInvariance`, `FreedAfterShutdown`, `KeepsPromise`. That a server accepts
  only once all its addresses listen is not inductive: `ProxyInv` adds where the two
  loops of `bind` are in the list, whose addresses are by then distinct (`LoopsFit`),
  and that every listener of an earlier server is one that a bind left half spawned,
  with an accept task that the dropped signal will end (`SignalsFit`). From it follows
  that addresses are free when the proxy is down, and that each step is a step of
  `ProxyPromise` or none: the first accept task of a server is `Up`, the end of its
  last is `Down`. `Promise!Spec` is the safety of `ImplementsPromise`; its fairness is TLC's.

* `StartupProofs`. `StartupInv` is inductive at once: each result is what its step makes of the
  file and the environment. What takes the work is what follows from it.
  `NoKeyIsIgnored` goes table by table: a key that is left out of a route changes what the
  route reads as (`RouteKeyMatters`), that its service (`RouteMatters`), and that the manifest
  (`ServiceMatters`). `ValuesAgree` rests on `ChildFinds`: the child's environment and
  `service_value` have the same value for every variable. For `RequestsGoAsDeclared` the
  recursive `Declared`, `ResolveRoutes` and `FlattenSeq` are shown to have solutions and to
  list every route and every host in order (`DeclaredIsSeq`, `ResolvedRight`,
  `PatternsRight`), so that what is found first is the least (`FindRight`), and what
  `strip_port` leaves is the host that was meant (`HostIsMeant`). `ArgumentsAreFilled` relates
  the scan from left to right to the set of holes, stated without it: holes do not meet
  (`HolesApart`), and at every position outside of them what was put together before it
  and what is scanned from it on are the whole (`ScanFills`). The assumptions say what
  the types of the code do: arrays and texts are sequences, a variable that is set has a
  value, braces are no letters or digits, and `to_ascii_lowercase` makes no wildcard.
  `WellMeant` is about requests only: what a client says is the host it means, with or without a port.

Every invariant and action property that a run checks is proved, and so are the two
refinements, but for the fairness of `ImplementsPromise`. Only model-checked is liveness
(`CallsReturn`, `CrashNoticed`, `BusyEnds`, `QuitExits`, `LaunchSettles`, `RequestsAnswered`, and that fairness): it is
out of the prover's reach. The four refutations of section 5 are TLC's.

## 5. Findings

Four places where a comment or the documentation says more than the code does;
each is a run that TLC refutes.

1. `orphan_id`, `src/process.rs:616`. A crashed child is reaped before its group
   is killed. The comment says the id "cannot have been reused yet" because the
   group outlives its leader "while any member remains"; when none remains the
   id is free for another program in that window. (`SiblingsSafe` shows that the
   manager's own launches are safe: the mutex keeps them out.)
2. `log_alone`, `src/process.rs:104`. `LogCapture::finish` gives up after
   `LOG_DISCARD_TIMEOUT`; a pump that read the discard flag before it was raised
   and is stalled in its write does not leave the log to the next launch "alone".
3. `exit_race`, `src/desktop.rs:65`. A worker that was spawned and has not locked the
   manager when the event loop ends takes the lock after `shut_down` and starts
   services again, which live on when the process exits.
4. `startup_window`, `src/main.rs:133`. A later launch knocks for 1.5 s; the primary
   may ask the login shell for 5 s before it listens, so the retries do not
   "cover the window".

Four more statements that the code does not keep, each in a corner where the properties
above state it as their exception; they have no run of their own:

* `src/process.rs:385` and `src/README.md:167-169`: `stop_all` stops "every managed service",
  "together with its child processes". Where children cannot be waited for (SIGCHLD ignored)
  a launch goes over the child that the table holds (`src/process.rs:200`), and what is alive
  of the earlier group is never stopped. `ServiceManager!StopAllStops` is the statement; TLC refutes it
  with the constants of `log_alone.cfg`.
* `src/log_rotation.rs:89`: "splitting it across files so none exceeds the cap". A write that
  fails half way leaves bytes that `size` does not count (`:96`); the manager's own log, and a
  service's whose header failed (`src/process.rs:223`), are written on and come to exceed the cap by
  them. `LogRotation!NoneExceedsCap` is the statement, `CapHeld` what is true.
* `src/proxy.rs:68`: `bind` "Fails without serving if any address fails". If `local_addr` fails for a
  later address (`:90`), the accept tasks of the earlier ones have been spawned and take clients in
  until they see that the sender is gone (`Proxy!LocalAddrFails`; `ProxyInv` and `ProxyPromise`
  say what holds of such a server: its signal is gone, and it lets go of its clients).
* `src/desktop.rs:441`: the banner "No services.toml exists yet" is also shown when `load_config` did
  not get the manager's lock, in the step `LoadShown`; the editor then keeps the text it had.

Met on the way, where no comment or document is contradicted:

* a variable of the process that is not Unicode is invisible to routes and
  placeholders, which then use the service's own value, while the child is given
  the process's (`src/process.rs:331` and `:339`; `SameValueEverywhere` states the exception);
* an inherited PATH that is not UTF-8 counts as empty and is replaced
  (`src/shell_env.rs:103-106`), and a directory of the login shell's that is not UTF-8
  is altered (`:64`) and no longer found; `PathRestored` states both exceptions;
* a route host in brackets such as `[::1]` is taken for a glob (`src/routes.rs:116`);
* duplicates among the addresses of `bind` are removed only within one entry, so two
  entries that resolve to one address fail the bind (`src/proxy.rs:131`);
* an edit whose placeholders do not resolve is saved and, when it is applied, takes
  down what ran (`src/manager.rs:220`, as with any other configuration that cannot be launched).

## 6. Plan

Done: `ServiceManager` with its slots, `Manager`, `Desktop` over it, `Instance`, and `Proxy` with
its promise, with proofs; `LogRotation`, `ShellPath` under `Instance`, and `Config`, `Routes` and
`Startup`. Next, by importance:

1. `LogRotation` with two writers on one path (what follows `log_alone`).
2. `ServiceManager` and `Proxy` under `Manager` in one specification. That a stop leaves nothing
   alive and frees the addresses is proved of each alone (`NothingLeft`, `FreedAfterShutdown`);
   that `Manager` may therefore take one step for each is an argument of this file.

## 7. Not modelled, and why

* Errors of `try_wait` other than those of children that the kernel has reaped: `waitpid` on an own
  child has no others. It is assumed that the kernel gives no new child the id of a lost one
  that the table still holds (`FreeIds`).
* Windows (job objects, `CTRL_BREAK`, the restart with another PATH): a second implementation
  of the same operations; the Unix one is modelled.
* HTTP itself (headers, bodies, keep-alive pools), the syntax of TOML and the matching of
  globs: what libraries do. `Globbed` is a table of the pairs that match.
* The portal's HTML and the list of routes, paths, syntax colouring, logging setup: pure
  presentation or run once.
* The headless frontend: `start`, wait, `stop`, with no state of its own; `Manager`'s
  properties are about exactly these calls.
* The window's lists, log view and messages: nothing that runs or is saved depends on them.
