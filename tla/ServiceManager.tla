--------------------------- MODULE ServiceManager ---------------------------
(***************************************************************************)
(* The service manager of src/src/process.rs on Unix.  One table of        *)
(* services behind one mutex is used by two threads: the caller, which     *)
(* runs the public operations, and the crash monitor, which polls for      *)
(* exits.  Every launch of a service is a process group led by the child,  *)
(* plus a pump thread that copies the child's output to the log.           *)
(*                                                                         *)
(* Services are the managed ones only: an unmanaged or disabled service    *)
(* has no Launch and every operation returns before it touches the table.  *)
(***************************************************************************)
EXTENDS Naturals, FiniteSets

CONSTANTS Services,     \* managed services of the manifest
          AutoStart,    \* those start_all launches
          Pids,         \* process ids the kernel hands out
          Strange,      \* those that other programs may get, too
          MaxLaunches,  \* bound: successful spawns in a behaviour
          MaxRestarts,  \* bound: restart_count of a service
          NoService, NoPid

ASSUME ServicesAssumption ==
  /\ AutoStart \subseteq Services
  /\ NoService \notin Services
  /\ NoPid \notin Pids
  /\ Strange \subseteq Pids
  /\ MaxLaunches \in Nat
  /\ MaxRestarts \in Nat

Launch == 1 .. MaxLaunches     \* launches, numbered in the order they happen
NoLaunch == 0                  \* the None of an Option<Child>, an exit code...
MaybeLaunch == Launch \cup {NoLaunch}
Threads == {"caller", "monitor"}

VARIABLES
  \* the table of ServiceInfo, guarded by the mutex
  status, exitCode, restarts, child, capture,
  \* the operating system: one process group per launch, and other programs
  waitable, launched, owner, pid, leader, rest, strangers,
  \* the pump thread of each launch
  pump, discard,
  \* the two threads: the mutex, their program counters and locals
  lock, pc, op, todo, svc, cur, why, stopSent

table   == <<status, exitCode, restarts, child, capture>>
os      == <<waitable, launched, owner, pid, leader, rest, strangers>>
logs    == <<pump, discard>>
frame   == <<svc, cur, why>>
request == <<op, todo, stopSent>>
vars    == <<table, os, logs, lock, pc, frame, request>>

(***************************************************************************)
(* exitCode holds the launch whose ExitStatus was recorded: which launch a *)
(* code belongs to is what the properties tell apart, not its value.       *)
(* leader is the child itself, rest the other members of its group, each   *)
(* "killed" once SIGKILL is pending; a zombie leader awaits its reaper.    *)
(*                                                                         *)
(* waitpid on an own child fails only where there is none left to wait     *)
(* for.  Nothing else in the manager waits for its children, but it may be *)
(* started with SIGCHLD ignored, which the code never resets (waitable is  *)
(* FALSE): the kernel then reaps each child as it exits.  Such a leader is *)
(* "lost": try_wait returns an error for it, now and ever after.           *)
(***************************************************************************)
Statuses    == {"running", "stopped", "crashed"}
LeaderState == {"unborn", "alive", "killed", "zombie", "reaped", "lost"}
RestState   == {"none", "alive", "killed"}
PumpState   == {"none", "reading", "writing", "muted", "done"}
Ops         == {"none", "start_all", "stop_all", "start", "stop", "restart",
                "poll"}

Working  == {"start", "stop", "poll", "orphan", "graceful", "force", "forced",
             "drain", "finish", "discard", "settle", "spawn"}
Critical == Working \cup {"next"}
Outside  == {"idle", "lock", "join", "start_monitor", "off", "sleep", "exited"}

TypeOK ==
  /\ status \in [Services -> Statuses]
  /\ exitCode \in [Services -> MaybeLaunch]
  /\ restarts \in [Services -> Nat]
  /\ child \in [Services -> MaybeLaunch]
  /\ capture \in [Services -> MaybeLaunch]
  /\ waitable \in BOOLEAN
  /\ launched \in 0 .. MaxLaunches
  /\ owner \in [Launch -> Services \cup {NoService}]
  /\ pid \in [Launch -> Pids \cup {NoPid}]
  /\ leader \in [Launch -> LeaderState]
  /\ rest \in [Launch -> RestState]
  /\ strangers \subseteq Pids
  /\ pump \in [Launch -> PumpState]
  /\ discard \in [Launch -> BOOLEAN]
  /\ lock \in Threads \cup {"free"}
  /\ pc \in [Threads -> Critical \cup Outside]
  /\ op \in [Threads -> Ops]
  /\ todo \in [Threads -> SUBSET Services]
  /\ svc \in [Threads -> Services \cup {NoService}]
  /\ cur \in [Threads -> MaybeLaunch]
  /\ why \in [Threads -> {"none", "exit", "stop", "start"}]
  /\ stopSent \in BOOLEAN

Init ==
  /\ status = [s \in Services |-> "stopped"]
  /\ exitCode = [s \in Services |-> NoLaunch]
  /\ restarts = [s \in Services |-> 0]
  /\ child = [s \in Services |-> NoLaunch]
  /\ capture = [s \in Services |-> NoLaunch]
  /\ waitable \in BOOLEAN
  /\ launched = 0
  /\ owner = [l \in Launch |-> NoService]
  /\ pid = [l \in Launch |-> NoPid]
  /\ leader = [l \in Launch |-> "unborn"]
  /\ rest = [l \in Launch |-> "none"]
  /\ strangers = {}
  /\ pump = [l \in Launch |-> "none"]
  /\ discard = [l \in Launch |-> FALSE]
  /\ lock = "free"
  /\ pc = [t \in Threads |-> IF t = "caller" THEN "idle" ELSE "off"]
  /\ op = [t \in Threads |-> "none"]
  /\ todo = [t \in Threads |-> {}]
  /\ svc = [t \in Threads |-> NoService]
  /\ cur = [t \in Threads |-> NoLaunch]
  /\ why = [t \in Threads |-> "none"]
  /\ stopSent = FALSE

-----------------------------------------------------------------------------
(* Process groups.  A group, and so its id, exists while it has a member,  *)
(* zombies included; the kernel gives out no pid that names a group.       *)

GroupHeld(l) == leader[l] \in {"alive", "killed", "zombie"} \/ rest[l] # "none"

GroupExists(p) ==
  p \in strangers \/ \E l \in Launch : pid[l] = p /\ GroupHeld(l)

\* some process of the launch can still do work
Live(l) == leader[l] = "alive" \/ rest[l] = "alive"

Kill(state) == IF state = "alive" THEN "killed" ELSE state

\* killpg(p, SIGKILL): whoever holds the group id p now is hit
KillGroup(p) ==
  /\ leader' = [l \in Launch |-> IF pid[l] = p THEN Kill(leader[l]) ELSE leader[l]]
  /\ rest' = [l \in Launch |-> IF pid[l] = p THEN Kill(rest[l]) ELSE rest[l]]
  /\ strangers' = strangers \ {p}
  /\ UNCHANGED <<waitable, launched, owner, pid>>

Reap(l) ==
  /\ leader[l] = "zombie"
  /\ leader' = [leader EXCEPT ![l] = "reaped"]
  /\ UNCHANGED <<waitable, launched, owner, pid, rest, strangers>>

\* the three answers of try_wait to the child that the table holds
Exited(s)  == child[s] # NoLaunch /\ leader[child[s]] = "zombie"
Unknown(s) == child[s] # NoLaunch /\ leader[child[s]] = "lost"
Runs(s)    == child[s] # NoLaunch /\ ~Exited(s) /\ ~Unknown(s)

\* ids the kernel may give to a new child.  None is that of a lost child which the
\* table still holds: with it, waitpid on the one would answer for the other.
FreeIds ==
  {p \in Pids : ~GroupExists(p) /\ \A s \in Services : Unknown(s) => pid[child[s]] # p}

-----------------------------------------------------------------------------
(* Program counters.                                                       *)

At(t, p) == pc[t] = p
Goto(t, p) == pc' = [pc EXCEPT ![t] = p]

SetFrame(t, s, l, w) ==
  /\ svc' = [svc EXCEPT ![t] = s]
  /\ cur' = [cur EXCEPT ![t] = l]
  /\ why' = [why EXCEPT ![t] = w]

\* the loop body, or the call, on one service is over
EndService(t) == Goto(t, "next") /\ SetFrame(t, NoService, NoLaunch, "none")

-----------------------------------------------------------------------------
(* The public operations, as the caller issues them: one at a time, in any *)
(* order.  Drop is one more stop_all.                                      *)

Request(o, S) ==
  /\ At("caller", "idle")
  /\ op' = [op EXCEPT !["caller"] = o]
  /\ todo' = [todo EXCEPT !["caller"] = S]

StartAll ==
  /\ Request("start_all", AutoStart)
  /\ Goto("caller", "lock")
  /\ UNCHANGED <<table, os, logs, lock, frame, stopSent>>

\* mutants: the monitor is told to stop but not joined, and the reverse
StopAllUnjoined ==
  /\ Request("stop_all", Services)
  /\ stopSent' = ~At("monitor", "off")
  /\ Goto("caller", "lock")
  /\ UNCHANGED <<table, os, logs, lock, frame>>

StopAllUntold ==
  /\ Request("stop_all", Services)
  /\ Goto("caller", IF At("monitor", "off") THEN "lock" ELSE "join")
  /\ UNCHANGED <<table, os, logs, lock, frame, stopSent>>

\* stop_monitor first: dropping the sender wakes the monitor, then join it
StopAll ==
  /\ Request("stop_all", Services)
  /\ stopSent' = ~At("monitor", "off")
  /\ Goto("caller", IF At("monitor", "off") THEN "lock" ELSE "join")
  /\ UNCHANGED <<table, os, logs, lock, frame>>

JoinMonitor ==
  /\ At("caller", "join")
  /\ At("monitor", "exited")
  /\ pc' = [pc EXCEPT !["caller"] = "lock", !["monitor"] = "off"]
  /\ stopSent' = FALSE
  /\ UNCHANGED <<table, os, logs, lock, frame, op, todo>>

WithManaged(s) ==
  /\ \E o \in {"start", "stop", "restart"} :
       /\ o = "restart" => restarts[s] < MaxRestarts
       /\ Request(o, {s})
  /\ Goto("caller", "lock")
  /\ UNCHANGED <<table, os, logs, lock, frame, stopSent>>

PollExits ==
  /\ Request("poll", Services)
  /\ Goto("caller", "lock")
  /\ UNCHANGED <<table, os, logs, lock, frame, stopSent>>

\* the last step of start_all; the thread may fail to spawn
StartMonitor ==
  /\ At("caller", "start_monitor")
  /\ \/ Goto("caller", "idle")
     \/ /\ At("monitor", "off")
        /\ pc' = [pc EXCEPT !["caller"] = "idle", !["monitor"] = "sleep"]
  /\ UNCHANGED <<table, os, logs, lock, frame, request>>

MonitorTick ==
  /\ At("monitor", "sleep")
  /\ ~stopSent
  /\ Goto("monitor", "lock")
  /\ op' = [op EXCEPT !["monitor"] = "poll"]
  /\ todo' = [todo EXCEPT !["monitor"] = Services]
  /\ UNCHANGED <<table, os, logs, lock, frame, stopSent>>

\* mutant: the monitor takes a timeout for a disconnected sender
MonitorExitEarly ==
  /\ At("monitor", "sleep")
  /\ Goto("monitor", "exited")
  /\ UNCHANGED <<table, os, logs, lock, frame, request>>

MonitorExit ==
  /\ At("monitor", "sleep")
  /\ stopSent
  /\ Goto("monitor", "exited")
  /\ UNCHANGED <<table, os, logs, lock, frame, request>>

-----------------------------------------------------------------------------
(* The mutex, and the loops over the table it protects.  The code walks    *)
(* the table in declaration order; any order is allowed here.              *)

\* mutant: the table is used without its mutex
FreeAlways == TRUE

Free == lock = "free"

Acquire(t) ==
  /\ At(t, "lock")
  /\ Free
  /\ lock' = t
  /\ Goto(t, "next")
  /\ UNCHANGED <<table, os, logs, frame, request>>

Entry(o) ==
  IF o \in {"start_all", "start"} THEN "start"
  ELSE IF o \in {"stop_all", "stop", "restart"} THEN "stop"
  ELSE "poll"

Pick(t) ==
  /\ At(t, "next")
  /\ \E s \in todo[t] :
       /\ todo' = [todo EXCEPT ![t] = @ \ {s}]
       /\ SetFrame(t, s, NoLaunch, "none")
  /\ Goto(t, Entry(op[t]))
  /\ UNCHANGED <<table, os, logs, lock, op, stopSent>>

Release(t) ==
  /\ At(t, "next")
  /\ todo[t] = {}
  /\ lock' = "free"
  /\ Goto(t, IF t = "monitor" THEN "sleep"
             ELSE IF op[t] = "start_all" THEN "start_monitor" ELSE "idle")
  /\ UNCHANGED <<table, os, logs, frame, request>>

-----------------------------------------------------------------------------
(* poll_exits, start_locked and stop_locked, each a path through the same  *)
(* program counters; why says which one continues after a shared step.     *)

\* an error of try_wait counts as no exit here
PollSkips(t) ==
  /\ At(t, "poll")
  /\ status[svc[t]] = "running" => ~Exited(svc[t])
  /\ EndService(t)
  /\ UNCHANGED <<table, os, logs, lock, request>>

\* try_wait reaps a child that exited by itself, child.take() forgets it;
\* its group is killed only at the next step
TakeExited(t) ==
  /\ pc[t] \in {"poll", "start", "stop"}
  /\ At(t, "poll") => status[svc[t]] = "running"
  /\ Exited(svc[t])
  /\ Reap(child[svc[t]])
  /\ child' = [child EXCEPT ![svc[t]] = NoLaunch]
  /\ SetFrame(t, svc[t], child[svc[t]], IF At(t, "stop") THEN "stop" ELSE "exit")
  /\ Goto(t, "orphan")
  /\ UNCHANGED <<status, exitCode, restarts, capture, logs, lock, request>>

\* mutant: a crash leaves the background processes of the service alone
KillOrphansNot(t) ==
  /\ At(t, "orphan")
  /\ Goto(t, "finish")
  /\ UNCHANGED <<table, os, logs, lock, frame, request>>

\* stop_orphaned_group
KillOrphans(t) ==
  /\ At(t, "orphan")
  /\ KillGroup(pid[cur[t]])
  /\ Goto(t, "finish")
  /\ UNCHANGED <<table, logs, lock, frame, request>>

StartAlreadyRunning(t) ==
  /\ At(t, "start")
  /\ Runs(svc[t])
  /\ EndService(t)
  /\ UNCHANGED <<table, os, logs, lock, request>>

\* mutant: start treats a child that has not exited like one it cannot ask
StartOverRunning(t) ==
  /\ At(t, "start")
  /\ Unknown(svc[t]) \/ Runs(svc[t])
  /\ SetFrame(t, svc[t], NoLaunch, "start")
  /\ Goto(t, "finish")
  /\ UNCHANGED <<table, os, logs, lock, request>>

\* try_wait fails: start goes on over the child it holds, and drops it for the
\* next one without a look at what is left of its group
StartOver(t) ==
  /\ At(t, "start")
  /\ Unknown(svc[t])
  /\ SetFrame(t, svc[t], NoLaunch, "start")
  /\ Goto(t, "finish")
  /\ UNCHANGED <<table, os, logs, lock, request>>

\* no child: start goes on to a launch, stop only tidies up
NoChild(t) ==
  /\ pc[t] \in {"start", "stop"}
  /\ child[svc[t]] = NoLaunch
  /\ SetFrame(t, svc[t], NoLaunch, pc[t])
  /\ Goto(t, "finish")
  /\ UNCHANGED <<table, os, logs, lock, request>>

\* mutant: the table keeps the child while its tree is being terminated
RequestTreeStopKeeps(t) ==
  /\ At(t, "stop")
  /\ child[svc[t]] # NoLaunch
  /\ ~Exited(svc[t])
  /\ SetFrame(t, svc[t], child[svc[t]], "stop")
  /\ Goto(t, "graceful")
  /\ UNCHANGED <<table, os, logs, lock, request>>

\* terminate_tree, of a child that runs or cannot be asked: SIGTERM to the group,
\* which its members may ignore
RequestTreeStop(t) ==
  /\ At(t, "stop")
  /\ child[svc[t]] # NoLaunch
  /\ ~Exited(svc[t])
  /\ child' = [child EXCEPT ![svc[t]] = NoLaunch]
  /\ SetFrame(t, svc[t], child[svc[t]], "stop")
  /\ Goto(t, "graceful")
  /\ UNCHANGED <<status, exitCode, restarts, capture, os, logs, lock, request>>

\* wait_timeout: the leader exits within the grace period, or it does not, or an
\* error of try_wait ends the wait at once
LeaderStopped(t) ==
  /\ At(t, "graceful")
  /\ Reap(cur[t])
  /\ Goto(t, "drain")
  /\ UNCHANGED <<table, logs, lock, frame, request>>

GraceExpires(t) ==
  /\ At(t, "graceful")
  /\ Goto(t, "force")
  /\ UNCHANGED <<table, os, logs, lock, frame, request>>

ForceTreeStop(t) ==
  /\ At(t, "force")
  /\ KillGroup(pid[cur[t]])
  /\ Goto(t, "forced")
  /\ UNCHANGED <<table, logs, lock, frame, request>>

\* the second wait_timeout, or the blocking wait after it
ReapKilled(t) ==
  /\ At(t, "forced")
  /\ Reap(cur[t])
  /\ Goto(t, "finish")
  /\ UNCHANGED <<table, logs, lock, frame, request>>

\* the leader is lost: both waits fail and an exit is made up (unknown_exit)
WaitFails(t) ==
  /\ At(t, "forced")
  /\ leader[cur[t]] = "lost"
  /\ Goto(t, "finish")
  /\ UNCHANGED <<table, os, logs, lock, frame, request>>

\* wait_group_drained: the group is gone, or the deadline is reached
GroupDrained(t) ==
  /\ At(t, "drain")
  /\ ~GroupExists(pid[cur[t]])
  /\ Goto(t, "finish")
  /\ UNCHANGED <<table, os, logs, lock, frame, request>>

\* mutant: the leftovers of a stopped service are not killed
DrainExpiresUnkilled(t) ==
  /\ At(t, "drain")
  /\ Goto(t, "finish")
  /\ UNCHANGED <<table, os, logs, lock, frame, request>>

DrainExpires(t) ==
  /\ At(t, "drain")
  /\ Goto(t, "orphan")
  /\ UNCHANGED <<table, os, logs, lock, frame, request>>

-----------------------------------------------------------------------------
(* finish_capture: wait for the pump, then tell it to discard and wait     *)
(* once more; both waits give up after a timeout.                          *)

Finished(t) == IF why[t] = "start" THEN "spawn" ELSE "settle"

CaptureFinished(t) ==
  LET l == capture[svc[t]] IN
  /\ At(t, "finish")
  /\ l # NoLaunch => pump[l] = "done"
  /\ capture' = [capture EXCEPT ![svc[t]] = NoLaunch]
  /\ Goto(t, Finished(t))
  /\ UNCHANGED <<status, exitCode, restarts, child, os, logs, lock, frame, request>>

\* mutant: the discard flag is never raised
CaptureLingersUnmuted(t) ==
  LET l == capture[svc[t]] IN
  /\ At(t, "finish")
  /\ l # NoLaunch
  /\ pump[l] # "done"
  /\ Goto(t, "discard")
  /\ UNCHANGED <<table, os, logs, lock, frame, request>>

CaptureLingers(t) ==
  LET l == capture[svc[t]] IN
  /\ At(t, "finish")
  /\ l # NoLaunch
  /\ pump[l] # "done"
  /\ discard' = [discard EXCEPT ![l] = TRUE]
  /\ Goto(t, "discard")
  /\ UNCHANGED <<table, os, pump, lock, frame, request>>

\* the pump ends, or LOG_DISCARD_TIMEOUT passes without it
CaptureDropped(t) ==
  /\ At(t, "discard")
  /\ capture' = [capture EXCEPT ![svc[t]] = NoLaunch]
  /\ Goto(t, Finished(t))
  /\ UNCHANGED <<status, exitCode, restarts, child, os, logs, lock, frame, request>>

-----------------------------------------------------------------------------
(* The outcome is recorded once the capture is finished.                   *)

\* mark_exited; start_locked then goes on to launch the service again
SettleExit(t) ==
  LET s == svc[t] IN
  /\ At(t, "settle")
  /\ why[t] = "exit"
  /\ exitCode' = [exitCode EXCEPT ![s] = cur[t]]
  /\ status' = [status EXCEPT ![s] = "crashed"]
  /\ IF op[t] = "poll" THEN EndService(t)
     ELSE Goto(t, "finish") /\ SetFrame(t, s, NoLaunch, "start")
  /\ UNCHANGED <<restarts, child, capture, os, logs, lock, request>>

\* mutant: stopping a service without a child forgets its exit code
SettleStopForgets(t) ==
  LET s == svc[t] IN
  /\ At(t, "settle")
  /\ why[t] = "stop"
  /\ exitCode' = [exitCode EXCEPT ![s] = cur[t]]
  /\ status' = [status EXCEPT ![s] = "stopped"]
  /\ IF op[t] = "restart"
     THEN /\ restarts' = [restarts EXCEPT ![s] = @ + 1]
          /\ Goto(t, "start")
          /\ SetFrame(t, s, NoLaunch, "none")
     ELSE /\ UNCHANGED restarts
          /\ EndService(t)
  /\ UNCHANGED <<child, capture, os, logs, lock, request>>

\* the end of stop_locked; restart counts, then starts the service
SettleStop(t) ==
  LET s == svc[t] IN
  /\ At(t, "settle")
  /\ why[t] = "stop"
  /\ exitCode' = [exitCode EXCEPT ![s] = IF cur[t] = NoLaunch THEN @ ELSE cur[t]]
  /\ status' = [status EXCEPT ![s] = "stopped"]
  /\ IF op[t] = "restart"
     THEN /\ restarts' = [restarts EXCEPT ![s] = @ + 1]
          /\ Goto(t, "start")
          /\ SetFrame(t, s, NoLaunch, "none")
     ELSE /\ UNCHANGED restarts
          /\ EndService(t)
  /\ UNCHANGED <<child, capture, os, logs, lock, request>>

\* the log cannot be opened, or the command cannot be spawned
LaunchFails(t) ==
  /\ At(t, "spawn")
  /\ status' = [status EXCEPT ![svc[t]] = "crashed"]
  /\ EndService(t)
  /\ UNCHANGED <<exitCode, restarts, child, capture, os, logs, lock, request>>

\* the child leads a new group; its pump starts, or fails to start and drops
\* both ends of the channel
LaunchSucceeds(t) ==
  LET s == svc[t]
      l == launched + 1 IN
  /\ At(t, "spawn")
  /\ l \in Launch
  /\ launched' = l
  /\ \E p \in FreeIds : pid' = [pid EXCEPT ![l] = p]
  /\ owner' = [owner EXCEPT ![l] = s]
  /\ leader' = [leader EXCEPT ![l] = "alive"]
  /\ \E first \in {"reading", "done"} : pump' = [pump EXCEPT ![l] = first]
  /\ capture' = [capture EXCEPT ![s] = l]
  /\ child' = [child EXCEPT ![s] = l]
  /\ status' = [status EXCEPT ![s] = "running"]
  /\ exitCode' = [exitCode EXCEPT ![s] = NoLaunch]
  /\ EndService(t)
  /\ UNCHANGED <<restarts, waitable, rest, strangers, discard, lock, request>>

-----------------------------------------------------------------------------
(* Processes: they exit, fork and ignore SIGTERM as they please, but not   *)
(* SIGKILL.  A stranger is another program's process group.                *)

LeaderExits(l) ==
  /\ leader[l] \in {"alive", "killed"}
  /\ leader' = [leader EXCEPT ![l] = IF waitable THEN "zombie" ELSE "lost"]
  /\ UNCHANGED <<table, waitable, launched, owner, pid, rest, strangers, logs,
                 lock, pc, frame, request>>

LeaderForks(l) ==
  /\ leader[l] = "alive"
  /\ rest' = [rest EXCEPT ![l] = "alive"]
  /\ UNCHANGED <<table, waitable, launched, owner, pid, leader, strangers, logs,
                 lock, pc, frame, request>>

RestExits(l) ==
  /\ rest[l] # "none"
  /\ rest' = [rest EXCEPT ![l] = "none"]
  /\ UNCHANGED <<table, waitable, launched, owner, pid, leader, strangers, logs,
                 lock, pc, frame, request>>

StrangerStarts(p) ==
  /\ p \in Strange
  /\ ~GroupExists(p)
  /\ strangers' = strangers \cup {p}
  /\ UNCHANGED <<table, waitable, launched, owner, pid, leader, rest, logs, lock,
                 pc, frame, request>>

StrangerExits(p) ==
  /\ p \in strangers
  /\ strangers' = strangers \ {p}
  /\ UNCHANGED <<table, waitable, launched, owner, pid, leader, rest, logs, lock,
                 pc, frame, request>>

-----------------------------------------------------------------------------
(* pump_log_stream.  The discard flag is read before the write it guards.  *)
(* A process that left the group may hold the pipe for as long as it       *)
(* likes, and it may close it at any time.                                 *)

PumpReads(l) ==
  /\ pump[l] = "reading"
  /\ ~discard[l]
  /\ pump' = [pump EXCEPT ![l] = "writing"]
  /\ UNCHANGED <<table, os, discard, lock, pc, frame, request>>

\* a failed write mutes the pump for good
PumpWrites(l) ==
  /\ pump[l] = "writing"
  /\ \E next \in {"reading", "muted"} : pump' = [pump EXCEPT ![l] = next]
  /\ UNCHANGED <<table, os, discard, lock, pc, frame, request>>

\* end of stream, or a read error
PumpEnds(l) ==
  /\ pump[l] \in {"reading", "muted"}
  /\ pump' = [pump EXCEPT ![l] = "done"]
  /\ UNCHANGED <<table, os, discard, lock, pc, frame, request>>

-----------------------------------------------------------------------------

Call == StartAll \/ StopAll \/ PollExits \/ \E s \in Services : WithManaged(s)

Serve(t) ==
  \/ Pick(t) \/ Release(t)
  \/ PollSkips(t) \/ TakeExited(t) \/ KillOrphans(t)
  \/ StartAlreadyRunning(t) \/ StartOver(t) \/ NoChild(t)
  \/ RequestTreeStop(t) \/ LeaderStopped(t) \/ GraceExpires(t)
  \/ ForceTreeStop(t) \/ ReapKilled(t) \/ WaitFails(t) \/ GroupDrained(t) \/ DrainExpires(t)
  \/ CaptureFinished(t) \/ CaptureLingers(t) \/ CaptureDropped(t)
  \/ SettleExit(t) \/ SettleStop(t) \/ LaunchFails(t) \/ LaunchSucceeds(t)

Process(l) == LeaderExits(l) \/ LeaderForks(l) \/ RestExits(l)

PumpStep(l) == PumpReads(l) \/ PumpWrites(l) \/ PumpEnds(l)

Next ==
  \/ Call \/ JoinMonitor \/ StartMonitor \/ MonitorTick \/ MonitorExit
  \/ \E t \in Threads : Acquire(t) \/ Serve(t)
  \/ \E l \in Launch : Process(l) \/ PumpStep(l)
  \/ \E p \in Pids : StrangerStarts(p) \/ StrangerExits(p)

\* Every thread is scheduled and SIGKILL takes effect.  The mutex is handed
\* over while the monitor sleeps between two passes (MONITOR_INTERVAL), hence
\* strong fairness for whoever waits for it.
Fairness ==
  /\ \A t \in Threads : SF_vars(Acquire(t)) /\ WF_vars(Serve(t))
  /\ WF_vars(JoinMonitor) /\ WF_vars(StartMonitor)
  /\ WF_vars(MonitorTick) /\ WF_vars(MonitorExit)
  /\ \A l \in Launch : WF_vars(leader[l] = "killed" /\ LeaderExits(l))

Spec == Init /\ [][Next]_vars
FairSpec == Spec /\ Fairness

-----------------------------------------------------------------------------
(* What must hold.                                                         *)

\* some thread is in the middle of an operation on the service
Busy(s) == \E t \in Threads : svc[t] = s

\* A newer launch has taken the place of a child that could not be asked.
Forsaken(l) ==
  /\ leader[l] = "lost"
  /\ \E m \in Launch : l < m /\ owner[m] = owner[l]

\* A service never has two live process trees, whatever the order of starts,
\* restarts, polls and crashes (start_locked, terminate_tree, mark_exited), but
\* for those that start_locked has left behind on an error of try_wait.
OneLiveTree ==
  \A l, m \in Launch : Live(l) /\ Live(m) /\ owner[l] = owner[m] =>
    l = m \/ Forsaken(l) \/ Forsaken(m)

\* A tree that outlived its operation is still the manager's child: nothing
\* the manager launched runs on behind a service shown stopped or crashed, but
\* for a tree left behind, or about to be where the launch over it has failed.
NoUntrackedTree ==
  \A l \in Launch : Live(l) /\ ~Busy(owner[l]) =>
    \/ Forsaken(l)
    \/ child[owner[l]] = l /\ (status[owner[l]] = "running" \/ leader[l] = "lost")

\* What a snapshot shows between operations: running exactly with a child,
\* and then no exit code; otherwise the exit code of the newest launch, a
\* failed launch keeping the code of the one before.  A child that try_wait
\* knows nothing of is shown as it was, until a stop or a launch over it.
Newest(s) ==
  LET mine == {l \in Launch : owner[l] = s} IN
  IF mine = {} THEN NoLaunch ELSE CHOOSE l \in mine : \A m \in mine : m <= l

SnapshotHonest ==
  \A s \in Services : ~Busy(s) =>
    /\ status[s] = "running" => child[s] # NoLaunch
    /\ child[s] # NoLaunch /\ ~Unknown(s) => status[s] = "running"
    /\ child[s] # NoLaunch => child[s] = Newest(s)
    /\ exitCode[s] = IF child[s] # NoLaunch THEN NoLaunch ELSE Newest(s)

\* killpg never reaches the process group of another launch, though the id of
\* a drained group may be given to the next child (stop_orphaned_group,
\* force_tree_stop): the mutex keeps launches out of the window.
SiblingsSafe ==
  \A t \in Threads : pc[t] \in {"orphan", "force"} =>
    \A l \in Launch \ {cur[t]} : GroupHeld(l) => pid[l] # pid[cur[t]]

\* A pump that may still start a write is the current capture of its service:
\* every earlier one has been told to discard (LogCapture::finish).
OnlyCaptureWrites ==
  \A l \in Launch : pump[l] = "reading" /\ ~discard[l] => capture[owner[l]] = l

\* After stop_all nothing lives but the trees left behind on an error of
\* try_wait, no child is held and nothing watches, until the next call.
StopAllLeavesNothing ==
  At("caller", "idle") /\ op["caller"] = "stop_all" =>
    /\ At("monitor", "off")
    /\ \A s \in Services : child[s] = NoLaunch
    /\ \A l \in Launch : Live(l) => Forsaken(l)

\* Every call returns: no timeout, join or mutex blocks the caller for ever.
CallsReturn == ~At("caller", "idle") ~> At("caller", "idle")

\* A crash is noticed as long as the monitor is there, and children are waited for.
CrashNoticed ==
  \A s \in Services, l \in Launch :
    (child[s] = l /\ leader[l] = "zombie" /\ ~At("monitor", "off"))
      ~> child[s] # l

\* a live tree whose leader try_wait would know of
Known(l) == Live(l) /\ leader[l] # "lost"

\* The manager implements the slots: trees start, end and are reported there.
\* A tree ends for its slot where nobody can be told of its leader's exit.
Slots == INSTANCE ServiceSlots WITH
           view <- status,
           live <- [s \in Services |-> {l \in Launch : owner[l] = s /\ Known(l)}],
           used <- {l \in Launch : owner[l] # NoService}
ImplementsSlots == Slots!Spec

-----------------------------------------------------------------------------
(* Statements of the source's comments, which the code does not keep.      *)

\* stop_orphaned_group: the group's "id cannot have been reused yet".
OrphanIdNotReused ==
  \A t \in Threads : At(t, "orphan") => pid[cur[t]] \notin strangers

\* LogCapture::finish: "the next launch owns the log file alone".
LogOwnedAlone ==
  \A l \in Launch : pump[l] = "writing" /\ ~Busy(owner[l]) => capture[owner[l]] \in {l, NoLaunch}

\* stop_all: "Stop every managed service and the crash monitor."
StopAllStops ==
  At("caller", "idle") /\ op["caller"] = "stop_all" => \A l \in Launch : ~Live(l)

=============================================================================
