------------------------ MODULE ServiceManagerProofs ------------------------
(***************************************************************************)
(* Proofs about ServiceManager, for every set of services and pids and     *)
(* every bound: type correctness, the inductive invariant of               *)
(* ServiceManagerInv, the safety properties that follow from it, and that  *)
(* the manager implements ServiceSlots.                                    *)
(***************************************************************************)
EXTENDS ServiceManagerInv, TLAPS

USE DEF At, Goto, table, os, logs, frame, request, Threads, Launch, NoLaunch,
        MaybeLaunch, Exited, Unknown, Runs

-----------------------------------------------------------------------------
(* Types.  The frame of an operation is needed along with them: a step      *)
(* that looks up svc[t] in the table needs it to be a service.              *)

LEMMA TypeStep == TypeInv /\ [Next]_vars => TypeInv'
<1> SUFFICES ASSUME TypeInv, [Next]_vars PROVE TypeInv'
  OBVIOUS
<1> USE ServicesAssumption DEF TypeInv, TypeOK, FrameTyped, Working, Critical,
        Outside, Statuses, LeaderState, RestState, PumpState, Ops
<1>1. CASE StartAll
  BY <1>1 DEF StartAll, Request
<1>2. CASE StopAll
  BY <1>2 DEF StopAll, Request
<1>3. CASE PollExits
  BY <1>3 DEF PollExits, Request
<1>4. CASE JoinMonitor
  BY <1>4 DEF JoinMonitor
<1>5. CASE StartMonitor
  BY <1>5 DEF StartMonitor
<1>6. CASE MonitorTick
  BY <1>6 DEF MonitorTick
<1>7. CASE MonitorExit
  BY <1>7 DEF MonitorExit
<1>8. CASE \E s \in Services : WithManaged(s)
  BY <1>8 DEF WithManaged, Request
<1>9. ASSUME NEW t \in Threads, Acquire(t) \/ Serve(t)
      PROVE TypeInv'
  <2>1. CASE Acquire(t)
    BY <2>1 DEF Acquire
  <2>2. CASE Pick(t)
    BY <2>2 DEF Pick, SetFrame, Entry
  <2>3. CASE Release(t)
    BY <2>3 DEF Release
  <2>4. CASE PollSkips(t)
    BY <2>4 DEF PollSkips, EndService, SetFrame
  <2>5. CASE TakeExited(t)
    BY <2>5 DEF TakeExited, SetFrame, Reap, Exited
  <2>6. CASE KillOrphans(t)
    BY <2>6 DEF KillOrphans, KillGroup, Kill
  <2>7. CASE StartAlreadyRunning(t)
    BY <2>7 DEF StartAlreadyRunning, EndService, SetFrame
  <2>8. CASE NoChild(t)
    BY <2>8 DEF NoChild, SetFrame
  <2>9. CASE RequestTreeStop(t)
    BY <2>9 DEF RequestTreeStop, SetFrame
  <2>10. CASE LeaderStopped(t)
    BY <2>10 DEF LeaderStopped, Reap
  <2>11. CASE GraceExpires(t)
    BY <2>11 DEF GraceExpires
  <2>12. CASE ForceTreeStop(t)
    BY <2>12 DEF ForceTreeStop, KillGroup, Kill
  <2>13. CASE ReapKilled(t)
    BY <2>13 DEF ReapKilled, Reap
  <2>14. CASE GroupDrained(t)
    BY <2>14 DEF GroupDrained
  <2>15. CASE DrainExpires(t)
    BY <2>15 DEF DrainExpires
  <2>16. CASE CaptureFinished(t)
    BY <2>16 DEF CaptureFinished, Finished
  <2>17. CASE CaptureLingers(t)
    BY <2>17 DEF CaptureLingers
  <2>18. CASE CaptureDropped(t)
    BY <2>18 DEF CaptureDropped, Finished
  <2>19. CASE SettleExit(t)
    BY <2>19 DEF SettleExit, EndService, SetFrame
  <2>20. CASE SettleStop(t)
    <3>1. PICK s \in Services : s = svc[t]
      BY <2>20 DEF SettleStop
    <3>2. /\ exitCode' \in [Services -> MaybeLaunch]
          /\ status' \in [Services -> Statuses]
          /\ restarts' \in [Services -> Nat]
      <4>1. /\ status' = [status EXCEPT ![s] = "stopped"]
            /\ restarts' = restarts \/ restarts' = [restarts EXCEPT ![s] = @ + 1]
        BY <2>20, <3>1 DEF SettleStop
      <4>2. exitCode' = [exitCode EXCEPT ![s] = IF cur[t] = NoLaunch THEN @ ELSE cur[t]]
        BY <2>20, <3>1 DEF SettleStop
      <4>3. cur[t] \in MaybeLaunch
        OBVIOUS
      <4>4. exitCode' \in [Services -> MaybeLaunch]
        BY <4>2, <4>3
      <4>5. status' \in [Services -> Statuses]
        BY <4>1 DEF Statuses
      <4>6. restarts \in [Services -> Nat] /\ restarts[s] + 1 \in Nat
        OBVIOUS
      <4>7. restarts' \in [Services -> Nat]
        BY <4>1, <4>6
      <4> QED
        BY <4>4, <4>5, <4>7
    <3>3. /\ pc' \in [Threads -> Critical \cup Outside]
          /\ svc' \in [Threads -> Services \cup {NoService}]
          /\ cur' \in [Threads -> MaybeLaunch]
          /\ why' \in [Threads -> {"none", "exit", "stop", "start"}]
          /\ FrameTyped'
      BY <2>20, <3>1 DEF SettleStop, EndService, SetFrame
    <3> QED
      BY <2>20, <3>2, <3>3 DEF SettleStop
  <2>21. CASE LaunchFails(t)
    BY <2>21 DEF LaunchFails, EndService, SetFrame
  <2>22. CASE LaunchSucceeds(t)
    BY <2>22 DEF LaunchSucceeds, FreeIds, EndService, SetFrame
  <2>23. CASE StartOver(t)
    BY <2>23 DEF StartOver, SetFrame
  <2>24. CASE WaitFails(t)
    BY <2>24 DEF WaitFails
  <2> QED
    BY <1>9, <2>1, <2>2, <2>3, <2>4, <2>5, <2>6, <2>7, <2>8, <2>9, <2>10,
           <2>11, <2>12, <2>13, <2>14, <2>15, <2>16, <2>17, <2>18, <2>19,
           <2>20, <2>21, <2>22, <2>23, <2>24 DEF Serve
<1>10. ASSUME NEW l \in Launch, Process(l) \/ PumpStep(l)
      PROVE TypeInv'
  <2>1. CASE LeaderExits(l)
    BY <2>1 DEF LeaderExits
  <2>2. CASE LeaderForks(l)
    BY <2>2 DEF LeaderForks
  <2>3. CASE RestExits(l)
    BY <2>3 DEF RestExits
  <2>4. CASE PumpStep(l)
    <3>1. PICK next \in {"writing", "reading", "muted", "done"} : pump' = [pump EXCEPT ![l] = next]
      BY <2>4 DEF PumpStep, PumpReads, PumpWrites, PumpEnds
    <3>2. UNCHANGED <<table, os, discard, lock, pc, frame, request>>
      BY <2>4 DEF PumpStep, PumpReads, PumpWrites, PumpEnds
    <3> QED BY <3>1, <3>2
  <2> QED
    BY <1>10, <2>1, <2>2, <2>3, <2>4 DEF Process
<1>11. ASSUME NEW p \in Pids, StrangerStarts(p) \/ StrangerExits(p)
      PROVE TypeInv'
  BY <1>11 DEF StrangerStarts, StrangerExits
<1>12. CASE UNCHANGED vars
  BY <1>12 DEF vars
<1> HIDE DEF IInv, TypeInv, TypeOK
<1> QED
  BY <1>1, <1>2, <1>3, <1>4, <1>5, <1>6, <1>7, <1>8, <1>9, <1>10, <1>11, <1>12, SMTT(30)
         DEF Next, Call

LEMMA TypeInit == Init => TypeInv
<1> SUFFICES ASSUME Init PROVE TypeInv
  OBVIOUS
<1> USE ServicesAssumption DEF Init
<1>1. /\ status \in [Services -> Statuses]
      /\ exitCode \in [Services -> MaybeLaunch]
      /\ restarts \in [Services -> Nat]
      /\ child \in [Services -> MaybeLaunch]
      /\ capture \in [Services -> MaybeLaunch]
  BY DEF Statuses
<1>2. /\ launched \in 0 .. MaxLaunches
      /\ owner \in [Launch -> Services \cup {NoService}]
      /\ pid \in [Launch -> Pids \cup {NoPid}]
      /\ leader \in [Launch -> LeaderState]
      /\ rest \in [Launch -> RestState]
      /\ strangers \subseteq Pids
  BY DEF LeaderState, RestState
<1>3. /\ pump \in [Launch -> PumpState]
      /\ discard \in [Launch -> BOOLEAN]
  BY DEF PumpState
<1>4. /\ lock \in Threads \cup {"free"}
      /\ pc \in [Threads -> Critical \cup Outside]
      /\ op \in [Threads -> Ops]
      /\ stopSent \in BOOLEAN
  BY DEF Critical, Outside, Working, Ops
<1>5. todo \in [Threads -> SUBSET Services]
  BY Zenon
<1>6. /\ svc \in [Threads -> Services \cup {NoService}]
      /\ cur \in [Threads -> MaybeLaunch]
      /\ why \in [Threads -> {"none", "exit", "stop", "start"}]
  OBVIOUS
<1>7. FrameTyped
  BY DEF FrameTyped, Working
<1> QED
  BY <1>1, <1>2, <1>3, <1>4, <1>5, <1>6, <1>7 DEF TypeInv, TypeOK

\* Every variable keeps its type, whatever the threads, processes and pumps do.
THEOREM TypeCorrect == Spec => []TypeOK
<1>1. TypeInv => TypeOK
  BY DEF TypeInv
<1> QED
  BY <1>1, TypeInit, TypeStep, PTL DEF Spec

-----------------------------------------------------------------------------
(* The inductive invariant, in three groups of conjuncts, each kept by      *)
(* every step from the whole.                                              *)

\* the mutex, the operations' frames, and the table
LEMMA TableStep == IInv /\ TypeInv' /\ [Next]_vars => (LockInv /\ FrameInv /\ BornInv /\ ChildInv)'
<1> SUFFICES ASSUME IInv, TypeInv', [Next]_vars PROVE (LockInv /\ FrameInv /\ BornInv /\ ChildInv)'
  OBVIOUS
<1> USE ServicesAssumption DEF IInv, TypeInv, TypeOK, FrameTyped, Working,
        Critical, Outside, Entered, Holding, LockInv, FrameInv, BornInv,
        ChildInv
<1>1. CASE StartAll
  BY <1>1 DEF StartAll, Request
<1>2. CASE StopAll
  BY <1>2 DEF StopAll, Request
<1>3. CASE PollExits
  BY <1>3 DEF PollExits, Request
<1>4. CASE JoinMonitor
  BY <1>4 DEF JoinMonitor
<1>5. CASE StartMonitor
  BY <1>5 DEF StartMonitor
<1>6. CASE MonitorTick
  BY <1>6 DEF MonitorTick
<1>7. CASE MonitorExit
  BY <1>7 DEF MonitorExit
<1>8. CASE \E s \in Services : WithManaged(s)
  BY <1>8, SMTT(30) DEF WithManaged, Request
<1>9. ASSUME NEW t \in Threads, Acquire(t) \/ Serve(t)
      PROVE (LockInv /\ FrameInv /\ BornInv /\ ChildInv)'
  <2>1. CASE Acquire(t)
    <3>1. pc' = [pc EXCEPT ![t] = "next"] /\ lock = "free" /\ lock' = t
      BY <2>1 DEF Acquire, Free
    <3>2. \A u \in Threads : pc[u] \notin Critical
      BY <3>1
    <3>3. LockInv'
      BY <3>1, <3>2
    <3>4. (FrameInv /\ BornInv /\ ChildInv)'
      BY <2>1 DEF Acquire
    <3> QED
      BY <3>3, <3>4
  <2>2. CASE Pick(t)
    BY <2>2 DEF Pick, SetFrame, Entry
  <2>3. CASE Release(t)
    BY <2>3 DEF Release
  <2>4. CASE PollSkips(t)
    BY <2>4 DEF PollSkips, EndService, SetFrame
  <2>5. CASE TakeExited(t)
    <3>1. (LockInv /\ BornInv)'
      BY <2>5 DEF TakeExited, SetFrame, Reap, Exited
    <3>2. ChildInv'
      BY <2>5 DEF TakeExited, SetFrame, Reap, Exited
    <3>3. FrameInv'
      BY <2>5 DEF TakeExited, SetFrame, Reap, Exited
    <3> QED
      BY <3>1, <3>2, <3>3
  <2>6. CASE KillOrphans(t)
    BY <2>6 DEF KillOrphans, KillGroup, Kill
  <2>7. CASE StartAlreadyRunning(t)
    BY <2>7 DEF StartAlreadyRunning, EndService, SetFrame
  <2>8. CASE NoChild(t)
    BY <2>8 DEF NoChild, SetFrame
  <2>9. CASE RequestTreeStop(t)
    BY <2>9 DEF RequestTreeStop, SetFrame
  <2>10. CASE LeaderStopped(t)
    BY <2>10 DEF LeaderStopped, Reap
  <2>11. CASE GraceExpires(t)
    BY <2>11 DEF GraceExpires
  <2>12. CASE ForceTreeStop(t)
    BY <2>12 DEF ForceTreeStop, KillGroup, Kill
  <2>13. CASE ReapKilled(t)
    BY <2>13 DEF ReapKilled, Reap
  <2>14. CASE GroupDrained(t)
    BY <2>14 DEF GroupDrained
  <2>15. CASE DrainExpires(t)
    BY <2>15 DEF DrainExpires
  <2>16. CASE CaptureFinished(t)
    BY <2>16 DEF CaptureFinished, Finished
  <2>17. CASE CaptureLingers(t)
    BY <2>17 DEF CaptureLingers
  <2>18. CASE CaptureDropped(t)
    BY <2>18 DEF CaptureDropped, Finished
  <2>19. CASE SettleExit(t)
    BY <2>19 DEF SettleExit, EndService, SetFrame
  <2>20. CASE SettleStop(t)
    BY <2>20 DEF SettleStop, EndService, SetFrame
  <2>21. CASE LaunchFails(t)
    BY <2>21 DEF LaunchFails, EndService, SetFrame
  <2>22. CASE LaunchSucceeds(t)
    BY <2>22 DEF LaunchSucceeds, FreeIds, EndService, SetFrame
  <2>23. CASE StartOver(t)
    BY <2>23 DEF StartOver, SetFrame
  <2>24. CASE WaitFails(t)
    BY <2>24 DEF WaitFails
  <2> QED
    BY <1>9, <2>1, <2>2, <2>3, <2>4, <2>5, <2>6, <2>7, <2>8, <2>9, <2>10,
           <2>11, <2>12, <2>13, <2>14, <2>15, <2>16, <2>17, <2>18, <2>19,
           <2>20, <2>21, <2>22, <2>23, <2>24 DEF Serve
<1>10. ASSUME NEW l \in Launch, Process(l) \/ PumpStep(l)
      PROVE (LockInv /\ FrameInv /\ BornInv /\ ChildInv)'
  <2>1. CASE LeaderExits(l)
    BY <2>1 DEF LeaderExits
  <2>2. CASE LeaderForks(l)
    BY <2>2 DEF LeaderForks
  <2>3. CASE RestExits(l)
    BY <2>3 DEF RestExits
  <2>4. CASE PumpStep(l)
    BY <2>4 DEF PumpStep, PumpReads, PumpWrites, PumpEnds
  <2> QED
    BY <1>10, <2>1, <2>2, <2>3, <2>4 DEF Process
<1>11. ASSUME NEW p \in Pids, StrangerStarts(p) \/ StrangerExits(p)
      PROVE (LockInv /\ FrameInv /\ BornInv /\ ChildInv)'
  BY <1>11 DEF StrangerStarts, StrangerExits
<1>12. CASE UNCHANGED vars
  BY <1>12 DEF vars
<1> HIDE DEF IInv, TypeInv, TypeOK, FrameTyped, LockInv, FrameInv, BornInv, ChildInv
<1> QED
  BY <1>1, <1>2, <1>3, <1>4, <1>5, <1>6, <1>7, <1>8, <1>9, <1>10, <1>11, <1>12, SMTT(30)
         DEF Next, Call

\* live trees are tracked, and running means a child
LEMMA TreeStep == IInv /\ TypeInv' /\ [Next]_vars => (TreeInv /\ StatusInv)'
<1> SUFFICES ASSUME IInv, TypeInv', [Next]_vars PROVE (TreeInv /\ StatusInv)'
  OBVIOUS
<1> USE ServicesAssumption DEF IInv, TypeInv, TypeOK, FrameTyped, Working,
        Critical, Outside, Entered, Holding, LockInv, FrameInv, BornInv,
        ChildInv, TreeInv, StatusInv, Live, GroupHeld, GroupExists, Forsaken, CodeInv, IsNewest
<1>1. CASE StartAll
  BY <1>1 DEF StartAll, Request
<1>2. CASE StopAll
  BY <1>2 DEF StopAll, Request
<1>3. CASE PollExits
  BY <1>3 DEF PollExits, Request
<1>4. CASE JoinMonitor
  BY <1>4 DEF JoinMonitor
<1>5. CASE StartMonitor
  BY <1>5 DEF StartMonitor
<1>6. CASE MonitorTick
  BY <1>6 DEF MonitorTick
<1>7. CASE MonitorExit
  BY <1>7 DEF MonitorExit
<1>8. CASE \E s \in Services : WithManaged(s)
  BY <1>8 DEF WithManaged, Request
<1>9. ASSUME NEW t \in Threads, Acquire(t) \/ Serve(t)
      PROVE (TreeInv /\ StatusInv)'
  <2>1. CASE Acquire(t)
    BY <2>1 DEF Acquire
  <2>2. CASE Pick(t)
    BY <2>2 DEF Pick, SetFrame, Entry
  <2>3. CASE Release(t)
    BY <2>3 DEF Release
  <2>4. CASE PollSkips(t)
    BY <2>4 DEF PollSkips, EndService, SetFrame
  <2>5. CASE TakeExited(t)
    BY <2>5 DEF TakeExited, SetFrame, Reap, Exited
  <2>6. CASE KillOrphans(t)
    BY <2>6 DEF KillOrphans, KillGroup, Kill
  <2>7. CASE StartAlreadyRunning(t)
    BY <2>7 DEF StartAlreadyRunning, EndService, SetFrame
  <2>8. CASE NoChild(t)
    BY <2>8 DEF NoChild, SetFrame
  <2>9. CASE RequestTreeStop(t)
    BY <2>9 DEF RequestTreeStop, SetFrame
  <2>10. CASE LeaderStopped(t)
    BY <2>10 DEF LeaderStopped, Reap
  <2>11. CASE GraceExpires(t)
    BY <2>11 DEF GraceExpires
  <2>12. CASE ForceTreeStop(t)
    BY <2>12 DEF ForceTreeStop, KillGroup, Kill
  <2>13. CASE ReapKilled(t)
    <3>1. TreeInv'
      BY <2>13 DEF ReapKilled, Reap
    <3>2. StatusInv'
      BY <2>13 DEF ReapKilled, Reap
    <3> QED
      BY <3>1, <3>2
  <2>14. CASE GroupDrained(t)
    BY <2>14 DEF GroupDrained
  <2>15. CASE DrainExpires(t)
    BY <2>15 DEF DrainExpires
  <2>16. CASE CaptureFinished(t)
    BY <2>16 DEF CaptureFinished, Finished
  <2>17. CASE CaptureLingers(t)
    BY <2>17 DEF CaptureLingers
  <2>18. CASE CaptureDropped(t)
    BY <2>18 DEF CaptureDropped, Finished
  <2>19. CASE SettleExit(t)
    BY <2>19 DEF SettleExit, EndService, SetFrame
  <2>20. CASE SettleStop(t)
    BY <2>20 DEF SettleStop, EndService, SetFrame
  <2>21. CASE LaunchFails(t)
    BY <2>21 DEF LaunchFails, EndService, SetFrame
  <2>22. CASE LaunchSucceeds(t)
    BY <2>22 DEF LaunchSucceeds, FreeIds, EndService, SetFrame
  <2>23. CASE StartOver(t)
    BY <2>23 DEF StartOver, SetFrame
  <2>24. CASE WaitFails(t)
    BY <2>24 DEF WaitFails
  <2> QED
    BY <1>9, <2>1, <2>2, <2>3, <2>4, <2>5, <2>6, <2>7, <2>8, <2>9, <2>10,
           <2>11, <2>12, <2>13, <2>14, <2>15, <2>16, <2>17, <2>18, <2>19,
           <2>20, <2>21, <2>22, <2>23, <2>24 DEF Serve
<1>10. ASSUME NEW l \in Launch, Process(l) \/ PumpStep(l)
      PROVE (TreeInv /\ StatusInv)'
  <2>1. CASE LeaderExits(l)
    BY <2>1 DEF LeaderExits
  <2>2. CASE LeaderForks(l)
    BY <2>2 DEF LeaderForks
  <2>3. CASE RestExits(l)
    BY <2>3 DEF RestExits
  <2>4. CASE PumpStep(l)
    BY <2>4 DEF PumpStep, PumpReads, PumpWrites, PumpEnds
  <2> QED
    BY <1>10, <2>1, <2>2, <2>3, <2>4 DEF Process
<1>11. ASSUME NEW p \in Pids, StrangerStarts(p) \/ StrangerExits(p)
      PROVE (TreeInv /\ StatusInv)'
  BY <1>11 DEF StrangerStarts, StrangerExits
<1>12. CASE UNCHANGED vars
  BY <1>12 DEF vars
<1> HIDE DEF IInv, TypeInv, TypeOK, TreeInv, StatusInv
<1> QED
  BY <1>1, <1>2, <1>3, <1>4, <1>5, <1>6, <1>7, <1>8, <1>9, <1>10, <1>11, <1>12, SMTT(30)
         DEF Next, Call

\* process ids
LEMMA PidStep == IInv /\ TypeInv' /\ [Next]_vars => (PidInv /\ AloneInv)'
<1> SUFFICES ASSUME IInv, TypeInv', [Next]_vars PROVE (PidInv /\ AloneInv)'
  OBVIOUS
<1> USE ServicesAssumption DEF IInv, TypeInv, TypeOK, FrameTyped, Working,
        Critical, Outside, Entered, Holding, LockInv, FrameInv, BornInv,
        ChildInv, PidInv, AloneInv, GroupHeld, GroupExists
<1>1. CASE StartAll
  BY <1>1 DEF StartAll, Request
<1>2. CASE StopAll
  BY <1>2 DEF StopAll, Request
<1>3. CASE PollExits
  BY <1>3 DEF PollExits, Request
<1>4. CASE JoinMonitor
  BY <1>4 DEF JoinMonitor
<1>5. CASE StartMonitor
  BY <1>5 DEF StartMonitor
<1>6. CASE MonitorTick
  BY <1>6 DEF MonitorTick
<1>7. CASE MonitorExit
  BY <1>7 DEF MonitorExit
<1>8. CASE \E s \in Services : WithManaged(s)
  BY <1>8 DEF WithManaged, Request
<1>9. ASSUME NEW t \in Threads, Acquire(t) \/ Serve(t)
      PROVE (PidInv /\ AloneInv)'
  <2>1. CASE Acquire(t)
    BY <2>1 DEF Acquire
  <2>2. CASE Pick(t)
    BY <2>2 DEF Pick, SetFrame, Entry
  <2>3. CASE Release(t)
    BY <2>3 DEF Release
  <2>4. CASE PollSkips(t)
    BY <2>4 DEF PollSkips, EndService, SetFrame
  <2>5. CASE TakeExited(t)
    BY <2>5 DEF TakeExited, SetFrame, Reap, Exited
  <2>6. CASE KillOrphans(t)
    BY <2>6 DEF KillOrphans, KillGroup, Kill
  <2>7. CASE StartAlreadyRunning(t)
    BY <2>7 DEF StartAlreadyRunning, EndService, SetFrame
  <2>8. CASE NoChild(t)
    BY <2>8 DEF NoChild, SetFrame
  <2>9. CASE RequestTreeStop(t)
    <3>1. PICK s \in Services : s = svc[t] /\ child[s] # NoLaunch
      BY <2>9 DEF RequestTreeStop
    <3>2. /\ child' = [child EXCEPT ![s] = NoLaunch]
          /\ cur' = [cur EXCEPT ![t] = child[s]]
          /\ pc' = [pc EXCEPT ![t] = "graceful"]
          /\ UNCHANGED <<os, lock>>
          /\ pc[t] = "stop"
      BY <2>9, <3>1 DEF RequestTreeStop, SetFrame
    <3>3. PidInv'
      BY <3>1, <3>2
    <3>4. AloneInv'
      <4>1. \A l \in Launch \ {child[s]} : GroupHeld(l) => pid[l] # pid[child[s]]
        BY <3>1
      <4>2. \A u \in Threads \ {t} : pc'[u] = pc[u] /\ cur'[u] = cur[u]
        BY <3>2
      <4> HIDE DEF GroupHeld
      <4> QED
        BY <3>1, <3>2, <4>1, <4>2 DEF GroupHeld
    <3> QED
      BY <3>3, <3>4
  <2>10. CASE LeaderStopped(t)
    BY <2>10 DEF LeaderStopped, Reap
  <2>11. CASE GraceExpires(t)
    BY <2>11 DEF GraceExpires
  <2>12. CASE ForceTreeStop(t)
    BY <2>12 DEF ForceTreeStop, KillGroup, Kill
  <2>13. CASE ReapKilled(t)
    BY <2>13 DEF ReapKilled, Reap
  <2>14. CASE GroupDrained(t)
    BY <2>14 DEF GroupDrained
  <2>15. CASE DrainExpires(t)
    BY <2>15 DEF DrainExpires
  <2>16. CASE CaptureFinished(t)
    BY <2>16 DEF CaptureFinished, Finished
  <2>17. CASE CaptureLingers(t)
    BY <2>17 DEF CaptureLingers
  <2>18. CASE CaptureDropped(t)
    BY <2>18 DEF CaptureDropped, Finished
  <2>19. CASE SettleExit(t)
    BY <2>19 DEF SettleExit, EndService, SetFrame
  <2>20. CASE SettleStop(t)
    BY <2>20 DEF SettleStop, EndService, SetFrame
  <2>21. CASE LaunchFails(t)
    BY <2>21 DEF LaunchFails, EndService, SetFrame
  <2>22. CASE LaunchSucceeds(t)
    <3>a. PICK s \in Services : s = svc[t]
      BY <2>22 DEF LaunchSucceeds
    <3>b. PICK m \in Launch : m = launched + 1
      BY <2>22 DEF LaunchSucceeds
    <3>c. PICK p \in FreeIds : pid' = [pid EXCEPT ![m] = p]
      BY <2>22, <3>b DEF LaunchSucceeds
    <3>1. s = svc[t] /\ m = launched + 1 /\ pid' = [pid EXCEPT ![m] = p]
      BY <3>a, <3>b, <3>c
    <3>2. /\ leader' = [leader EXCEPT ![m] = "alive"] /\ UNCHANGED <<rest, strangers>>
          /\ child' = [child EXCEPT ![s] = m]
          /\ pc' = [pc EXCEPT ![t] = "next"]
          /\ At(t, "spawn")
      BY <2>22, <3>1 DEF LaunchSucceeds, EndService
    <3>3. \A l \in Launch \ {m} : GroupHeld(l) \/ (\E r \in Services : child[r] = l) => pid[l] # p
      <4>1. \A l \in Launch : GroupHeld(l) => pid[l] # p
        BY <3>1 DEF FreeIds
      <4>2. ASSUME NEW r \in Services, NEW l \in Launch, child[r] = l
            PROVE  GroupHeld(l) \/ Unknown(r)
        <5>1. l # NoLaunch
          BY DEF Launch, NoLaunch
        <5>2. leader[l] \in {"alive", "killed", "zombie", "lost"}
          BY <4>2, <5>1 DEF ChildInv
        <5> QED
          BY <4>2, <5>1, <5>2 DEF GroupHeld, Unknown
      <4>3. \A r \in Services, l \in Launch : child[r] = l /\ Unknown(r) => pid[l] # p
        BY <3>1 DEF FreeIds
      <4> QED
        BY <4>1, <4>2, <4>3
    <3>4. \A l \in Launch \ {m} : pid'[l] = pid[l] /\ (GroupHeld(l)' <=> GroupHeld(l))
      BY <3>1, <3>2
    <3>5. pid'[m] = p /\ \A r \in Services : child'[r] \in {child[r], m}
      BY <3>1, <3>2
    <3>6. PidInv'
      <4> SUFFICES ASSUME NEW k \in Launch, NEW l \in Launch, k # l, GroupHeld(l)',
                          GroupHeld(k)' \/ \E r \in Services : child'[r] = k
                   PROVE  pid'[k] # pid'[l]
        OBVIOUS
      <4> HIDE DEF GroupHeld
      <4>1. CASE k = m
        BY <3>3, <3>4, <3>5, <4>1
      <4>2. CASE k # m /\ l = m
        BY <3>3, <3>4, <3>5, <4>2
      <4>3. CASE k # m /\ l # m
        BY <3>4, <3>5, <4>3
      <4> QED
        BY <4>1, <4>2, <4>3
    <3>7. AloneInv'
      BY <3>2
    <3> QED
      BY <3>6, <3>7
  <2>23. CASE StartOver(t)
    BY <2>23 DEF StartOver, SetFrame
  <2>24. CASE WaitFails(t)
    BY <2>24 DEF WaitFails
  <2> QED
    BY <1>9, <2>1, <2>2, <2>3, <2>4, <2>5, <2>6, <2>7, <2>8, <2>9, <2>10,
           <2>11, <2>12, <2>13, <2>14, <2>15, <2>16, <2>17, <2>18, <2>19,
           <2>20, <2>21, <2>22, <2>23, <2>24 DEF Serve
<1>10. ASSUME NEW l \in Launch, Process(l) \/ PumpStep(l)
      PROVE (PidInv /\ AloneInv)'
  <2>1. CASE LeaderExits(l)
    BY <2>1 DEF LeaderExits
  <2>2. CASE LeaderForks(l)
    BY <2>2 DEF LeaderForks
  <2>3. CASE RestExits(l)
    BY <2>3 DEF RestExits
  <2>4. CASE PumpStep(l)
    BY <2>4 DEF PumpStep, PumpReads, PumpWrites, PumpEnds
  <2> QED
    BY <1>10, <2>1, <2>2, <2>3, <2>4 DEF Process
<1>11. ASSUME NEW p \in Pids, StrangerStarts(p) \/ StrangerExits(p)
      PROVE (PidInv /\ AloneInv)'
  BY <1>11 DEF StrangerStarts, StrangerExits
<1>12. CASE UNCHANGED vars
  BY <1>12 DEF vars
<1> HIDE DEF IInv, TypeInv, TypeOK, PidInv, AloneInv
<1> QED
  BY <1>1, <1>2, <1>3, <1>4, <1>5, <1>6, <1>7, <1>8, <1>9, <1>10, <1>11, <1>12, SMTT(30)
         DEF Next, Call

\* operations go on where their cause leads
LEMMA WhyStep == IInv /\ TypeInv' /\ [Next]_vars => WhyInv'
<1> SUFFICES ASSUME IInv, TypeInv', [Next]_vars PROVE WhyInv'
  OBVIOUS
<1> USE ServicesAssumption DEF IInv, TypeInv, TypeOK, FrameTyped, Working, Critical, Outside, Entered,
        Holding, FrameInv, WhyInv
<1>1. CASE StartAll
  BY <1>1 DEF StartAll, Request
<1>2. CASE StopAll
  BY <1>2 DEF StopAll, Request
<1>3. CASE PollExits
  BY <1>3 DEF PollExits, Request
<1>4. CASE JoinMonitor
  BY <1>4 DEF JoinMonitor
<1>5. CASE StartMonitor
  BY <1>5 DEF StartMonitor
<1>6. CASE MonitorTick
  BY <1>6 DEF MonitorTick
<1>7. CASE MonitorExit
  BY <1>7 DEF MonitorExit
<1>8. CASE \E s \in Services : WithManaged(s)
  BY <1>8 DEF WithManaged, Request
<1>9. ASSUME NEW t \in Threads, Acquire(t) \/ Serve(t)
      PROVE WhyInv'
  <2>1. CASE Acquire(t)
    BY <2>1 DEF Acquire, Free
  <2>2. CASE Pick(t)
    BY <2>2 DEF Pick, SetFrame, Entry
  <2>3. CASE Release(t)
    BY <2>3 DEF Release
  <2>4. CASE PollSkips(t)
    BY <2>4 DEF PollSkips, EndService, SetFrame
  <2>5. CASE TakeExited(t)
    BY <2>5 DEF TakeExited, SetFrame, Reap, Exited
  <2>6. CASE KillOrphans(t)
    BY <2>6 DEF KillOrphans, KillGroup, Kill
  <2>7. CASE StartAlreadyRunning(t)
    BY <2>7 DEF StartAlreadyRunning, EndService, SetFrame
  <2>8. CASE NoChild(t)
    BY <2>8 DEF NoChild, SetFrame
  <2>9. CASE RequestTreeStop(t)
    BY <2>9 DEF RequestTreeStop, SetFrame
  <2>10. CASE LeaderStopped(t)
    BY <2>10 DEF LeaderStopped, Reap
  <2>11. CASE GraceExpires(t)
    BY <2>11 DEF GraceExpires
  <2>12. CASE ForceTreeStop(t)
    BY <2>12 DEF ForceTreeStop, KillGroup, Kill
  <2>13. CASE ReapKilled(t)
    BY <2>13 DEF ReapKilled, Reap
  <2>14. CASE GroupDrained(t)
    BY <2>14 DEF GroupDrained
  <2>15. CASE DrainExpires(t)
    BY <2>15 DEF DrainExpires
  <2>16. CASE CaptureFinished(t)
    BY <2>16 DEF CaptureFinished, Finished
  <2>17. CASE CaptureLingers(t)
    BY <2>17 DEF CaptureLingers
  <2>18. CASE CaptureDropped(t)
    BY <2>18 DEF CaptureDropped, Finished
  <2>19. CASE SettleExit(t)
    BY <2>19 DEF SettleExit, EndService, SetFrame
  <2>20. CASE SettleStop(t)
    BY <2>20 DEF SettleStop, EndService, SetFrame
  <2>21. CASE LaunchFails(t)
    BY <2>21 DEF LaunchFails, EndService, SetFrame
  <2>22. CASE LaunchSucceeds(t)
    BY <2>22 DEF LaunchSucceeds, FreeIds, EndService, SetFrame
  <2>23. CASE StartOver(t)
    BY <2>23 DEF StartOver, SetFrame
  <2>24. CASE WaitFails(t)
    BY <2>24 DEF WaitFails
  <2> QED
    BY <1>9, <2>1, <2>2, <2>3, <2>4, <2>5, <2>6, <2>7, <2>8, <2>9, <2>10,
           <2>11, <2>12, <2>13, <2>14, <2>15, <2>16, <2>17, <2>18, <2>19,
           <2>20, <2>21, <2>22, <2>23, <2>24 DEF Serve
<1>10. ASSUME NEW l \in Launch, Process(l) \/ PumpStep(l)
      PROVE WhyInv'
  BY <1>10 DEF Process, LeaderExits, LeaderForks, RestExits, PumpStep, PumpReads, PumpWrites, PumpEnds
<1>11. ASSUME NEW p \in Pids, StrangerStarts(p) \/ StrangerExits(p)
      PROVE WhyInv'
  BY <1>11 DEF StrangerStarts, StrangerExits
<1>12. CASE UNCHANGED vars
  BY <1>12 DEF vars
<1> HIDE DEF IInv, TypeInv, TypeOK, WhyInv
<1> QED
  BY <1>1, <1>2, <1>3, <1>4, <1>5, <1>6, <1>7, <1>8, <1>9, <1>10, <1>11, <1>12, SMTT(30)
         DEF Next, Call

\* the newest launch is accounted for
LEMMA CodeStep == IInv /\ TypeInv' /\ [Next]_vars => CodeInv'
<1> SUFFICES ASSUME IInv, TypeInv', [Next]_vars PROVE CodeInv'
  OBVIOUS
<1> USE ServicesAssumption DEF IInv, TypeInv, TypeOK, FrameTyped, Working, Critical, Outside, Entered,
        LockInv, FrameInv, BornInv, WhyInv, CodeInv, IsNewest
<1>1. CASE StartAll
  BY <1>1 DEF StartAll, Request
<1>2. CASE StopAll
  BY <1>2 DEF StopAll, Request
<1>3. CASE PollExits
  BY <1>3 DEF PollExits, Request
<1>4. CASE JoinMonitor
  BY <1>4 DEF JoinMonitor
<1>5. CASE StartMonitor
  BY <1>5 DEF StartMonitor
<1>6. CASE MonitorTick
  BY <1>6 DEF MonitorTick
<1>7. CASE MonitorExit
  BY <1>7 DEF MonitorExit
<1>8. CASE \E s \in Services : WithManaged(s)
  BY <1>8, SMTT(30) DEF WithManaged, Request
<1>9. ASSUME NEW t \in Threads, Acquire(t) \/ Serve(t)
      PROVE CodeInv'
  <2>1. CASE Acquire(t)
    BY <2>1 DEF Acquire, Free
  <2>2. CASE Pick(t)
    BY <2>2 DEF Pick, SetFrame, Entry
  <2>3. CASE Release(t)
    BY <2>3 DEF Release
  <2>4. CASE PollSkips(t)
    BY <2>4 DEF PollSkips, EndService, SetFrame
  <2>5. CASE TakeExited(t)
    BY <2>5 DEF TakeExited, SetFrame, Reap, Exited
  <2>6. CASE KillOrphans(t)
    BY <2>6 DEF KillOrphans, KillGroup, Kill
  <2>7. CASE StartAlreadyRunning(t)
    BY <2>7 DEF StartAlreadyRunning, EndService, SetFrame
  <2>8. CASE NoChild(t)
    BY <2>8 DEF NoChild, SetFrame
  <2>9. CASE RequestTreeStop(t)
    BY <2>9 DEF RequestTreeStop, SetFrame
  <2>10. CASE LeaderStopped(t)
    BY <2>10 DEF LeaderStopped, Reap
  <2>11. CASE GraceExpires(t)
    BY <2>11 DEF GraceExpires
  <2>12. CASE ForceTreeStop(t)
    BY <2>12 DEF ForceTreeStop, KillGroup, Kill
  <2>13. CASE ReapKilled(t)
    BY <2>13 DEF ReapKilled, Reap
  <2>14. CASE GroupDrained(t)
    BY <2>14 DEF GroupDrained
  <2>15. CASE DrainExpires(t)
    BY <2>15 DEF DrainExpires
  <2>16. CASE CaptureFinished(t)
    BY <2>16 DEF CaptureFinished, Finished
  <2>17. CASE CaptureLingers(t)
    BY <2>17 DEF CaptureLingers
  <2>18. CASE CaptureDropped(t)
    BY <2>18 DEF CaptureDropped, Finished
  <2>19. CASE SettleExit(t)
    BY <2>19 DEF SettleExit, EndService, SetFrame
  <2>20. CASE SettleStop(t)
    BY <2>20 DEF SettleStop, EndService, SetFrame
  <2>21. CASE LaunchFails(t)
    BY <2>21 DEF LaunchFails, EndService, SetFrame
  <2>22. CASE LaunchSucceeds(t)
    BY <2>22 DEF LaunchSucceeds, FreeIds, EndService, SetFrame
  <2>23. CASE StartOver(t)
    BY <2>23 DEF StartOver, SetFrame
  <2>24. CASE WaitFails(t)
    BY <2>24 DEF WaitFails
  <2> QED
    BY <1>9, <2>1, <2>2, <2>3, <2>4, <2>5, <2>6, <2>7, <2>8, <2>9, <2>10,
           <2>11, <2>12, <2>13, <2>14, <2>15, <2>16, <2>17, <2>18, <2>19,
           <2>20, <2>21, <2>22, <2>23, <2>24 DEF Serve
<1>10. ASSUME NEW l \in Launch, Process(l) \/ PumpStep(l)
      PROVE CodeInv'
  BY <1>10 DEF Process, LeaderExits, LeaderForks, RestExits, PumpStep, PumpReads, PumpWrites, PumpEnds
<1>11. ASSUME NEW p \in Pids, StrangerStarts(p) \/ StrangerExits(p)
      PROVE CodeInv'
  BY <1>11 DEF StrangerStarts, StrangerExits
<1>12. CASE UNCHANGED vars
  BY <1>12 DEF vars
<1> HIDE DEF IInv, TypeInv, TypeOK, CodeInv
<1> QED
  BY <1>1, <1>2, <1>3, <1>4, <1>5, <1>6, <1>7, <1>8, <1>9, <1>10, <1>11, <1>12, SMTT(30)
         DEF Next, Call

\* pumps that write are captures
LEMMA CaptureStep == IInv /\ TypeInv' /\ [Next]_vars => CaptureInv'
<1> SUFFICES ASSUME IInv, TypeInv', [Next]_vars PROVE CaptureInv'
  OBVIOUS
<1> USE ServicesAssumption DEF IInv, TypeInv, TypeOK, FrameTyped, Working, Critical, Outside,
        LockInv, FrameInv, BornInv, CaptureInv
<1>1. CASE StartAll
  BY <1>1 DEF StartAll, Request
<1>2. CASE StopAll
  BY <1>2 DEF StopAll, Request
<1>3. CASE PollExits
  BY <1>3 DEF PollExits, Request
<1>4. CASE JoinMonitor
  BY <1>4 DEF JoinMonitor
<1>5. CASE StartMonitor
  BY <1>5 DEF StartMonitor
<1>6. CASE MonitorTick
  BY <1>6 DEF MonitorTick
<1>7. CASE MonitorExit
  BY <1>7 DEF MonitorExit
<1>8. CASE \E s \in Services : WithManaged(s)
  BY <1>8 DEF WithManaged, Request
<1>9. ASSUME NEW t \in Threads, Acquire(t) \/ Serve(t)
      PROVE CaptureInv'
  <2>1. CASE Acquire(t)
    BY <2>1 DEF Acquire, Free
  <2>2. CASE Pick(t)
    BY <2>2 DEF Pick, SetFrame, Entry
  <2>3. CASE Release(t)
    BY <2>3 DEF Release
  <2>4. CASE PollSkips(t)
    BY <2>4 DEF PollSkips, EndService, SetFrame
  <2>5. CASE TakeExited(t)
    BY <2>5 DEF TakeExited, SetFrame, Reap, Exited
  <2>6. CASE KillOrphans(t)
    BY <2>6 DEF KillOrphans, KillGroup, Kill
  <2>7. CASE StartAlreadyRunning(t)
    BY <2>7 DEF StartAlreadyRunning, EndService, SetFrame
  <2>8. CASE NoChild(t)
    BY <2>8 DEF NoChild, SetFrame
  <2>9. CASE RequestTreeStop(t)
    BY <2>9 DEF RequestTreeStop, SetFrame
  <2>10. CASE LeaderStopped(t)
    BY <2>10 DEF LeaderStopped, Reap
  <2>11. CASE GraceExpires(t)
    BY <2>11 DEF GraceExpires
  <2>12. CASE ForceTreeStop(t)
    BY <2>12 DEF ForceTreeStop, KillGroup, Kill
  <2>13. CASE ReapKilled(t)
    BY <2>13 DEF ReapKilled, Reap
  <2>14. CASE GroupDrained(t)
    BY <2>14 DEF GroupDrained
  <2>15. CASE DrainExpires(t)
    BY <2>15 DEF DrainExpires
  <2>16. CASE CaptureFinished(t)
    BY <2>16 DEF CaptureFinished, Finished
  <2>17. CASE CaptureLingers(t)
    BY <2>17 DEF CaptureLingers
  <2>18. CASE CaptureDropped(t)
    BY <2>18 DEF CaptureDropped, Finished
  <2>19. CASE SettleExit(t)
    BY <2>19 DEF SettleExit, EndService, SetFrame
  <2>20. CASE SettleStop(t)
    BY <2>20 DEF SettleStop, EndService, SetFrame
  <2>21. CASE LaunchFails(t)
    BY <2>21 DEF LaunchFails, EndService, SetFrame
  <2>22. CASE LaunchSucceeds(t)
    BY <2>22 DEF LaunchSucceeds, FreeIds, EndService, SetFrame
  <2>23. CASE StartOver(t)
    BY <2>23 DEF StartOver, SetFrame
  <2>24. CASE WaitFails(t)
    BY <2>24 DEF WaitFails
  <2> QED
    BY <1>9, <2>1, <2>2, <2>3, <2>4, <2>5, <2>6, <2>7, <2>8, <2>9, <2>10,
           <2>11, <2>12, <2>13, <2>14, <2>15, <2>16, <2>17, <2>18, <2>19,
           <2>20, <2>21, <2>22, <2>23, <2>24 DEF Serve
<1>10. ASSUME NEW l \in Launch, Process(l) \/ PumpStep(l)
      PROVE CaptureInv'
  BY <1>10, SMTT(30) DEF Process, LeaderExits, LeaderForks, RestExits, PumpStep, PumpReads, PumpWrites, PumpEnds
<1>11. ASSUME NEW p \in Pids, StrangerStarts(p) \/ StrangerExits(p)
      PROVE CaptureInv'
  BY <1>11 DEF StrangerStarts, StrangerExits
<1>12. CASE UNCHANGED vars
  BY <1>12 DEF vars
<1> HIDE DEF IInv, TypeInv, TypeOK, CaptureInv
<1> QED
  BY <1>1, <1>2, <1>3, <1>4, <1>5, <1>6, <1>7, <1>8, <1>9, <1>10, <1>11, <1>12, SMTT(30)
         DEF Next, Call

\* stop_all empties the slots
LEMMA StopStep == IInv /\ TypeInv' /\ [Next]_vars => StopInv'
<1> SUFFICES ASSUME IInv, TypeInv', [Next]_vars PROVE StopInv'
  OBVIOUS
<1> USE ServicesAssumption DEF IInv, TypeInv, TypeOK, FrameTyped, Working, Critical, Outside, Entered,
        LockInv, FrameInv, WhyInv, StopInv
<1>1. CASE StartAll
  BY <1>1 DEF StartAll, Request
<1>2. CASE StopAll
  BY <1>2 DEF StopAll, Request
<1>3. CASE PollExits
  BY <1>3 DEF PollExits, Request
<1>4. CASE JoinMonitor
  BY <1>4 DEF JoinMonitor
<1>5. CASE StartMonitor
  BY <1>5 DEF StartMonitor
<1>6. CASE MonitorTick
  BY <1>6 DEF MonitorTick
<1>7. CASE MonitorExit
  BY <1>7 DEF MonitorExit
<1>8. CASE \E s \in Services : WithManaged(s)
  BY <1>8 DEF WithManaged, Request
<1>9. ASSUME NEW t \in Threads, Acquire(t) \/ Serve(t)
      PROVE StopInv'
  <2>1. CASE Acquire(t)
    BY <2>1 DEF Acquire, Free
  <2>2. CASE Pick(t)
    BY <2>2 DEF Pick, SetFrame, Entry
  <2>3. CASE Release(t)
    BY <2>3 DEF Release
  <2>4. CASE PollSkips(t)
    BY <2>4 DEF PollSkips, EndService, SetFrame
  <2>5. CASE TakeExited(t)
    BY <2>5 DEF TakeExited, SetFrame, Reap, Exited
  <2>6. CASE KillOrphans(t)
    BY <2>6 DEF KillOrphans, KillGroup, Kill
  <2>7. CASE StartAlreadyRunning(t)
    BY <2>7 DEF StartAlreadyRunning, EndService, SetFrame
  <2>8. CASE NoChild(t)
    BY <2>8 DEF NoChild, SetFrame
  <2>9. CASE RequestTreeStop(t)
    BY <2>9 DEF RequestTreeStop, SetFrame
  <2>10. CASE LeaderStopped(t)
    BY <2>10 DEF LeaderStopped, Reap
  <2>11. CASE GraceExpires(t)
    BY <2>11 DEF GraceExpires
  <2>12. CASE ForceTreeStop(t)
    BY <2>12 DEF ForceTreeStop, KillGroup, Kill
  <2>13. CASE ReapKilled(t)
    BY <2>13 DEF ReapKilled, Reap
  <2>14. CASE GroupDrained(t)
    BY <2>14 DEF GroupDrained
  <2>15. CASE DrainExpires(t)
    BY <2>15 DEF DrainExpires
  <2>16. CASE CaptureFinished(t)
    BY <2>16 DEF CaptureFinished, Finished
  <2>17. CASE CaptureLingers(t)
    BY <2>17 DEF CaptureLingers
  <2>18. CASE CaptureDropped(t)
    BY <2>18 DEF CaptureDropped, Finished
  <2>19. CASE SettleExit(t)
    BY <2>19 DEF SettleExit, EndService, SetFrame
  <2>20. CASE SettleStop(t)
    BY <2>20 DEF SettleStop, EndService, SetFrame
  <2>21. CASE LaunchFails(t)
    BY <2>21 DEF LaunchFails, EndService, SetFrame
  <2>22. CASE LaunchSucceeds(t)
    BY <2>22 DEF LaunchSucceeds, FreeIds, EndService, SetFrame
  <2>23. CASE StartOver(t)
    BY <2>23 DEF StartOver, SetFrame
  <2>24. CASE WaitFails(t)
    BY <2>24 DEF WaitFails
  <2> QED
    BY <1>9, <2>1, <2>2, <2>3, <2>4, <2>5, <2>6, <2>7, <2>8, <2>9, <2>10,
           <2>11, <2>12, <2>13, <2>14, <2>15, <2>16, <2>17, <2>18, <2>19,
           <2>20, <2>21, <2>22, <2>23, <2>24 DEF Serve
<1>10. ASSUME NEW l \in Launch, Process(l) \/ PumpStep(l)
      PROVE StopInv'
  BY <1>10 DEF Process, LeaderExits, LeaderForks, RestExits, PumpStep, PumpReads, PumpWrites, PumpEnds
<1>11. ASSUME NEW p \in Pids, StrangerStarts(p) \/ StrangerExits(p)
      PROVE StopInv'
  BY <1>11 DEF StrangerStarts, StrangerExits
<1>12. CASE UNCHANGED vars
  BY <1>12 DEF vars
<1> HIDE DEF IInv, TypeInv, TypeOK, StopInv
<1> QED
  BY <1>1, <1>2, <1>3, <1>4, <1>5, <1>6, <1>7, <1>8, <1>9, <1>10, <1>11, <1>12, SMTT(30)
         DEF Next, Call

LEMMA InvInit == Init => IInv
<1> SUFFICES ASSUME Init PROVE IInv
  OBVIOUS
<1> USE ServicesAssumption DEF Init, Critical, Working, Outside, Entered, Holding
<1>1. TypeInv
  BY TypeInit
<1>2. LockInv /\ FrameInv
  BY DEF LockInv, FrameInv
<1>3. BornInv /\ ChildInv /\ StatusInv
  BY DEF BornInv, ChildInv, StatusInv
<1>4. TreeInv /\ PidInv /\ AloneInv
  BY DEF TreeInv, PidInv, AloneInv, Live, GroupHeld
<1>5. WhyInv /\ CodeInv
  BY DEF WhyInv, CodeInv, IsNewest
<1>6. CaptureInv /\ StopInv
  BY DEF CaptureInv, StopInv
<1> QED
  BY <1>1, <1>2, <1>3, <1>4, <1>5, <1>6 DEF IInv

\* The inductive invariant holds in every reachable state.
THEOREM Invariance == Spec => []IInv
<1>1. IInv /\ [Next]_vars => IInv'
  <2> SUFFICES ASSUME IInv, [Next]_vars PROVE IInv'
    OBVIOUS
  <2>1. TypeInv'
    BY TypeStep DEF IInv
  <2> QED
    BY <2>1, TableStep, TreeStep, PidStep, WhyStep, CodeStep, CaptureStep, StopStep DEF IInv
<1> QED
  BY <1>1, InvInit, PTL DEF Spec

-----------------------------------------------------------------------------
(* What follows from it.                                                   *)

\* Two live trees of one service would both be its child, or one its child and the
\* other in the hands of an operation that took the child away, or both in the
\* hands of the one operation that holds the mutex; or one was left behind.
LEMMA InvOneLiveTree == IInv => OneLiveTree
<1> SUFFICES ASSUME IInv, NEW l \in Launch, NEW m \in Launch,
                    Live(l), Live(m), owner[l] = owner[m],
                    ~Forsaken(l), ~Forsaken(m)
             PROVE  l = m
  BY DEF OneLiveTree
<1> DEFINE Held(x) == \E t \in Threads : pc[t] \in Holding /\ cur[t] = x
<1>1. /\ child[owner[l]] = l \/ Held(l)
      /\ child[owner[m]] = m \/ Held(m)
  BY DEF IInv, TreeInv
<1>2. \A x \in Launch : Held(x) => child[owner[x]] = NoLaunch
  BY ServicesAssumption DEF IInv, FrameInv, WhyInv, Holding, Working, Entered
<1>3. Held(l) /\ Held(m) => l = m
  BY DEF IInv, LockInv, Holding, Working, Critical
<1>4. l # NoLaunch /\ m # NoLaunch
  BY ServicesAssumption
<1> HIDE DEF Held
<1> QED
  BY <1>1, <1>2, <1>3, <1>4

LEMMA InvNoUntrackedTree == IInv => NoUntrackedTree
<1> SUFFICES ASSUME IInv, NEW l \in Launch, Live(l), ~Busy(owner[l]), ~Forsaken(l)
             PROVE  /\ child[owner[l]] = l
                    /\ status[owner[l]] = "running" \/ leader[l] = "lost"
  BY DEF NoUntrackedTree
<1>1. owner[l] \in Services
  BY ServicesAssumption DEF IInv, BornInv, Live, TypeInv, TypeOK
<1>2. child[owner[l]] = l
  BY DEF IInv, TreeInv, FrameInv, Busy
<1>3. child[owner[l]] # NoLaunch /\ ~Unknown(owner[l]) => status[owner[l]] = "running"
  BY <1>1 DEF IInv, StatusInv, Busy
<1> QED
  BY <1>2, <1>3, ServicesAssumption

LEMMA InvSiblingsSafe == IInv => SiblingsSafe
  BY DEF IInv, AloneInv, SiblingsSafe, Holding

\* No service ever has two live process trees, but for those left behind where
\* try_wait could not answer.
THEOREM OneTreePerService == Spec => []OneLiveTree
  BY Invariance, InvOneLiveTree, PTL

\* Between operations every live tree is the child of a service that the table
\* shows as running, but for those left behind and those try_wait cannot tell of.
THEOREM EveryTreeTracked == Spec => []NoUntrackedTree
  BY Invariance, InvNoUntrackedTree, PTL

\* No kill is ever sent to the process group of another launch.
THEOREM KillsStayHome == Spec => []SiblingsSafe
  BY Invariance, InvSiblingsSafe, PTL

-----------------------------------------------------------------------------
(* What is shown, written and left behind.                                  *)

\* There is no newer launch than the newest.
LEMMA NewestIsNewest ==
  ASSUME TypeOK, BornInv, NEW s \in Services, NEW l \in MaybeLaunch, IsNewest(s, l)
  PROVE  Newest(s) = l
<1> DEFINE mine == {m \in Launch : owner[m] = s}
<1>1. CASE l = NoLaunch
  <2>1. mine = {}
    BY <1>1, ServicesAssumption DEF IsNewest
  <2> QED
    BY <1>1, <2>1 DEF Newest
<1>2. CASE l # NoLaunch
  <2>1. l \in mine /\ \A m \in mine : m <= l
    BY <1>2, ServicesAssumption DEF IsNewest
  <2>2. \A k \in mine : (\A m \in mine : m <= k) => k = l
    BY <2>1, ServicesAssumption
  <2> HIDE DEF mine
  <2>3. (CHOOSE k \in mine : \A m \in mine : m <= k) = l
    BY <2>1, <2>2
  <2> QED
    BY <2>1, <2>3 DEF Newest, mine
<1> QED
  BY <1>1, <1>2

LEMMA InvSnapshotHonest == IInv => SnapshotHonest
<1> SUFFICES ASSUME IInv, NEW s \in Services, ~Busy(s)
             PROVE  /\ status[s] = "running" => child[s] # NoLaunch
                    /\ child[s] # NoLaunch /\ ~Unknown(s) => status[s] = "running"
                    /\ child[s] # NoLaunch => child[s] = Newest(s)
                    /\ exitCode[s] = IF child[s] # NoLaunch THEN NoLaunch ELSE Newest(s)
  BY DEF SnapshotHonest
<1>1. child[s] \in MaybeLaunch /\ exitCode[s] \in MaybeLaunch
  BY DEF IInv, TypeInv, TypeOK
<1>2. /\ status[s] = "running" => child[s] # NoLaunch
      /\ child[s] # NoLaunch /\ ~Unknown(s) => status[s] = "running"
  BY DEF IInv, StatusInv, Busy
<1>3. child[s] # NoLaunch => IsNewest(s, child[s]) /\ exitCode[s] = NoLaunch
  BY DEF IInv, CodeInv
<1>4. child[s] = NoLaunch => IsNewest(s, exitCode[s])
  BY DEF IInv, CodeInv, Busy
<1>5. \A l \in MaybeLaunch : IsNewest(s, l) => Newest(s) = l
  BY NewestIsNewest DEF IInv, TypeInv
<1> QED
  BY <1>1, <1>2, <1>3, <1>4, <1>5

LEMMA InvOnlyCaptureWrites == IInv => OnlyCaptureWrites
  BY DEF IInv, CaptureInv, OnlyCaptureWrites

\* After stop_all no service has a child, and no operation holds a tree.
LEMMA InvStopAllLeavesNothing == IInv => StopAllLeavesNothing
<1> SUFFICES ASSUME IInv, At("caller", "idle"), op["caller"] = "stop_all"
             PROVE  /\ At("monitor", "off")
                    /\ \A s \in Services : child[s] = NoLaunch
                    /\ \A l \in Launch : Live(l) => Forsaken(l)
  BY DEF StopAllLeavesNothing
<1>1. At("monitor", "off") /\ \A s \in Services : child[s] = NoLaunch
  BY ServicesAssumption DEF IInv, StopInv, FrameInv, Working
<1>2. \A t \in Threads : pc[t] \notin Holding
  BY <1>1 DEF Holding
<1>3. \A l \in Launch : Live(l) => owner[l] \in Services
  BY ServicesAssumption DEF IInv, BornInv, Live, TypeInv, TypeOK
<1>4. \A l \in Launch : Live(l) => child[owner[l]] = l \/ Forsaken(l)
  BY <1>2 DEF IInv, TreeInv
<1>5. \A l \in Launch : l # NoLaunch
  BY ServicesAssumption
<1> QED
  BY <1>1, <1>3, <1>4, <1>5

\* Between operations a snapshot shows each service as running exactly when it has
\* its newest launch for a child, one that try_wait knows of, and without a child
\* the exit code of that launch.
THEOREM SnapshotsHonest == Spec => []SnapshotHonest
  BY Invariance, InvSnapshotHonest, PTL

\* Only the current capture of a service may come to start a write.
THEOREM CaptureAlone == Spec => []OnlyCaptureWrites
  BY Invariance, InvOnlyCaptureWrites, PTL

\* When stop_all has returned nothing watches, no child is held, and nothing lives
\* but what was left behind.
THEOREM NothingLeft == Spec => []StopAllLeavesNothing
  BY Invariance, InvStopAllLeavesNothing, PTL

-----------------------------------------------------------------------------
(* The manager implements ServiceSlots: a step of a thread, a process or a *)
(* pump fills an empty slot, empties one, reports an empty one, or changes *)
(* none.                                                                   *)

HIDE DEF Launch

\* the slots, as the manager's state shows them
Trees == [s \in Services |-> {l \in Launch : owner[l] = s /\ Known(l)}]
Used == {l \in Launch : owner[l] # NoService}

\* Whoever is past its tree, and has none in its hands, is at an empty slot.
LEMMA PastItsTree ==
  ASSUME IInv, NEW t \in Threads, pc[t] \in Working \ (Entered \cup Holding)
  PROVE  svc[t] \in Services /\ Trees[svc[t]] = {}
<1>1. svc[t] \in Services /\ (child[svc[t]] = NoLaunch \/ Unknown(svc[t]))
  BY DEF IInv, TypeInv, FrameTyped, FrameInv
<1>2. \A u \in Threads : pc[u] \in Holding => u = t
  BY DEF IInv, LockInv, Critical, Working, Holding
<1>3. ASSUME NEW l \in Launch, owner[l] = svc[t], Known(l) PROVE FALSE
  <2>1. child[owner[l]] # l
    BY <1>1, <1>3, ServicesAssumption DEF Launch, Known
  <2>2. \E u \in Threads : pc[u] \in Holding /\ cur[u] = l
    BY <1>3, <2>1 DEF IInv, TreeInv, Known, Forsaken
  <2> QED
    BY <1>2, <2>2
<1> QED
  BY <1>1, <1>3 DEF Trees

\* A step that starts no process, reports nothing and ends no tree is none of the slots'.
LEMMA SlotsStutter ==
  ASSUME UNCHANGED <<status, owner>>, \A l \in Launch : Known(l)' <=> Known(l)
  PROVE  UNCHANGED Slots!vars
<1>1. Trees' = Trees
  BY DEF Trees
<1> QED
  BY <1>1 DEF Slots!vars, Trees

\* A tree that ends empties its slot, since no other tree is in it.
LEMMA TreeEnds ==
  ASSUME IInv, NEW l \in Launch, UNCHANGED <<status, owner>>,
         \A m \in Launch \ {l} : Known(m)' <=> Known(m), Known(l)' => Known(l)
  PROVE  [Slots!Next]_(Slots!vars)
<1>1. CASE Known(l)' <=> Known(l)
  BY <1>1, SlotsStutter
<1>2. CASE Known(l) /\ ~Known(l)'
  <2>1. PICK s \in Services : s = owner[l]
    BY <1>2, ServicesAssumption DEF IInv, BornInv, Known, Live, TypeInv, TypeOK
  <2>2. \A m \in Launch : owner[m] = s /\ Known(m) => m = l
    BY <1>2, <2>1, InvOneLiveTree DEF OneLiveTree, Known, Forsaken
  <2>3. Trees' = [Trees EXCEPT ![s] = {}]
    BY <1>2, <2>1, <2>2 DEF Trees
  <2>4. Slots!Ended(s)
    BY <2>3 DEF Slots!Ended, Trees
  <2> QED
    BY <2>4 DEF Slots!Next
<1> QED
  BY <1>1, <1>2

\* killpg of a thread hits no tree but the one in its hands.
LEMMA KillEndsOne ==
  ASSUME IInv, NEW t \in Threads, pc[t] \in {"orphan", "force"}, KillGroup(pid[cur[t]]),
         UNCHANGED status
  PROVE  [Slots!Next]_(Slots!vars)
<1>1. PICK l \in Launch : l = cur[t]
  BY DEF IInv, FrameInv, Holding, TypeInv, TypeOK
<1>2. \A m \in Launch \ {l} : Known(m) => pid[m] # pid[l]
  BY <1>1 DEF IInv, AloneInv, Holding, GroupHeld, Known, Live
<1>3. UNCHANGED owner /\ \A m \in Launch : pid[m] # pid[l] => (Known(m)' <=> Known(m))
  BY <1>1 DEF KillGroup, Known, Live
<1>4. \A m \in Launch : Known(m)' => Known(m)
  BY <1>1 DEF KillGroup, Kill, Known, Live
<1>5. \A m \in Launch \ {l} : Known(m)' <=> Known(m)
  BY <1>2, <1>3, <1>4
<1> QED
  BY <1>3, <1>4, <1>5, TreeEnds

\* What an operation records it records of an empty slot.
LEMMA Reports ==
  ASSUME IInv, NEW t \in Threads, pc[t] \in {"settle", "spawn"},
         NEW report \in {"stopped", "crashed"},
         status' = [status EXCEPT ![svc[t]] = report], UNCHANGED <<owner, leader, rest>>
  PROVE  Slots!Next
<1>1. PICK s \in Services : s = svc[t] /\ Trees[s] = {}
  BY PastItsTree DEF Working, Entered, Holding
<1>2. Trees' = Trees
  BY DEF Trees, Known, Live
<1>3. Slots!Reported(s)
  BY <1>1, <1>2 DEF Slots!Reported, Trees
<1> QED
  BY <1>3 DEF Slots!Next

\* A launch fills the slot of its service with a tree that never was.
LEMMA FillsSlot == ASSUME IInv, NEW t \in Threads, LaunchSucceeds(t) PROVE Slots!Next
<1>1. PICK s \in Services : s = svc[t] /\ Trees[s] = {}
  BY PastItsTree DEF LaunchSucceeds, Working, Entered, Holding
<1>2. PICK l \in Launch : l = launched + 1
  BY DEF LaunchSucceeds
<1>3. /\ owner' = [owner EXCEPT ![l] = s]
      /\ leader' = [leader EXCEPT ![l] = "alive"]
      /\ status' = [status EXCEPT ![s] = "running"]
      /\ UNCHANGED rest
  BY <1>1, <1>2 DEF LaunchSucceeds
<1>4. owner[l] = NoService /\ leader[l] = "unborn" /\ rest[l] = "none"
  BY <1>2, ServicesAssumption DEF IInv, BornInv, TypeInv, TypeOK
<1>5. /\ owner \in [Launch -> Services \cup {NoService}]
      /\ leader \in [Launch -> LeaderState]
      /\ NoService \notin Services
  BY ServicesAssumption DEF IInv, TypeInv, TypeOK
<1>6. Used' = Used \cup {l} /\ l \notin Used
  BY <1>3, <1>4, <1>5 DEF Used
<1>7. Trees' = [Trees EXCEPT ![s] = {l}]
  <2>1. \A m \in Launch : owner'[m] = s /\ Known(m)' <=> m = l
    BY <1>1, <1>3, <1>5 DEF Trees, Known, Live
  <2>2. ASSUME NEW r \in Services, r # s
        PROVE  \A m \in Launch : owner'[m] = r /\ Known(m)' <=> owner[m] = r /\ Known(m)
    BY <1>3, <1>4, <1>5, <2>2 DEF Known, Live
  <2>3. {m \in Launch : owner'[m] = s /\ Known(m)'} = {l}
    BY <1>2, <2>1 DEF LaunchSucceeds
  <2>4. \A r \in Services : r # s =>
          {m \in Launch : owner'[m] = r /\ Known(m)'} = {m \in Launch : owner[m] = r /\ Known(m)}
    BY <2>2
  <2> QED
    BY <2>3, <2>4 DEF Trees
<1>8. Slots!Launched(s, l)
  BY <1>1, <1>3, <1>6, <1>7 DEF Slots!Launched, Trees, Used
<1> QED
  BY <1>8 DEF Slots!Next

\* Every step of the manager is one of the slots, or none of theirs.
LEMMA SlotsStep == IInv /\ [Next]_vars => [Slots!Next]_(Slots!vars)
<1> SUFFICES ASSUME IInv, [Next]_vars PROVE [Slots!Next]_(Slots!vars)
  OBVIOUS
<1>q. UNCHANGED <<status, os>> => UNCHANGED Slots!vars
  BY SlotsStutter DEF Known, Live
<1>1. CASE Call \/ JoinMonitor \/ StartMonitor \/ MonitorTick \/ MonitorExit
  BY <1>1, <1>q DEF Call, StartAll, StopAll, PollExits, WithManaged, JoinMonitor,
     StartMonitor, MonitorTick, MonitorExit
<1>2. ASSUME NEW t \in Threads, Acquire(t) \/ Serve(t) PROVE [Slots!Next]_(Slots!vars)
  <2>1. CASE \/ Acquire(t) \/ Pick(t) \/ Release(t) \/ PollSkips(t) \/ StartAlreadyRunning(t)
             \/ StartOver(t) \/ NoChild(t) \/ RequestTreeStop(t) \/ GraceExpires(t)
             \/ WaitFails(t) \/ GroupDrained(t)
             \/ DrainExpires(t) \/ CaptureFinished(t) \/ CaptureLingers(t) \/ CaptureDropped(t)
    BY <2>1, <1>q DEF Acquire, Pick, Release, PollSkips, StartAlreadyRunning, StartOver, NoChild,
       RequestTreeStop, GraceExpires, WaitFails, GroupDrained, DrainExpires, CaptureFinished,
       CaptureLingers, CaptureDropped
  <2>2. CASE TakeExited(t) \/ LeaderStopped(t) \/ ReapKilled(t)
    <3>1. PICK l : Reap(l)
      BY <2>2 DEF TakeExited, LeaderStopped, ReapKilled
    <3>2. UNCHANGED status
      BY <2>2 DEF TakeExited, LeaderStopped, ReapKilled
    <3>3. UNCHANGED owner /\ \A m \in Launch : Known(m)' <=> Known(m)
      BY <3>1 DEF Reap, Known, Live, IInv, TypeInv, TypeOK
    <3> QED
      BY <3>2, <3>3, SlotsStutter
  <2>3. CASE KillOrphans(t)
    BY <2>3, KillEndsOne DEF KillOrphans
  <2>4. CASE ForceTreeStop(t)
    BY <2>4, KillEndsOne DEF ForceTreeStop
  <2>5. CASE SettleExit(t)
    BY <2>5, Reports DEF SettleExit
  <2>6. CASE SettleStop(t)
    BY <2>6, Reports DEF SettleStop
  <2>7. CASE LaunchFails(t)
    BY <2>7, Reports DEF LaunchFails
  <2>8. CASE LaunchSucceeds(t)
    BY <2>8, FillsSlot
  <2> QED
    BY <1>2, <2>1, <2>2, <2>3, <2>4, <2>5, <2>6, <2>7, <2>8 DEF Serve
<1>3. ASSUME NEW l \in Launch, Process(l) PROVE [Slots!Next]_(Slots!vars)
  <2>1. UNCHANGED <<status, owner>>
    BY <1>3 DEF Process, LeaderExits, LeaderForks, RestExits
  <2>2. \A m \in Launch \ {l} : Known(m)' <=> Known(m)
    BY <1>3 DEF Process, LeaderExits, LeaderForks, RestExits, Known, Live, IInv, TypeInv, TypeOK
  <2>3. Known(l)' => Known(l)
    BY <1>3 DEF Process, LeaderExits, LeaderForks, RestExits, Known, Live, IInv, TypeInv, TypeOK
  <2> QED
    BY <2>1, <2>2, <2>3, TreeEnds
<1>4. CASE \/ \E l \in Launch : PumpStep(l)
           \/ \E p \in Pids : StrangerStarts(p) \/ StrangerExits(p)
  <2>1. UNCHANGED <<status, owner, leader, rest>>
    BY <1>4 DEF PumpStep, PumpReads, PumpWrites, PumpEnds, StrangerStarts, StrangerExits
  <2> QED
    BY <2>1, SlotsStutter DEF Known, Live
<1>5. CASE UNCHANGED vars
  BY <1>5, <1>q DEF vars
<1> QED
  BY <1>1, <1>2, <1>3, <1>4, <1>5 DEF Next

\* A slot holds one tree at a time, no tree comes back, and a slot is reported stopped
\* or crashed only when it is empty, whatever the threads and processes do.
THEOREM ManagerImplementsSlots == Spec => ImplementsSlots
<1>1. Init => Slots!Init
  BY DEF Init, Slots!Init, Known, Live
<1> QED
  BY <1>1, SlotsStep, Invariance, PTL DEF Spec, ImplementsSlots, Slots!Spec

=============================================================================
