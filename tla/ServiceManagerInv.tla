-------------------------- MODULE ServiceManagerInv --------------------------
(***************************************************************************)
(* The inductive invariant behind the safety properties of ServiceManager: *)
(* it ties the mutex to the program counters, the table to the processes,  *)
(* and process ids to the groups that hold them.                           *)
(***************************************************************************)
EXTENDS ServiceManager

\* an operation works on a service exactly inside the mutex's loop body
FrameTyped == \A t \in Threads : pc[t] \in Working => svc[t] \in Services

TypeInv == TypeOK /\ FrameTyped

LockInv == \A t \in Threads : pc[t] \in Critical <=> lock = t

\* where the operation has not looked at the child yet
Entered == {"start", "stop", "poll"}

\* where the tree the operation took off the table may still be alive
Holding == {"orphan", "graceful", "force", "drain"}

FrameInv ==
  \A t \in Threads :
    /\ pc[t] \notin Working => svc[t] = NoService
    /\ pc[t] \in Holding \cup {"forced"} => cur[t] # NoLaunch
    /\ cur[t] # NoLaunch => svc[t] \in Services /\ owner[cur[t]] = svc[t]
    /\ pc[t] \in Working \ Entered =>
         child[svc[t]] = NoLaunch \/ (why[t] = "start" /\ Unknown(svc[t]))
    /\ pc[t] \in {"orphan", "drain"} => leader[cur[t]] = "reaped"

BornInv ==
  \A l \in Launch :
    /\ owner[l] = NoService <=> l > launched
    /\ l > launched => leader[l] = "unborn" /\ rest[l] = "none"

ChildInv ==
  \A s \in Services : child[s] # NoLaunch =>
    owner[child[s]] = s /\ leader[child[s]] \in {"alive", "killed", "zombie", "lost"}

\* a live tree is a child of the table, in the hands of one operation, or left
\* behind by a launch over its lost leader
TreeInv ==
  \A l \in Launch : Live(l) =>
    \/ child[owner[l]] = l
    \/ \E t \in Threads : pc[t] \in Holding /\ cur[t] = l
    \/ Forsaken(l)

StatusInv ==
  \A s \in Services :
    (\A t \in Threads : svc[t] = s => pc[t] \in Entered) =>
      /\ status[s] = "running" => child[s] # NoLaunch
      /\ child[s] # NoLaunch /\ ~Unknown(s) => status[s] = "running"

\* two groups never share an id, nor does a child of the table, lost or not, with
\* another group, nor an operation's own tree, drained or not
PidInv ==
  \A l, m \in Launch :
    /\ l # m /\ GroupHeld(m)
    /\ GroupHeld(l) \/ \E s \in Services : child[s] = l
    => pid[l] # pid[m]

AloneInv ==
  \A t \in Threads : pc[t] \in Holding =>
    \A l \in Launch \ {cur[t]} : GroupHeld(l) => pid[l] # pid[cur[t]]

\* which continuation an operation may be on where
WhyInv ==
  \A t \in Threads :
    /\ pc[t] \notin Working \ Entered => why[t] = "none" /\ cur[t] = NoLaunch
    /\ pc[t] \in {"finish", "discard"} => why[t] # "none"
    /\ pc[t] \in Holding \cup {"forced", "settle"} => why[t] \in {"exit", "stop"}
    /\ pc[t] = "spawn" => why[t] = "start"
    /\ why[t] = "exit" => cur[t] # NoLaunch
    /\ why[t] = "start" => cur[t] = NoLaunch

\* l is the newest launch of s; NoLaunch if it has none
IsNewest(s, l) ==
  /\ l # NoLaunch => owner[l] = s
  /\ \A m \in Launch : owner[m] = s => m <= l

\* the newest launch is the child; or an operation has it; or its exit code is
\* recorded, and only then
CodeInv ==
  \A s \in Services :
    /\ child[s] # NoLaunch => IsNewest(s, child[s]) /\ exitCode[s] = NoLaunch
    /\ \A t \in Threads : svc[t] = s /\ cur[t] # NoLaunch => IsNewest(s, cur[t])
    /\ \/ child[s] # NoLaunch
       \/ \E t \in Threads : svc[t] = s /\ cur[t] # NoLaunch
       \/ IsNewest(s, exitCode[s])

\* a pump that may come to write is the capture; an operation that has waited for
\* the capture twice has muted it, and one that is done with it has dropped it
CaptureInv ==
  /\ \A l \in Launch :
       /\ l > launched => pump[l] = "none"
       /\ pump[l] \in {"reading", "writing"} /\ ~discard[l] => capture[owner[l]] = l
  /\ \A t \in Threads :
       /\ pc[t] = "discard" => capture[svc[t]] # NoLaunch /\ discard[capture[svc[t]]]
       /\ pc[t] \in {"settle", "spawn"} => capture[svc[t]] = NoLaunch

\* stop_all launches nothing, is alone once it has the monitor joined, and has
\* emptied the slots it has been through
StopInv ==
  /\ At("caller", "start_monitor") => op["caller"] = "start_all"
  /\ op["caller"] = "stop_all" =>
       /\ pc["caller"] \notin {"start", "poll", "spawn"}
       /\ why["caller"] \in {"none", "stop"}
       /\ pc["caller"] \in {"join", "lock"} => todo["caller"] = Services
       /\ At("caller", "idle") => todo["caller"] = {}
       /\ At("caller", "join") \/ At("monitor", "off")
       /\ \A s \in Services \ (todo["caller"] \cup {svc["caller"]}) : child[s] = NoLaunch

\* The inductive invariant: what every step of the manager, its monitor, its
\* children and their pumps keeps, from which the safety properties follow.
IInv ==
  /\ TypeInv /\ LockInv /\ FrameInv /\ BornInv /\ ChildInv /\ TreeInv
  /\ StatusInv /\ PidInv /\ AloneInv
  /\ WhyInv /\ CodeInv /\ CaptureInv /\ StopInv

=============================================================================
