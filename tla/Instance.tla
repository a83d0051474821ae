------------------------------ MODULE Instance ------------------------------
(***************************************************************************)
(* One instance per profile: src/src/instance.rs, run in src/src/main.rs.   *)
(* A launch that takes the profile's lock becomes the primary; it repairs  *)
(* PATH (ShellPath), then listens on the profile's socket until its        *)
(* frontend returns.                                                       *)
(* A launch that does not take the lock knocks on that socket until it is  *)
(* answered or its patience ends.  Processes may be killed at any moment.  *)
(*                                                                         *)
(* Time is counted in ticks; the sleeps between attempts (CONNECT_RETRY,   *)
(* ACCEPT_POLL) are shorter than a tick.                                   *)
(***************************************************************************)
EXTENDS ShellPath

CONSTANTS Nobody,
          ShellTimeout,      \* ticks the login shell may take (SHELL_TIMEOUT)
          ActivationTimeout  \* ticks a launch keeps knocking

ASSUME InstanceAssumption ==
  /\ Nobody \notin Launches
  /\ ShellTimeout \in Nat
  /\ ActivationTimeout \in Nat

VARIABLES
  pc,        \* where each process is in run
  age,       \* ticks it has spent there
  holder,    \* who holds the profile's lock
  endpoint,  \* whose listener the socket's name leads to, dead or alive
  backlog    \* connections the listener has not read

lvars == <<pc, age, holder, endpoint, backlog>>
ivars == <<lvars, shvars>>

Primary == {"starting", "serving", "leaving", "unlocking"}
Places == Primary \cup {"off", "knocking", "reached", "shown", "lost",
                        "unanswered", "done", "killed"}

\* how long a process may stay at a place that time bounds
Patience(place) == IF place = "starting" THEN ShellTimeout
                   ELSE IF place = "knocking" THEN ActivationTimeout ELSE 0

InstanceTypeOK ==
  /\ ShellTypeOK
  /\ pc \in [Launches -> Places]
  /\ age \in [Launches -> Nat]
  /\ \A p \in Launches : age[p] <= Patience(pc[p])
  /\ holder \in Launches \cup {Nobody}
  /\ endpoint \in Launches \cup {Nobody}
  /\ backlog \subseteq Launches

InstanceInit ==
  /\ pc = [p \in Launches |-> "off"]
  /\ age = [p \in Launches |-> 0]
  /\ holder = Nobody
  /\ endpoint = Nobody
  /\ backlog = {}
  /\ ShellInit

\* mutant: the clock of an earlier wait runs on
MoveLate(p, place) ==
  /\ pc' = [pc EXCEPT ![p] = place]
  /\ UNCHANGED age

MoveTo(p, place) ==
  /\ pc' = [pc EXCEPT ![p] = place]
  /\ age' = [age EXCEPT ![p] = 0]

\* the listener is open from its creation until ActivationServer's drop
Listening == endpoint # Nobody /\ pc[endpoint] \in {"serving", "leaving"}

\* connections that nobody will read any more
Forget == [p \in Launches |-> IF p \in backlog THEN "lost" ELSE pc[p]]

-----------------------------------------------------------------------------
(* The primary.                                                            *)

\* mutant: a launch that cannot open the lock file runs without it
StartUnlocked(p) ==
  /\ pc[p] = "off"
  /\ MoveTo(p, "starting")
  /\ holder' = p
  /\ UNCHANGED <<endpoint, backlog, shvars>>

\* acquire_instance_lock: take the lock, or go and knock
Start(p) ==
  /\ pc[p] = "off"
  /\ IF holder = Nobody
     THEN MoveTo(p, "starting") /\ holder' = p
     ELSE MoveTo(p, "knocking") /\ UNCHANGED holder
  /\ UNCHANGED <<endpoint, backlog, shvars>>

\* restore_login_shell_path, and what goes on meanwhile
AskShell(p) ==
  /\ pc[p] = "starting"
  /\ Query(p, age[p] >= ShellTimeout)
  /\ UNCHANGED lvars

ShellRuns(p) ==
  /\ pc[p] = "starting"
  /\ Shell(p)
  /\ UNCHANGED lvars

\* ActivationServer::start
Listen(p) ==
  /\ pc[p] = "starting" /\ query[p].at = "over"
  /\ endpoint' = p
  /\ MoveTo(p, "serving")
  /\ UNCHANGED <<holder, backlog, shvars>>

\* the log, the runtime or the listener cannot be created: run fails
StartFails(p) ==
  /\ pc[p] = "starting" /\ ~Asking(p)
  /\ MoveTo(p, "done")
  /\ holder' = Nobody
  /\ UNCHANGED <<endpoint, backlog, shvars>>

\* mutant: of the requests that wait together only the last is passed on
AcceptLast(k) ==
  /\ Listening /\ k \in backlog
  /\ backlog' = backlog \ {k}
  /\ MoveTo(k, IF pc[endpoint] = "serving" /\ backlog = {k} THEN "shown" ELSE "lost")
  /\ UNCHANGED <<holder, endpoint, shvars>>

\* the accept loop reads a request; a frontend that has returned ignores it
Accept(k) ==
  /\ Listening /\ k \in backlog
  /\ backlog' = backlog \ {k}
  /\ MoveTo(k, IF pc[endpoint] = "serving" THEN "shown" ELSE "lost")
  /\ UNCHANGED <<holder, endpoint, shvars>>

\* the frontend returns
Leave(p) ==
  /\ pc[p] = "serving"
  /\ MoveTo(p, "leaving")
  /\ UNCHANGED <<holder, endpoint, backlog, shvars>>

\* mutant: the lock is dropped before the server
DropLockFirst(p) ==
  /\ pc[p] = "leaving"
  /\ holder' = IF holder = p THEN Nobody ELSE holder
  /\ UNCHANGED <<pc, age, endpoint, backlog, shvars>>

\* drop(activation)
DropServer(p) ==
  /\ pc[p] = "leaving"
  /\ endpoint' = Nobody
  /\ backlog' = {}
  /\ pc' = [Forget EXCEPT ![p] = "unlocking"]
  /\ UNCHANGED <<age, holder, shvars>>

\* drop(lock)
DropLock(p) ==
  /\ pc[p] = "unlocking"
  /\ MoveTo(p, "done")
  /\ holder' = Nobody
  /\ UNCHANGED <<endpoint, backlog, shvars>>

\* the process is killed: the system drops its lock, and its listener with
\* what it has not read, but the name may stay behind
Killed(p) ==
  /\ pc[p] \in Primary
  /\ pc' = [(IF endpoint = p THEN Forget ELSE pc) EXCEPT ![p] = "killed"]
  /\ backlog' = IF endpoint = p THEN {} ELSE backlog
  /\ holder' = Nobody
  /\ endpoint' \in {endpoint} \cup (IF endpoint = p THEN {Nobody} ELSE {})
  /\ age' = [age EXCEPT ![p] = 0]
  /\ query' = [query EXCEPT ![p] = Over]
  /\ UNCHANGED path

-----------------------------------------------------------------------------
(* Later launches.                                                         *)

\* send_activation succeeds
Knock(p) ==
  /\ pc[p] = "knocking"
  /\ Listening
  /\ backlog' = backlog \cup {p}
  /\ MoveTo(p, "reached")
  /\ UNCHANGED <<holder, endpoint, shvars>>

\* it fails at the deadline or after
GiveUp(p) ==
  /\ pc[p] = "knocking"
  /\ ~Listening
  /\ age[p] >= ActivationTimeout
  /\ MoveTo(p, "unanswered")
  /\ UNCHANGED <<holder, endpoint, backlog, shvars>>

Waiting == {p \in Launches : pc[p] \in {"starting", "knocking"}}

\* A tick passes once nobody is late with what takes less than one.
Tick ==
  /\ \A p \in Waiting : age[p] < Patience(pc[p]) /\ (pc[p] = "knocking" => ~Listening)
  /\ Waiting # {}
  /\ age' = [p \in Launches |-> IF p \in Waiting THEN age[p] + 1 ELSE age[p]]
  /\ UNCHANGED <<pc, holder, endpoint, backlog, shvars>>

Run(p) ==
  \/ AskShell(p) \/ Listen(p) \/ Accept(p) \/ DropServer(p) \/ DropLock(p)
  \/ Knock(p) \/ GiveUp(p)

InstanceNext ==
  \/ \E p \in Launches : Start(p) \/ Run(p) \/ ShellRuns(p) \/ StartFails(p) \/ Leave(p) \/ Killed(p)
  \/ Tick

InstanceSpec == InstanceInit /\ [][InstanceNext]_ivars

\* processes run and time passes; nothing says that a start fails or that a
\* frontend returns
InstanceFairSpec ==
  InstanceSpec /\ WF_ivars(Tick) /\ \A p \in Launches : WF_ivars(Run(p))

-----------------------------------------------------------------------------
(* What must hold.                                                         *)

\* Between taking the lock and dropping it a process is the only one there,
\* whatever was killed before it (acquire_instance_lock, run).
OnePrimary == \A p \in Launches : pc[p] \in Primary <=> holder = p

\* A request only ever reaches the one process that holds the lock: the
\* listener goes before the lock does, and a dead one is overwritten.
ListenerHoldsLock ==
  /\ Listening => endpoint = holder
  /\ holder # Nobody /\ pc[holder] \in {"serving", "leaving"} => endpoint = holder

\* The listener calls "`on_activate` for each one" (ActivationServer::start): the
\* window is shown for a launch that got its request through, unless the frontend
\* returns or the primary is killed first, which loses what is waiting.
Served == endpoint # Nobody /\ pc[endpoint] = "serving"
RequestAnswered(k) == (k \in backlog /\ Served) ~> (pc[k] = "shown" \/ ~Served)

\* Every launch comes to serve or to exit, whatever was killed before it.
LaunchSettles ==
  \A p \in Launches : p \in Waiting ~> p \notin Waiting

\* "Nothing already visible is lost" (merge_path), whatever the shell prints,
\* whoever holds its pipe and whenever it is killed: a launch changes its PATH
\* only after its reader has ended and from a whole answer, to a PATH in which
\* every directory of both is found once, the login shell's first.  There are two
\* exceptions: an inherited PATH that is not UTF-8 is replaced, and a directory of
\* the login shell's that is not UTF-8 comes under the name from_utf8_lossy makes.
Before(seq, a, b) == \E i, j \in DOMAIN seq : i < j /\ seq[i] = a /\ seq[j] = b

PathRestored ==
  [][\A p \in Launches :
       path'[p] # path[p] =>
         LET dirs(seq) == {seq[i] : i \in DOMAIN seq} \ {""}
             old  == IF path[p] = Garbled THEN <<>> ELSE path[p]
             told == {Decode(d) : d \in dirs(query[p].login)}
         IN /\ query[p].sent /\ query[p].text = "whole" /\ holder = p
            /\ dirs(path'[p]) = dirs(old) \cup told
            /\ \A a \in dirs(path'[p]) : ~Before(path'[p], a, a)
            /\ \A a \in told, b \in dirs(old) \ told : Before(path'[p], a, b)
            /\ "" \notin {path'[p][i] : i \in DOMAIN path'[p]}]_ivars

\* "Retries for up to `timeout` to cover the window in which the primary holds
\* its lock but has not started listening yet" (src/src/instance.rs:75): no
\* launch gives up in that window.
StartupCovered ==
  [][\A p, q \in Launches :
       pc[q] = "starting" /\ pc[p] = "knocking" => pc'[p] # "unanswered"]_ivars

=============================================================================
