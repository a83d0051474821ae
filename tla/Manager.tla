------------------------------ MODULE Manager ------------------------------
(***************************************************************************)
(* The manager core of src/src/manager.rs: one proxy and one generation of *)
(* services, both started from the configuration file and stopped again,   *)
(* one operation at a time (&mut self) while the file may be edited by     *)
(* hand at any moment.  An operation is a sequence of steps; each step is  *)
(* one call it makes or one check it returns on.                           *)
(***************************************************************************)
EXTENDS Naturals

CONSTANTS Configs,       \* configurations that parse and validate
          Unroutable,    \* those whose routes do not resolve (RouteTable)
          Unlaunchable,  \* those whose commands do not (ServiceManager::new)
          NoConfig,      \* no file; None
          Broken,        \* a file that load_manifest rejects
          MaxStarts      \* bound: service generations in a behaviour

ASSUME ManagerAssumption ==
  /\ Unroutable \subseteq Configs
  /\ Unlaunchable \subseteq Configs
  /\ NoConfig \notin Configs
  /\ Broken \notin Configs \cup {NoConfig}
  /\ MaxStarts \in Nat

VARIABLES
  disk,      \* what services.toml holds
  running,   \* Manager::running
  proxy,     \* the configuration the bound proxy routes by
  gen,       \* which ServiceManager Manager::services holds; 0 for none
  services,  \* and the configuration that one was made from
  live,      \* the generations that may have live processes
  step, op,  \* the operation in progress
  loaded,    \* its local manifest
  then,      \* where stop returns to
  result     \* what the latest operation answers

held == <<running, proxy, gen, services, live>>
call == <<step, op, loaded, then, result>>
mvars == <<disk, held, call>>

MaybeConfig == Configs \cup {NoConfig}
File == MaybeConfig \cup {Broken}
Steps == {"idle", "apply", "start", "load", "routes", "launch", "replace",
          "bind", "stop_proxy", "stop_services", "service"}
Results == {"none", "started", "restarted", "unchanged", "stopped", "done",
            "config_error", "bind_error", "not_running"}

ManagerTypeOK ==
  /\ disk \in File
  /\ running \in MaybeConfig
  /\ proxy \in MaybeConfig
  /\ gen \in 0 .. MaxStarts
  /\ services \in MaybeConfig
  /\ live \subseteq 1 .. MaxStarts
  /\ step \in Steps
  /\ op \in {"none", "start", "apply", "stop", "service"}
  /\ loaded \in MaybeConfig
  /\ then \in {"idle", "load"}
  /\ result \in Results

ManagerInit ==
  /\ disk \in File
  /\ running = NoConfig
  /\ proxy = NoConfig
  /\ gen = 0
  /\ services = NoConfig
  /\ live = {}
  /\ step = "idle"
  /\ op = "none"
  /\ loaded = NoConfig
  /\ then = "idle"
  /\ result = "none"

IsRunning == proxy # NoConfig

-----------------------------------------------------------------------------
(* Steps of an operation.                                                  *)

To(s) == step' = s /\ UNCHANGED <<op, then>>

Answer(r) == To("idle") /\ result' = r /\ loaded' = NoConfig

\* mutant: apply starts anew without regard to what runs
ApplyRestarts ==
  /\ step = "apply"
  /\ To("start")
  /\ result' = IF running = NoConfig THEN "started" ELSE "restarted"
  /\ UNCHANGED <<disk, held, loaded>>

\* apply: nothing runs, the file is the running configuration, or it differs
Apply ==
  /\ step = "apply"
  /\ IF running = NoConfig
     THEN To("start") /\ result' = "started" /\ UNCHANGED loaded
     ELSE IF disk \notin Configs THEN Answer("config_error")
     ELSE IF disk = running THEN Answer("unchanged")
     ELSE To("start") /\ result' = "restarted" /\ UNCHANGED loaded
  /\ UNCHANGED <<disk, held>>

\* mutant: start does not stop what is running
StartBeside ==
  /\ step = "start"
  /\ To("load")
  /\ UNCHANGED <<disk, held, loaded, result>>

\* start stops what is running first
Start ==
  /\ step = "start"
  /\ step' = IF IsRunning THEN "stop_proxy" ELSE "load"
  /\ then' = IF IsRunning THEN "load" ELSE then
  /\ UNCHANGED <<disk, held, op, loaded, result>>

Load ==
  /\ step = "load"
  /\ IF disk \in Configs
     THEN To("routes") /\ loaded' = disk /\ UNCHANGED result
     ELSE Answer("config_error")
  /\ UNCHANGED <<disk, held>>

ResolveRoutes ==
  /\ step = "routes"
  /\ IF loaded \in Unroutable
     THEN Answer("config_error")
     ELSE To("launch") /\ UNCHANGED <<loaded, result>>
  /\ UNCHANGED <<disk, held>>

\* ServiceManager::new fails, also when it cannot create the log directory
LaunchRefused ==
  /\ step = "launch"
  /\ Answer("config_error")
  /\ UNCHANGED <<disk, held>>

\* ... or start_all launches the new generation
Launched ==
  /\ step = "launch"
  /\ loaded \notin Unlaunchable
  /\ gen < MaxStarts
  /\ live' = live \cup {gen + 1}
  /\ To("replace")
  /\ UNCHANGED <<disk, running, proxy, gen, services, loaded, result>>

\* self.services = Some(services) drops, and so stops, the one before
Replace ==
  /\ step = "replace"
  /\ gen' = gen + 1
  /\ services' = loaded
  /\ live' = live \ {gen}
  /\ To("bind")
  /\ UNCHANGED <<disk, running, proxy, loaded, result>>

Bound ==
  /\ step = "bind"
  /\ proxy' = loaded
  /\ running' = loaded
  /\ Answer(result)
  /\ UNCHANGED <<disk, gen, services, live>>

\* mutant: a failed bind leaves the services running
BindFailsOnly ==
  /\ step = "bind"
  /\ Answer("bind_error")
  /\ UNCHANGED <<disk, held>>

\* an address is taken: stop what was started and report
BindFails ==
  /\ step = "bind"
  /\ result' = "bind_error"
  /\ step' = "stop_proxy"
  /\ then' = "idle"
  /\ UNCHANGED <<disk, held, op, loaded>>

StopProxy ==
  /\ step = "stop_proxy"
  /\ running' = NoConfig
  /\ proxy' = NoConfig
  /\ To("stop_services")
  /\ UNCHANGED <<disk, gen, services, live, loaded, result>>

StopServices ==
  /\ step = "stop_services"
  /\ live' = live \ {gen}
  /\ step' = then
  /\ then' = "idle"
  /\ loaded' = NoConfig
  /\ UNCHANGED <<disk, running, proxy, gen, services, op, result>>

\* mutant: a service can be started while the manager is stopped
ServiceOpAlways ==
  /\ step = "service"
  /\ live' = live \cup ({gen} \ {0})
  /\ Answer("done")
  /\ UNCHANGED <<disk, running, proxy, gen, services>>

\* start, stop and restart of one service, refused unless running
ServiceOp ==
  /\ step = "service"
  /\ IF IsRunning /\ gen # 0
     THEN live' = live \cup {gen} /\ Answer("done")
     ELSE UNCHANGED live /\ Answer("not_running")
  /\ UNCHANGED <<disk, running, proxy, gen, services>>

ManagerStep ==
  \/ Apply \/ Start \/ Load \/ ResolveRoutes \/ LaunchRefused \/ Launched
  \/ Replace \/ Bound \/ BindFails \/ StopProxy \/ StopServices \/ ServiceOp

-----------------------------------------------------------------------------
(* Operations, and what happens to the file between and during them.       *)

\* what an operation answers unless it fails
First(o) == CASE o = "start" -> "started" [] o = "stop" -> "stopped" [] OTHER -> "none"

Begin(o) ==
  /\ step = "idle"
  /\ op' = o
  /\ step' = IF o = "stop" THEN "stop_proxy" ELSE o
  /\ then' = "idle"
  /\ result' = First(o)
  /\ UNCHANGED <<disk, held, loaded>>

\* save_config: validate, then replace the file in one rename
Save(text) ==
  /\ step = "idle"
  /\ text \in Configs \ Unroutable
  /\ disk' = text
  /\ UNCHANGED <<held, call>>

EditByHand ==
  /\ \E text \in File : disk' = text
  /\ UNCHANGED <<held, call>>

ManagerNext ==
  \/ \E o \in {"start", "apply", "stop", "service"} : Begin(o)
  \/ ManagerStep
  \/ \E text \in Configs : Save(text)
  \/ EditByHand

ManagerSpec == ManagerInit /\ [][ManagerNext]_mvars
ManagerFairSpec == ManagerSpec /\ WF_mvars(ManagerStep)

-----------------------------------------------------------------------------
(* What must hold.                                                         *)

\* Between operations the manager runs, with a configuration, exactly while
\* the proxy serves that configuration over services made from it; otherwise
\* nothing it ever started is left (start's error paths, stop, Drop).
RunningExactlyWhileServing ==
  step = "idle" =>
    /\ running = proxy
    /\ running # NoConfig => services = running
    /\ running = NoConfig => live = {}

\* The proxy never routes by one configuration while the services at hand
\* come from another, not even while an operation replaces them.
ProxyFitsServices == proxy # NoConfig => services = proxy

\* Services of two generations, which share log files, never live together.
OneGeneration == \A g, h \in live : g = h

\* The answer of an operation holds of what it leaves behind, though the file
\* is read twice by apply and may change in between.
AnswerHonest ==
  step = "idle" =>
    /\ result \in {"started", "restarted", "unchanged", "done"} => running # NoConfig
    /\ result \in {"stopped", "bind_error", "not_running"} => running = NoConfig
    /\ running \notin Unroutable \cup Unlaunchable

\* Running services are taken down only by start, by stop, by a failed bind,
\* or by an apply that answers so, and it does only if it found another valid
\* configuration in the file than the one running: a comment or a broken edit
\* never costs a restart (apply).
DownOnlyForCause ==
  [][/\ gen \in live \ live' => \/ op \in {"start", "stop"}
                                \/ result \in {"restarted", "bind_error"}
     /\ result' = "restarted" /\ result # "restarted" =>
          op = "apply" /\ disk \in Configs \ {running}]_mvars

-----------------------------------------------------------------------------
(* The inductive invariant: what holds at each step of an operation.       *)

\* Nothing serves and nothing lives from the stop that start begins with
\* until the new generation is launched.
DownWhileLoading ==
  step \in {"load", "routes", "launch"} => proxy = NoConfig /\ live = {}

\* Only a configuration that resolves is ever launched.
LoadedResolves ==
  /\ step \in {"launch", "replace", "bind"} => loaded \in Configs \ Unroutable
  /\ step \in {"replace", "bind"} => loaded \notin Unlaunchable
  /\ step = "routes" => loaded \in Configs

\* At rest, and until an operation takes anything down, proxy and services
\* are of the running configuration; on the way up and down they follow.
HeldInStep ==
  /\ running \notin Unroutable \cup Unlaunchable
  /\ live \subseteq (IF step = "replace" THEN {gen + 1} ELSE {gen})
  /\ running = proxy
  /\ proxy # NoConfig \/ step = "bind" => gen # 0
  /\ step \in {"replace", "bind", "stop_services"} => proxy = NoConfig
  /\ step = "replace" => gen < MaxStarts
  /\ step = "bind" => services = loaded
  /\ step \in {"idle", "apply", "start", "service"} /\ proxy = NoConfig => live = {}

\* stop returns to start or ends the operation; a result is for its reader.
ReturnInStep ==
  /\ step \notin {"stop_proxy", "stop_services"} => then = "idle"
  /\ step = "idle" =>
       /\ result \in {"started", "restarted", "unchanged", "done"} => proxy # NoConfig
       /\ result \in {"stopped", "bind_error", "not_running"} => proxy = NoConfig
  /\ step \in {"stop_proxy", "stop_services"} /\ then = "idle" =>
       result \in {"stopped", "bind_error"}
  /\ step \in {"start", "load", "routes", "launch", "replace", "bind"} \/ then = "load" =>
       result \in {"started", "restarted"}

\* What is about to be taken down is taken down for a cause.
CauseInStep ==
  /\ step = "apply" => op = "apply"
  /\ step = "start" /\ proxy # NoConfig => op = "start" \/ result = "restarted"
  /\ step \in {"stop_proxy", "stop_services"} =>
       op \in {"start", "stop"} \/ result \in {"restarted", "bind_error"}

\* Everything above in one inductive invariant (start, apply, stop).
ManagerInv ==
  /\ ManagerTypeOK /\ ProxyFitsServices
  /\ DownWhileLoading /\ LoadedResolves /\ HeldInStep /\ ReturnInStep /\ CauseInStep

=============================================================================
