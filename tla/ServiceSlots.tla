---------------------------- MODULE ServiceSlots ----------------------------
(***************************************************************************)
(* What the service manager promises of each service, without threads,     *)
(* locks, signals or pumps: a service is a slot that holds at most one     *)
(* live process tree at a time, every tree is launched once, and the slot  *)
(* is only ever reported stopped or crashed when it is empty.              *)
(***************************************************************************)
CONSTANTS Services, Launch

VARIABLES view,   \* the status a user sees
          live,   \* the launches with live processes in each slot
          used    \* every launch so far

vars == <<view, live, used>>

TypeOK ==
  /\ view \in [Services -> {"running", "stopped", "crashed"}]
  /\ live \in [Services -> SUBSET Launch]
  /\ used \subseteq Launch

Init ==
  /\ view = [s \in Services |-> "stopped"]
  /\ live = [s \in Services |-> {}]
  /\ used = {}

\* a fresh tree fills an empty slot
Launched(s, l) ==
  /\ live[s] = {}
  /\ l \notin used
  /\ live' = [live EXCEPT ![s] = {l}]
  /\ used' = used \cup {l}
  /\ view' = [view EXCEPT ![s] = "running"]

\* the last process of the tree ends, by itself or killed; nobody noticed yet
Ended(s) ==
  /\ live' = [live EXCEPT ![s] = {}]
  /\ UNCHANGED <<view, used>>

\* the end is reported, as asked for or as a crash
Reported(s) ==
  /\ live[s] = {}
  /\ \E report \in {"stopped", "crashed"} : view' = [view EXCEPT ![s] = report]
  /\ UNCHANGED <<live, used>>

Next ==
  \E s \in Services :
    \/ \E l \in Launch : Launched(s, l)
    \/ Ended(s)
    \/ Reported(s)

Spec == Init /\ [][Next]_vars

=============================================================================
