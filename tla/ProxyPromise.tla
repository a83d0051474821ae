---------------------------- MODULE ProxyPromise ----------------------------
(***************************************************************************)
(* What the proxy promises its clients, without sockets, tasks or          *)
(* upgrades: one server at a time takes them in; a session (a connection   *)
(* or what it was upgraded to) stays with the server, and so with the      *)
(* routes, it began with; and a server that is told to stop takes nobody   *)
(* in before long, and no session of it is left open.                      *)
(***************************************************************************)
EXTENDS Naturals

CONSTANTS Servers, Clients

VARIABLES serving,  \* the servers that accept connections
          told,     \* those told to stop
          session   \* the server of each open session; 0 for none

vars == <<serving, told, session>>

Init ==
  /\ serving = {}
  /\ told = {}
  /\ session = [c \in Clients |-> 0]

\* a server that was never up before; only one that is on its way down may
\* still be up
Up(g) ==
  /\ g \in Servers \ (serving \cup told)
  /\ serving \subseteq told
  /\ \A h \in serving \cup told : h < g
  /\ serving' = serving \cup {g}
  /\ UNCHANGED <<told, session>>

Tell(g) ==
  /\ g \in Servers \ told
  /\ told' = told \cup {g}
  /\ UNCHANGED <<serving, session>>

Down(g) ==
  /\ g \in serving \cap told
  /\ serving' = serving \ {g}
  /\ UNCHANGED <<told, session>>

Open(c, g) ==
  /\ session[c] = 0
  /\ g \in serving
  /\ session' = [session EXCEPT ![c] = g]
  /\ UNCHANGED <<serving, told>>

Close(c) ==
  /\ session[c] # 0
  /\ session' = [session EXCEPT ![c] = 0]
  /\ UNCHANGED <<serving, told>>

Next ==
  \/ \E g \in Servers : Up(g) \/ Tell(g) \/ Down(g)
  \/ \E c \in Clients, g \in Servers : Open(c, g)
  \/ \E c \in Clients : Close(c)

Spec == Init /\ [][Next]_vars

\* whoever is told to stop does, and so do its sessions
FairSpec ==
  /\ Spec
  /\ \A g \in Servers : WF_vars(Down(g))
  /\ \A c \in Clients : WF_vars(session[c] \in told /\ Close(c))

=============================================================================
