-------------------------------- MODULE Proxy --------------------------------
(***************************************************************************)
(* The reverse proxy of src/src/proxy.rs: one ProxyServer after another on *)
(* the addresses of the configuration, each with an accept task per        *)
(* address, a task per client connection, and two more for a WebSocket:    *)
(* the dedicated connection to the upstream and the tunnel.  All of them   *)
(* run on one Tokio runtime; an action is what a task does between two     *)
(* awaits.  The caller (Manager) binds a server only after it has shut the *)
(* one before down, or failed to bind it.                                  *)
(*                                                                         *)
(* A request for the portal or an unknown host is answered at once and     *)
(* changes nothing here.                                                   *)
(***************************************************************************)
EXTENDS Naturals, Sequences

CONSTANTS Addresses,   \* addresses that can be listened on
          BindLists,   \* what `bind` may resolve to
          Clients,     \* client connections at a time
          MaxServers,  \* bound: calls of bind
          Nobody, Stranger

Servers == 1 .. MaxServers

ASSUME ProxyAssumption ==
  /\ BindLists \subseteq Seq(Addresses) \ {<<>>}
  /\ MaxServers \in Nat
  /\ Nobody \notin Servers
  /\ Stranger \notin Servers \cup {Nobody}

VARIABLES
  step,      \* the caller: down, listen, spawn, serving, awaiting
  latest,    \* the server it last called bind for; 0 for none
  list,      \* the addresses of that server
  todo,      \* those the loop at hand has not come to
  listener,  \* who listens on each address
  loop,      \* the accept task of each listening socket
  signal,    \* each server's watch channel: quiet, stop (sent), gone (dropped)
  conn,      \* the task of each client connection, and where it is in handle
  server,    \* the server that accepted it
  upstream,  \* its dedicated connection to the upstream
  tunnel     \* its tunnel task

caller == <<step, latest, list, todo>>
sockets == <<listener, loop>>
sessions == <<conn, server, upstream, tunnel>>
pvars == <<caller, sockets, signal, sessions>>

InHandle == {"open", "forwarding", "dialing", "shaking", "relaying", "switching"}

ProxyTypeOK ==
  /\ step \in {"down", "listen", "spawn", "serving", "awaiting"}
  /\ latest \in 0 .. MaxServers
  /\ list \in Seq(Addresses)
  /\ todo \in Seq(Addresses)
  /\ listener \in [Addresses -> Servers \cup {Nobody, Stranger}]
  /\ loop \in [Addresses -> {"none", "accepting", "backoff"}]
  /\ signal \in [Servers -> {"quiet", "stop", "gone"}]
  /\ conn \in [Clients -> InHandle \cup {"none", "upgraded"}]
  /\ server \in [Clients -> 0 .. MaxServers]
  /\ upstream \in [Clients -> {"none", "open", "handed"}]
  /\ tunnel \in [Clients -> {"none", "joining", "copying"}]

ProxyInit ==
  /\ step = "down"
  /\ latest = 0
  /\ list = <<>>
  /\ todo = <<>>
  /\ listener \in [Addresses -> {Nobody, Stranger}]
  /\ loop = [a \in Addresses |-> "none"]
  /\ signal = [g \in Servers |-> "quiet"]
  /\ conn = [c \in Clients |-> "none"]
  /\ server = [c \in Clients |-> 0]
  /\ upstream = [c \in Clients |-> "none"]
  /\ tunnel = [c \in Clients |-> "none"]

\* stopped: the signal was sent, or its sender is gone
Stopped(g) == signal[g] # "quiet"

Listed(seq) == {seq[i] : i \in 1 .. Len(seq)}

\* sockets are closed as their owner drops them
Close(addresses) ==
  listener' = [a \in Addresses |-> IF a \in addresses THEN Nobody ELSE listener[a]]

-----------------------------------------------------------------------------
(* bind and shutdown.                                                      *)

Bind(addresses) ==
  /\ step = "down" /\ latest < MaxServers
  /\ step' = "listen"
  /\ latest' = latest + 1
  /\ list' = addresses
  /\ todo' = addresses
  /\ UNCHANGED <<sockets, signal, sessions>>

\* mutant: each address is served as soon as it is listened on
ListenAndSpawn ==
  /\ step = "listen" /\ todo # <<>>
  /\ listener[Head(todo)] = Nobody
  /\ listener' = [listener EXCEPT ![Head(todo)] = latest]
  /\ loop' = [loop EXCEPT ![Head(todo)] = "accepting"]
  /\ todo' = Tail(todo)
  /\ UNCHANGED <<step, latest, list, signal, sessions>>

\* SO_REUSEADDR: only another listening socket is in the way, not connections
Listen ==
  /\ step = "listen" /\ todo # <<>>
  /\ listener[Head(todo)] = Nobody
  /\ listener' = [listener EXCEPT ![Head(todo)] = latest]
  /\ todo' = Tail(todo)
  /\ UNCHANGED <<step, latest, list, loop, signal, sessions>>

\* the address is taken, or was listed twice; a host does not resolve, or no
\* socket is to be had: the listeners so far are dropped
ListenFails ==
  /\ step = "listen" /\ todo # <<>>
  /\ Close({a \in Addresses : listener[a] = latest})
  /\ step' = "down"
  /\ todo' = <<>>
  /\ UNCHANGED <<latest, list, loop, signal, sessions>>

Listening ==
  /\ step = "listen" /\ todo = <<>>
  /\ step' = "spawn"
  /\ todo' = list
  /\ UNCHANGED <<latest, list, sockets, signal, sessions>>

SpawnAccept ==
  /\ step = "spawn"
  /\ loop' = [loop EXCEPT ![Head(todo)] = "accepting"]
  /\ todo' = Tail(todo)
  /\ step' = IF Tail(todo) = <<>> THEN "serving" ELSE "spawn"
  /\ UNCHANGED <<latest, list, listener, signal, sessions>>

\* local_addr fails: what is not spawned is dropped with the stop's sender,
\* what is spawned ends when it notices
LocalAddrFails ==
  /\ step = "spawn"
  /\ Close(Listed(todo))
  /\ signal' = [signal EXCEPT ![latest] = "gone"]
  /\ step' = "down"
  /\ todo' = <<>>
  /\ UNCHANGED <<latest, list, loop, sessions>>

Shutdown ==
  /\ step = "serving"
  /\ signal' = [signal EXCEPT ![latest] = "stop"]
  /\ step' = "awaiting"
  /\ UNCHANGED <<latest, list, todo, sockets, sessions>>

\* mutant: the accept tasks are told, not awaited
ShutdownReturnsAtOnce ==
  /\ step = "awaiting"
  /\ step' = "down"
  /\ UNCHANGED <<latest, list, todo, sockets, signal, sessions>>

\* every accept task has ended; connections are not awaited
ShutdownReturns ==
  /\ step = "awaiting"
  /\ \A a \in Addresses : listener[a] # latest
  /\ step' = "down"
  /\ UNCHANGED <<latest, list, todo, sockets, signal, sessions>>

-----------------------------------------------------------------------------
(* accept_loop.  When the stop and a connection are both ready, select!    *)
(* takes either.                                                           *)

Free(c) == conn[c] = "none" /\ upstream[c] = "none" /\ tunnel[c] = "none"

Accept(a, c) ==
  /\ loop[a] = "accepting"
  /\ Free(c)
  /\ conn' = [conn EXCEPT ![c] = "open"]
  /\ server' = [server EXCEPT ![c] = listener[a]]
  /\ UNCHANGED <<caller, sockets, signal, upstream, tunnel>>

\* the 50 ms of sleep do not listen to the stop
AcceptFails(a) ==
  /\ loop[a] = "accepting"
  /\ loop' = [loop EXCEPT ![a] = "backoff"]
  /\ UNCHANGED <<caller, listener, signal, sessions>>

BackoffEnds(a) ==
  /\ loop[a] = "backoff"
  /\ loop' = [loop EXCEPT ![a] = "accepting"]
  /\ UNCHANGED <<caller, listener, signal, sessions>>

LoopStops(a) ==
  /\ loop[a] = "accepting" /\ Stopped(listener[a])
  /\ loop' = [loop EXCEPT ![a] = "none"]
  /\ Close({a})
  /\ UNCHANGED <<caller, signal, sessions>>

-----------------------------------------------------------------------------
(* serve_connection: the connection's future, which drives handle, or the  *)
(* stop.  Whichever way the task ends, the handler it was in is dropped.   *)

At(c, place) == conn[c] = place
Goto(c, place) == conn' = [conn EXCEPT ![c] = place]

\* the client closes or aborts the connection
ClientGone(c) ==
  /\ conn[c] \in InHandle
  /\ Goto(c, "none")
  /\ UNCHANGED <<caller, sockets, signal, server, upstream, tunnel>>

ConnStops(c) ==
  /\ conn[c] \in InHandle /\ Stopped(server[c])
  /\ Goto(c, "none")
  /\ UNCHANGED <<caller, sockets, signal, server, upstream, tunnel>>

\* proxy_http, or open_upgrade for a WebSocket
Forward(c) ==
  /\ At(c, "open")
  /\ Goto(c, "forwarding")
  /\ UNCHANGED <<caller, sockets, signal, server, upstream, tunnel>>

\* a response and its body, or bad_gateway
Forwarded(c) ==
  /\ At(c, "forwarding")
  /\ Goto(c, "open")
  /\ UNCHANGED <<caller, sockets, signal, server, upstream, tunnel>>

Dial(c) ==
  /\ At(c, "open")
  /\ Goto(c, "dialing")
  /\ UNCHANGED <<caller, sockets, signal, server, upstream, tunnel>>

\* refused, or CONNECT_TIMEOUT
DialFails(c) ==
  /\ At(c, "dialing")
  /\ Goto(c, "open")
  /\ UNCHANGED <<caller, sockets, signal, server, upstream, tunnel>>

\* send_upgrade_request spawns the task of the upstream's connection
Dialed(c) ==
  /\ At(c, "dialing")
  /\ Goto(c, "shaking")
  /\ upstream' = [upstream EXCEPT ![c] = "open"]
  /\ UNCHANGED <<caller, sockets, signal, server, tunnel>>

ShakeFails(c) ==
  /\ At(c, "shaking")
  /\ Goto(c, "open")
  /\ upstream' = [upstream EXCEPT ![c] = "none"]
  /\ UNCHANGED <<caller, sockets, signal, server, tunnel>>

\* any answer but 101 is relayed as it is
Relay(c) ==
  /\ At(c, "shaking")
  /\ Goto(c, "relaying")
  /\ UNCHANGED <<caller, sockets, signal, server, upstream, tunnel>>

Relayed(c) ==
  /\ At(c, "relaying")
  /\ Goto(c, "open")
  /\ upstream' = [upstream EXCEPT ![c] = "none"]
  /\ UNCHANGED <<caller, sockets, signal, server, tunnel>>

\* 101: the tunnel is spawned before the client gets the answer
Switch(c) ==
  /\ At(c, "shaking")
  /\ Goto(c, "switching")
  /\ tunnel' = [tunnel EXCEPT ![c] = "joining"]
  /\ UNCHANGED <<caller, sockets, signal, server, upstream>>

\* the answer is written and the connection handed to the tunnel, if it is there
Upgraded(c) ==
  /\ At(c, "switching")
  /\ Goto(c, IF tunnel[c] = "joining" THEN "upgraded" ELSE "none")
  /\ UNCHANGED <<caller, sockets, signal, server, upstream, tunnel>>

-----------------------------------------------------------------------------
(* The task of the upstream's connection, and the tunnel's.                *)

Held(c) == conn[c] \in {"shaking", "relaying"} \/ tunnel[c] = "joining"

\* nobody waits for its answer any more
UpstreamEnds(c) ==
  /\ upstream[c] = "open" /\ ~Held(c)
  /\ upstream' = [upstream EXCEPT ![c] = "none"]
  /\ UNCHANGED <<caller, sockets, signal, conn, server, tunnel>>

\* after a 101 it hands its connection to the tunnel, or fails
HandOver(c) ==
  /\ upstream[c] = "open" /\ tunnel[c] = "joining"
  /\ \E out \in {"handed", "none"} : upstream' = [upstream EXCEPT ![c] = out]
  /\ UNCHANGED <<caller, sockets, signal, conn, server, tunnel>>

Join(c) ==
  /\ tunnel[c] = "joining" /\ At(c, "upgraded") /\ upstream[c] = "handed"
  /\ tunnel' = [tunnel EXCEPT ![c] = "copying"]
  /\ UNCHANGED <<caller, sockets, signal, conn, server, upstream>>

\* the tunnel ends, with what it was handed
DropTunnel(c) ==
  /\ tunnel' = [tunnel EXCEPT ![c] = "none"]
  /\ conn' = [conn EXCEPT ![c] = IF @ = "upgraded" THEN "none" ELSE @]
  /\ upstream' = [upstream EXCEPT ![c] = IF @ = "handed" THEN "none" ELSE @]
  /\ UNCHANGED <<caller, sockets, signal, server>>

\* try_join: one of them failed
JoinFails(c) ==
  /\ tunnel[c] = "joining" /\ (At(c, "none") \/ upstream[c] = "none")
  /\ DropTunnel(c)

\* either side closes the tunnel
TunnelEnds(c) == tunnel[c] = "copying" /\ DropTunnel(c)

\* mutant: a tunnel that copies no longer looks at the stop
TunnelDeaf(c) == tunnel[c] = "joining" /\ Stopped(server[c]) /\ DropTunnel(c)

TunnelStops(c) == tunnel[c] = "copying" /\ Stopped(server[c]) /\ DropTunnel(c)

-----------------------------------------------------------------------------
(* Other programs listen where they like.                                  *)

StrangerListens(a) ==
  /\ listener[a] = Nobody
  /\ listener' = [listener EXCEPT ![a] = Stranger]
  /\ UNCHANGED <<caller, loop, signal, sessions>>

StrangerCloses(a) ==
  /\ listener[a] = Stranger
  /\ Close({a})
  /\ UNCHANGED <<caller, loop, signal, sessions>>

Binding == Listen \/ ListenFails \/ Listening \/ SpawnAccept \/ LocalAddrFails

AcceptLoop(a) == AcceptFails(a) \/ BackoffEnds(a) \/ LoopStops(a)

Handle(c) ==
  \/ Forward(c) \/ Forwarded(c) \/ Dial(c) \/ DialFails(c) \/ Dialed(c)
  \/ ShakeFails(c) \/ Relay(c) \/ Relayed(c) \/ Switch(c) \/ Upgraded(c)

Session(c) ==
  \/ ClientGone(c) \/ ConnStops(c) \/ Handle(c)
  \/ UpstreamEnds(c) \/ HandOver(c)
  \/ Join(c) \/ JoinFails(c) \/ TunnelEnds(c) \/ TunnelStops(c)

ProxyNext ==
  \/ \E addresses \in BindLists : Bind(addresses)
  \/ Binding \/ Shutdown \/ ShutdownReturns
  \/ \E a \in Addresses : AcceptLoop(a) \/ StrangerListens(a) \/ StrangerCloses(a)
  \/ \E a \in Addresses, c \in Clients : Accept(a, c)
  \/ \E c \in Clients : Session(c)

ProxySpec == ProxyInit /\ [][ProxyNext]_pvars

\* Tasks that can proceed are polled.  select! is unbiased: an accept loop that
\* wakes again and again with both branches ready comes to take the stop.
\* Nothing is assumed of clients and upstreams.
ProxyFairSpec ==
  /\ ProxySpec
  /\ WF_pvars(ShutdownReturns)
  /\ \A a \in Addresses : WF_pvars(BackoffEnds(a)) /\ SF_pvars(LoopStops(a))
  /\ \A c \in Clients :
       /\ WF_pvars(ConnStops(c)) /\ WF_pvars(UpstreamEnds(c)) /\ WF_pvars(HandOver(c))
       /\ WF_pvars(Join(c)) /\ WF_pvars(JoinFails(c)) /\ WF_pvars(TunnelStops(c))

-----------------------------------------------------------------------------
(* What must hold.                                                         *)

\* When no server is bound, no socket of an earlier one is still listened on,
\* so that a restart on the same addresses is never refused on our account
\* (shutdown).  The exception is a bind that gave up half way through spawning.
FreedWhenDown ==
  step \in {"down", "listen"} =>
    \A a \in Addresses :
      listener[a] \in Servers => \/ signal[listener[a]] = "gone"
                                 \/ step = "listen" /\ listener[a] = latest

\* What the caller leaves behind: only the server at hand is without its stop, and
\* of earlier ones only those listen whose bind gave up half way.
SignalsFit ==
  /\ step # "down" => latest \in Servers
  /\ step \in {"listen", "spawn", "serving"} => signal[latest] = "quiet"
  /\ \A g \in Servers : g > latest => signal[g] = "quiet"
  /\ \A a \in Addresses :
       /\ listener[a] \in Servers
       /\ step = "down" \/ listener[a] # latest
       => listener[a] <= latest /\ signal[listener[a]] = "gone" /\ loop[a] # "none"

\* Where the loops of bind are: todo is the end of list, no address is in it twice.
Done == Len(list) - Len(todo)

LoopsFit ==
  /\ step \in {"listen", "spawn"} =>
       /\ list # <<>> /\ Done \in 0 .. Len(list)
       /\ \A i \in 1 .. Len(todo) : todo[i] = list[Done + i]
       /\ \A a \in Addresses : listener[a] = latest => a \in Listed(list)
  /\ step = "listen" => \A i \in 1 .. Done :
       /\ listener[list[i]] = latest
       /\ \A j \in 1 .. Done : list[i] = list[j] => i = j
  /\ step = "spawn" =>
       /\ todo # <<>>
       /\ \A i, j \in 1 .. Len(list) : list[i] = list[j] => i = j
       /\ \A i \in 1 .. Len(list) : loop[list[i]] # "none" <=> i <= Done

\* A server accepts only after it listens on every address of its list
\* ("Fails without serving if any address fails", bind), and each accept task has
\* its socket.
AllListenedFirst ==
  /\ \A a \in Addresses : loop[a] # "none" => listener[a] \in Servers
  /\ step = "listen" => \A a \in Addresses : listener[a] = latest => loop[a] = "none"
  /\ step = "spawn" => \A a \in Listed(list) : listener[a] = latest
  /\ step = "serving" => \A a \in Listed(list) : listener[a] = latest /\ loop[a] # "none"

\* What the tasks of a connection rely on of each other.
TasksFit ==
  \A c \in Clients :
    /\ ~Free(c) => server[c] \in 1 .. latest
    /\ At(c, "upgraded") => tunnel[c] \in {"joining", "copying"}
    /\ At(c, "shaking") \/ At(c, "relaying") => upstream[c] = "open" /\ tunnel[c] = "none"
    /\ conn[c] \in {"open", "forwarding", "dialing"} => upstream[c] = "none" /\ tunnel[c] = "none"
    /\ tunnel[c] = "copying" => At(c, "upgraded") /\ upstream[c] = "handed"
    /\ upstream[c] = "handed" => tunnel[c] # "none"
    /\ tunnel[c] = "joining" => conn[c] \in {"switching", "upgraded", "none"}

ProxyInv == ProxyTypeOK /\ SignalsFit /\ LoopsFit /\ AllListenedFirst /\ TasksFit

-----------------------------------------------------------------------------
(* What clients are promised (ProxyPromise).                               *)

Promise == INSTANCE ProxyPromise WITH
  serving <- {listener[a] : a \in {x \in Addresses : loop[x] # "none"}},
  told    <- {g \in Servers : Stopped(g)},
  session <- [c \in Clients |-> IF Free(c) THEN 0 ELSE server[c]]

ImplementsPromise == Promise!FairSpec

=============================================================================
