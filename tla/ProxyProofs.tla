---------------------------- MODULE ProxyProofs ----------------------------
(* Proofs about Proxy for any number of addresses, clients and servers: its *)
(* inductive invariant, that its addresses are free when it is down, and    *)
(* that it keeps what ProxyPromise says of safety.                          *)
EXTENDS Proxy, TLAPS

USE DEF caller, sockets, sessions, pvars

\* The part of the invariant that no client has a hand in.
BindInv == SignalsFit /\ LoopsFit /\ AllListenedFirst

\* What the caller and the accept loops do.
Serving ==
  \/ \E addresses \in BindLists : Bind(addresses)
  \/ Binding \/ Shutdown \/ ShutdownReturns
  \/ \E a \in Addresses : AcceptLoop(a) \/ StrangerListens(a) \/ StrangerCloses(a)

\* Nothing is bound, and nobody is served, at first.
LEMMA StartsDown == ProxyInit => ProxyInv
  BY ProxyAssumption
     DEF ProxyInit, Servers, ProxyInv, ProxyTypeOK, SignalsFit, LoopsFit, AllListenedFirst, TasksFit,
         Free, At, InHandle

\* A step of a client's tasks leaves the caller and the listeners alone.
LEMMA ClientsApart ==
  ASSUME NEW c \in Clients, Session(c) \/ \E a \in Addresses : Accept(a, c)
  PROVE  UNCHANGED <<caller, sockets, signal>>
  BY DEF Session, Handle, Accept, ClientGone, ConnStops, Forward, Forwarded, Dial, DialFails,
         Dialed, ShakeFails, Relay, Relayed, Switch, Upgraded, UpstreamEnds, HandOver, Join,
         JoinFails, TunnelEnds, TunnelStops, DropTunnel

\* A step of the caller or of an accept loop leaves the clients' tasks alone.
LEMMA ServersApart == Serving => UNCHANGED sessions
  BY DEF Serving, Binding, Bind, Listen, ListenFails, Listening, SpawnAccept, LocalAddrFails,
         Shutdown, ShutdownReturns, AcceptLoop, AcceptFails, BackoffEnds, LoopStops,
         StrangerListens, StrangerCloses

\* What is left of a list of addresses is one.
LEMMA TailOfAddresses ==
  ASSUME NEW s \in Seq(Addresses), s # <<>>
  PROVE  /\ Tail(s) \in Seq(Addresses)
         /\ Head(s) \in Addresses
         /\ Head(s) = s[1]
         /\ Len(s) \in Nat \ {0}
         /\ Len(Tail(s)) = Len(s) - 1
         /\ \A i \in 1 .. Len(Tail(s)) : Tail(s)[i] = s[i + 1]
  OBVIOUS

\* Every step keeps the types.
LEMMA StepTyped == ProxyInv /\ [ProxyNext]_pvars => ProxyTypeOK'
  <1> SUFFICES ASSUME ProxyInv, [ProxyNext]_pvars PROVE ProxyTypeOK'
    OBVIOUS
  <1> USE ProxyAssumption DEF ProxyInv, ProxyTypeOK, Servers
  <1>1. CASE \E addresses \in BindLists : Bind(addresses)
    BY <1>1 DEF Bind
  <1>2. CASE Listen
    BY <1>2, TailOfAddresses DEF Listen, SignalsFit
  <1>3. CASE ListenFails
    BY <1>3 DEF ListenFails, Close
  <1>4. CASE Listening
    BY <1>4 DEF Listening
  <1>5. CASE SpawnAccept
    <2>1. Head(todo) \in Addresses /\ Tail(todo) \in Seq(Addresses)
      BY <1>5, TailOfAddresses DEF SpawnAccept, LoopsFit
    <2>2. /\ loop' \in [Addresses -> {"none", "accepting", "backoff"}]
          /\ todo' \in Seq(Addresses)
          /\ step' \in {"serving", "spawn"}
      BY <1>5, <2>1 DEF SpawnAccept
    <2> QED BY <1>5, <2>2 DEF SpawnAccept
  <1>6. CASE LocalAddrFails
    BY <1>6 DEF LocalAddrFails, Close, SignalsFit
  <1>7. CASE Shutdown \/ ShutdownReturns
    BY <1>7 DEF Shutdown, ShutdownReturns, SignalsFit
  <1>8. CASE \E a \in Addresses : AcceptLoop(a) \/ StrangerListens(a) \/ StrangerCloses(a)
    <2> PICK a \in Addresses : AcceptLoop(a) \/ StrangerListens(a) \/ StrangerCloses(a)
      BY <1>8
    <2>1. CASE AcceptFails(a) \/ BackoffEnds(a)
      BY <2>1 DEF AcceptFails, BackoffEnds
    <2>2. CASE LoopStops(a)
      BY <2>2 DEF LoopStops, Close
    <2>3. CASE StrangerListens(a) \/ StrangerCloses(a)
      BY <2>3, SMTT(30) DEF StrangerListens, StrangerCloses, Close
    <2> QED BY <2>1, <2>2, <2>3 DEF AcceptLoop
  <1>9. CASE \E a \in Addresses, c \in Clients : Accept(a, c)
    BY <1>9 DEF Accept, AllListenedFirst, InHandle
  <1>10. CASE \E c \in Clients : Session(c)
    <2> PICK c \in Clients : Session(c) BY <1>10
    <2>1. UNCHANGED <<caller, sockets, signal>> BY ClientsApart
    <2>2. CASE JoinFails(c) \/ TunnelEnds(c) \/ TunnelStops(c)
      <3>1. DropTunnel(c) BY <2>2 DEF JoinFails, TunnelEnds, TunnelStops
      <3>2. conn' \in [Clients -> InHandle \cup {"none", "upgraded"}]
        <4>1. CASE conn[c] = "upgraded" BY <3>1, <4>1 DEF DropTunnel
        <4>2. CASE conn[c] # "upgraded" BY <3>1, <4>2 DEF DropTunnel
        <4> QED BY <4>1, <4>2
      <3>3. upstream' \in [Clients -> {"none", "open", "handed"}]
        <4>1. CASE upstream[c] = "handed" BY <3>1, <4>1 DEF DropTunnel
        <4>2. CASE upstream[c] # "handed" BY <3>1, <4>2 DEF DropTunnel
        <4> QED BY <4>1, <4>2
      <3> QED BY <2>1, <3>1, <3>2, <3>3 DEF DropTunnel
    <2>3. CASE UpstreamEnds(c) \/ Join(c)
      BY <2>1, <2>3 DEF UpstreamEnds, Join
    <2>6. CASE HandOver(c)
      <3> PICK out \in {"handed", "none"} : upstream' = [upstream EXCEPT ![c] = out]
        BY <2>6 DEF HandOver
      <3> QED BY <2>1, <2>6 DEF HandOver
    <2>4. CASE ClientGone(c) \/ ConnStops(c)
      BY <2>1, <2>4 DEF ClientGone, ConnStops, Goto
    <2>5. CASE Handle(c)
      BY <2>1, <2>5, ZenonT(30)
         DEF Handle, Forward, Forwarded, Dial, DialFails, Dialed, ShakeFails, Relay, Relayed,
             Switch, Upgraded, Goto, InHandle
    <2> QED BY <2>2, <2>3, <2>4, <2>5, <2>6 DEF Session
  <1>11. CASE UNCHANGED pvars
    BY <1>11
  <1> QED
    BY <1>1, <1>2, <1>3, <1>4, <1>5, <1>6, <1>7, <1>8, <1>9, <1>10, <1>11
       DEF ProxyNext, Binding


\* What is known of the lists that bind goes through.
LEMMA Listing ==
  ASSUME ProxyInv, step \in {"listen", "spawn"}
  PROVE  /\ Len(list) \in Nat \ {0} /\ Len(todo) \in Nat /\ Done \in 0 .. Len(list)
         /\ Len(todo) = Len(list) - Done
         /\ \A i \in 1 .. Len(list) : list[i] \in Addresses
         /\ \A i \in 1 .. Len(todo) : todo[i] = list[Done + i]
         /\ \A a \in Addresses : listener[a] = latest => \E i \in 1 .. Len(list) : a = list[i]
         /\ todo # <<>> => /\ Head(todo) = list[Done + 1] /\ Done < Len(list)
                           /\ Tail(todo) \in Seq(Addresses)
                           /\ Len(Tail(todo)) = Len(todo) - 1
                           /\ \A i \in 1 .. Len(Tail(todo)) : Tail(todo)[i] = list[Done + 1 + i]
  <1>1. list \in Seq(Addresses) /\ todo \in Seq(Addresses) BY DEF ProxyInv, ProxyTypeOK
  <1>2. /\ list # <<>> /\ Done \in 0 .. Len(list)
        /\ \A i \in 1 .. Len(todo) : todo[i] = list[Done + i]
        /\ \A a \in Addresses : listener[a] = latest => a \in Listed(list)
    BY DEF ProxyInv, LoopsFit
  <1>3. /\ Len(list) \in Nat \ {0} /\ Len(todo) \in Nat /\ Len(todo) = Len(list) - Done
        /\ \A i \in 1 .. Len(list) : list[i] \in Addresses
    BY <1>1, <1>2 DEF Done
  <1>4. ASSUME todo # <<>>
        PROVE  /\ Head(todo) = list[Done + 1] /\ Done < Len(list)
               /\ Tail(todo) \in Seq(Addresses)
               /\ Len(Tail(todo)) = Len(todo) - 1
               /\ \A i \in 1 .. Len(Tail(todo)) : Tail(todo)[i] = list[Done + 1 + i]
    <2>1. /\ Head(todo) = todo[1] /\ Len(todo) # 0 /\ Tail(todo) \in Seq(Addresses)
          /\ Len(Tail(todo)) = Len(todo) - 1
          /\ \A i \in 1 .. Len(Tail(todo)) : Tail(todo)[i] = todo[i + 1]
      BY <1>1, <1>4, TailOfAddresses
    <2>2. ASSUME NEW i \in 1 .. Len(Tail(todo)) PROVE Tail(todo)[i] = list[Done + 1 + i]
      <3>1. i + 1 \in 1 .. Len(todo) /\ Done + (i + 1) = Done + 1 + i BY <1>2, <1>3, <2>1
      <3> QED BY <1>2, <2>1, <3>1
    <2> QED BY <1>2, <1>3, <2>1, <2>2
  <1> QED BY <1>2, <1>3, <1>4 DEF Listed

\* While bind spawns, the addresses up to Done have an accept task, the others not.
LEMMA Spawning ==
  ASSUME ProxyInv, step = "spawn"
  PROVE  /\ todo # <<>>
         /\ \A i, j \in 1 .. Len(list) : list[i] = list[j] => i = j
         /\ \A i \in 1 .. Len(list) : loop[list[i]] # "none" <=> i <= Done
         /\ \A i \in 1 .. Len(list) : listener[list[i]] = latest
  BY DEF ProxyInv, LoopsFit, AllListenedFirst, Listed

\* What bind has to show of a list that it has come one address further in.
LEMMA OneFurther ==
  ASSUME ProxyInv, step \in {"listen", "spawn"}, todo # <<>>,
         todo' = Tail(todo), UNCHANGED list
  PROVE  /\ Done' = Done + 1
         /\ Done' \in 0 .. Len(list)
         /\ \A i \in 1 .. Len(todo') : todo'[i] = list[Done' + i]
  BY Listing DEF Done

\* Every step keeps what the invariant says of servers.  The addresses of the server
\* at hand are told from those of earlier ones, of which only half-bound ones are left.
LEMMA StepServes == ProxyInv /\ [ProxyNext]_pvars => BindInv'
  <1> SUFFICES ASSUME ProxyInv, [ProxyNext]_pvars PROVE BindInv'
    OBVIOUS
  <1> USE ProxyAssumption DEF BindInv
  <1>a. ProxyTypeOK /\ SignalsFit /\ LoopsFit /\ AllListenedFirst BY DEF ProxyInv
  <1>1. CASE \E addresses \in BindLists : Bind(addresses)
    <2> PICK addresses \in BindLists : Bind(addresses) BY <1>1
    <2>1. /\ addresses \in Seq(Addresses) /\ addresses # <<>> /\ Len(addresses) \in Nat
          /\ list' = addresses /\ todo' = addresses /\ latest' = latest + 1
          /\ step = "down" /\ step' = "listen" /\ UNCHANGED <<listener, loop, signal>>
          /\ latest + 1 \in Servers /\ latest \in Nat
      BY <1>a DEF Bind, ProxyTypeOK, Servers
    <2>2. ASSUME NEW a \in Addresses, listener[a] = latest + 1 PROVE FALSE
      <3>1. latest + 1 <= latest BY <1>a, <2>1, <2>2 DEF SignalsFit
      <3> QED BY <2>1, <3>1
    <2>3. SignalsFit' BY <1>a, <2>1, <2>2 DEF SignalsFit, ProxyTypeOK, Servers
    <2>4. Done' = 0 BY <2>1 DEF Done
    <2>5. LoopsFit' BY <2>1, <2>2, <2>4 DEF LoopsFit
    <2>6. AllListenedFirst' BY <1>a, <2>1, <2>2 DEF AllListenedFirst
    <2> QED BY <2>3, <2>5, <2>6
  <1>2. CASE Listen
    <2>1. PICK h \in Addresses : h = Head(todo)
      BY <1>2, <1>a, TailOfAddresses DEF Listen, ProxyTypeOK
    <2>2. /\ step = "listen" /\ todo # <<>> /\ todo' = Tail(todo)
          /\ UNCHANGED <<step, latest, list, loop, signal>>
          /\ listener[h] = Nobody /\ Nobody \notin Servers /\ latest \in Servers
          /\ listener'[h] = latest
          /\ \A a \in Addresses : a # h => listener'[a] = listener[a]
      BY <1>2, <1>a, <2>1 DEF Listen, SignalsFit, ProxyTypeOK
    <2>3. SignalsFit' BY <1>a, <2>2 DEF SignalsFit
    <2>4. AllListenedFirst' BY <1>a, <2>2 DEF AllListenedFirst
    <2>5. LoopsFit'
      <3>1. /\ h = list[Done + 1] /\ Done + 1 \in 1 .. Len(list) /\ Len(list) \in Nat
            /\ \A i \in 1 .. Len(list) : list[i] \in Addresses
            /\ \A a \in Addresses : listener[a] = latest => \E i \in 1 .. Len(list) : a = list[i]
        BY <2>1, <2>2, Listing
      <3>2. \A i \in 1 .. Done : listener[list[i]] = latest /\ i \in 1 .. Len(list)
        BY <1>a, <2>2, <3>1 DEF LoopsFit
      <3>3. \A i \in 1 .. Done' : \/ i = Done + 1
                                  \/ i \in 1 .. Done /\ list[i] # h
        <4>1. Done' = Done + 1 /\ Done \in Nat BY <2>2, OneFurther, Listing
        <4>2. \A i \in 1 .. Done + 1 : i = Done + 1 \/ i \in 1 .. Done BY <4>1
        <4>3. \A i \in 1 .. Done : list[i] # h BY <2>2, <3>2
        <4> QED BY <4>1, <4>2, <4>3
      <3>4. \A i \in 1 .. Done' :
              /\ listener'[list[i]] = latest
              /\ \A j \in 1 .. Done' : list[i] = list[j] => i = j
        <4>1. \A i, j \in 1 .. Done : list[i] = list[j] => i = j
          BY <1>a, <2>2 DEF LoopsFit
        <4> QED BY <2>2, <3>1, <3>2, <3>3, <4>1
      <3>5. \A a \in Addresses : listener'[a] = latest => a \in Listed(list)
        BY <2>2, <3>1 DEF Listed
      <3> QED BY <1>a, <2>2, <3>4, <3>5, OneFurther DEF LoopsFit
    <2> QED BY <2>3, <2>4, <2>5
  <1>3. CASE ListenFails
    <2>1. /\ step = "listen" /\ step' = "down" /\ UNCHANGED <<latest, list, loop, signal>>
          /\ Nobody \notin Servers /\ latest \in Servers
          /\ \A a \in Addresses :
               listener'[a] = IF listener[a] = latest THEN Nobody ELSE listener[a]
      BY <1>3, <1>a DEF ListenFails, Close, SignalsFit
    <2>2. SignalsFit' BY <1>a, <2>1 DEF SignalsFit
    <2>3. LoopsFit' BY <2>1 DEF LoopsFit
    <2>4. AllListenedFirst' BY <1>a, <2>1 DEF AllListenedFirst
    <2> QED BY <2>2, <2>3, <2>4
  <1>4. CASE Listening
    <2>1. /\ step = "listen" /\ step' = "spawn" /\ todo = <<>> /\ todo' = list
          /\ UNCHANGED <<latest, list, listener, loop, signal>>
      BY <1>4 DEF Listening
    <2>2. Done = Len(list) /\ Done' = 0 /\ Len(list) \in Nat \ {0}
      BY <2>1, Listing DEF Done
    <2>3. \A i \in 1 .. Len(list) : list[i] \in Addresses /\ listener[list[i]] = latest /\ loop[list[i]] = "none"
      BY <1>a, <2>1, <2>2, Listing DEF LoopsFit, AllListenedFirst
    <2>4. SignalsFit' BY <1>a, <2>1 DEF SignalsFit
    <2>5. LoopsFit' BY <1>a, <2>1, <2>2, <2>3 DEF LoopsFit
    <2>6. AllListenedFirst' BY <1>a, <2>1, <2>3 DEF AllListenedFirst, Listed
    <2> QED BY <2>4, <2>5, <2>6
  <1>5. CASE SpawnAccept
    <2>1. step = "spawn" /\ todo # <<>> /\ todo' = Tail(todo) /\ step' \in {"spawn", "serving"}
      BY <1>5, Spawning DEF SpawnAccept
    <2>2. PICK h \in Addresses : /\ h = Head(todo) /\ h = list[Done + 1]
                                 /\ Done + 1 \in 1 .. Len(list) /\ listener[h] = latest
      BY <2>1, Listing, Spawning
    <2>3. /\ UNCHANGED <<latest, list, listener, signal>>
          /\ step' = "spawn" => todo' # <<>>
          /\ step' = "serving" => todo' = <<>>
          /\ loop'[h] = "accepting"
          /\ \A a \in Addresses : a # h => loop'[a] = loop[a]
      BY <1>5, <1>a, <2>2 DEF SpawnAccept, ProxyTypeOK
    <2>4. \A i \in 1 .. Len(list) : loop'[list[i]] # "none" <=> i <= Done + 1
      <3> SUFFICES ASSUME NEW i \in 1 .. Len(list)
                   PROVE  loop'[list[i]] # "none" <=> i <= Done + 1
        OBVIOUS
      <3>1. list[i] \in Addresses /\ Done \in Nat BY <2>1, Listing
      <3>2. CASE i = Done + 1 BY <2>2, <2>3, <3>1, <3>2
      <3>3. CASE i # Done + 1
        <4>1. list[i] # h BY <2>1, <2>2, <3>3, Spawning
        <4>2. i <= Done <=> i <= Done + 1 BY <3>1, <3>3
        <4> QED BY <2>1, <2>3, <3>1, <4>1, <4>2, Spawning
      <3> QED BY <3>2, <3>3
    <2>5. latest \in Servers /\ signal[latest] = "quiet" BY <1>a, <2>1 DEF SignalsFit
    <2>6. SignalsFit' BY <1>a, <2>1, <2>2, <2>3 DEF SignalsFit
    <2>7. LoopsFit'
      <3>1. Done' = Done + 1 /\ Done' \in 0 .. Len(list)
            /\ \A i \in 1 .. Len(todo') : todo'[i] = list[Done' + i]
        BY <2>1, <2>3, OneFurther
      <3> QED BY <1>a, <2>1, <2>3, <2>4, <3>1, Spawning DEF LoopsFit
    <2>8. AllListenedFirst'
      <3>1. \A i \in 1 .. Len(list) : listener'[list[i]] = latest BY <2>1, <2>3, Spawning
      <3>2. ASSUME step' = "serving", NEW i \in 1 .. Len(list) PROVE loop'[list[i]] # "none"
        <4>1. Len(todo') = 0 BY <2>3, <3>2
        <4>2. Len(todo) - 1 = 0 BY <2>1, <4>1, Listing
        <4>3. i <= Done + 1 BY <2>1, <4>2, Listing
        <4> QED BY <2>4, <4>3
      <3> QED BY <1>a, <2>1, <2>2, <2>3, <2>5, <3>1, <3>2 DEF AllListenedFirst, Listed
    <2> QED BY <2>6, <2>7, <2>8
  <1>6. CASE LocalAddrFails
    <2>1. /\ step = "spawn" /\ step' = "down" /\ UNCHANGED <<latest, list, loop>>
          /\ latest \in Servers /\ Nobody \notin Servers
          /\ signal'[latest] = "gone" /\ \A g \in Servers : g # latest => signal'[g] = signal[g]
          /\ \A a \in Addresses :
               listener'[a] = IF a \in Listed(todo) THEN Nobody ELSE listener[a]
      BY <1>6, <1>a DEF LocalAddrFails, Close, SignalsFit, ProxyTypeOK
    <2>2. ASSUME NEW i \in 1 .. Len(todo) PROVE loop[todo[i]] = "none"
      <3>1. Done + i \in 1 .. Len(list) /\ ~(Done + i <= Done) /\ todo[i] = list[Done + i]
        BY <2>1, Listing
      <3> QED BY <2>1, <3>1, Spawning
    <2>3. ASSUME NEW a \in Addresses, listener[a] = latest, a \notin Listed(todo)
          PROVE  loop[a] # "none"
      <3>1. PICK i \in 1 .. Len(list) : a = list[i] BY <2>1, <2>3, Listing
      <3>2. CASE i <= Done BY <2>1, <3>1, <3>2, Spawning
      <3>3. CASE ~(i <= Done)
        <4>1. i - Done \in 1 .. Len(todo) /\ Done + (i - Done) = i BY <2>1, <3>3, Listing
        <4>2. todo[i - Done] = list[i] BY <2>1, <4>1, Listing
        <4> QED BY <2>3, <3>1, <4>1, <4>2 DEF Listed
      <3> QED BY <3>2, <3>3
    <2>4. SignalsFit'
      <3>1. \A g \in Servers : g > latest => g # latest BY <1>a DEF ProxyTypeOK, Servers
      <3>2. ASSUME NEW a \in Addresses, listener'[a] \in Servers
            PROVE  /\ listener'[a] <= latest /\ signal'[listener'[a]] = "gone" /\ loop[a] # "none"
        <4>1. a \notin Listed(todo) /\ listener'[a] = listener[a] BY <2>1, <3>2
        <4>2. CASE listener[a] = latest
          <5>1. latest <= latest BY <1>a DEF ProxyTypeOK
          <5> QED BY <2>1, <2>3, <4>1, <4>2, <5>1
        <4>3. CASE listener[a] # latest BY <1>a, <2>1, <3>2, <4>1, <4>3 DEF SignalsFit
        <4> QED BY <4>2, <4>3
      <3> QED BY <1>a, <2>1, <3>1, <3>2 DEF SignalsFit
    <2>5. LoopsFit' BY <2>1 DEF LoopsFit
    <2>6. AllListenedFirst'
      <3>1. \A a \in Addresses : a \in Listed(todo) => loop[a] = "none" BY <2>2 DEF Listed
      <3> QED BY <1>a, <2>1, <3>1 DEF AllListenedFirst
    <2> QED BY <2>4, <2>5, <2>6
  <1>7. CASE Shutdown
    <2>1. /\ step = "serving" /\ step' = "awaiting" /\ latest \in Servers
          /\ UNCHANGED <<latest, list, todo, listener, loop>>
          /\ signal'[latest] = "stop" /\ \A g \in Servers : g # latest => signal'[g] = signal[g]
          /\ \A g \in Servers : g > latest => g # latest
      BY <1>7, <1>a DEF Shutdown, SignalsFit, ProxyTypeOK, Servers
    <2> QED BY <1>a, <2>1 DEF SignalsFit, LoopsFit, AllListenedFirst
  <1>8. CASE ShutdownReturns
    BY <1>8, <1>a DEF ShutdownReturns, SignalsFit, LoopsFit, AllListenedFirst, sockets, sessions
  <1>9. CASE \E a \in Addresses : AcceptFails(a) \/ BackoffEnds(a)
    <2>1. /\ UNCHANGED <<caller, listener, signal>>
          /\ \A b \in Addresses : loop'[b] = "none" <=> loop[b] = "none"
      BY <1>9, <1>a DEF AcceptFails, BackoffEnds, ProxyTypeOK
    <2>2. SignalsFit' BY <1>a, <2>1 DEF SignalsFit, caller
    <2>3. LoopsFit'
      <3>1. step = "spawn" => \A i \in 1 .. Len(list) : list[i] \in Addresses BY Listing
      <3>2. Done' = Done BY <2>1 DEF Done, caller
      <3> QED BY <1>a, <2>1, <3>1, <3>2 DEF LoopsFit, caller
    <2>4. AllListenedFirst' BY <1>a, <2>1 DEF AllListenedFirst, caller, Listed, ProxyTypeOK
    <2> QED BY <2>2, <2>3, <2>4
  <1>10. CASE \E a \in Addresses : LoopStops(a)
    <2> PICK a \in Addresses : LoopStops(a) BY <1>10
    <2>1. /\ UNCHANGED <<caller, signal>> /\ Nobody \notin Servers
          /\ listener[a] \in Servers /\ signal[listener[a]] # "quiet"
          /\ listener'[a] = Nobody /\ loop'[a] = "none"
          /\ \A b \in Addresses : b # a => listener'[b] = listener[b] /\ loop'[b] = loop[b]
      BY <1>a DEF LoopStops, Stopped, Close, AllListenedFirst, ProxyTypeOK
    <2>2. step \in {"listen", "spawn", "serving"} => listener[a] # latest
      BY <1>a, <2>1 DEF SignalsFit
    <2>3. SignalsFit' BY <1>a, <2>1 DEF SignalsFit, caller
    <2>4. LoopsFit'
      <3>1. step \in {"listen", "spawn"} => \A i \in 1 .. Len(list) : list[i] \in Addresses BY Listing
      <3>2. Done' = Done BY <2>1 DEF Done, caller
      <3>3. step # "down" => latest \in Servers BY <1>a DEF SignalsFit
      <3>4. step \in {"listen", "spawn"} =>
              \A b \in Addresses : listener'[b] = latest <=> listener[b] = latest
        BY <2>1, <2>2, <3>3
      <3>5. step = "spawn" => \A i \in 1 .. Len(list) : list[i] # a
        BY <2>2, Spawning
      <3>6. step = "listen" => \A i \in 1 .. Done : i \in 1 .. Len(list)
        BY Listing
      <3> QED BY <1>a, <2>1, <3>1, <3>2, <3>4, <3>5, <3>6 DEF LoopsFit, caller
    <2>5. AllListenedFirst'
      <3>1. step # "down" => latest \in Servers BY <1>a DEF SignalsFit
      <3>2. \A i \in 1 .. Len(list) : list[i] \in Addresses BY <1>a DEF ProxyTypeOK
      <3> QED BY <1>a, <2>1, <2>2, <3>1, <3>2 DEF AllListenedFirst, caller, Listed
    <2> QED BY <2>3, <2>4, <2>5
  <1>11. CASE \E a \in Addresses : StrangerListens(a) \/ StrangerCloses(a)
    <2>1. /\ UNCHANGED <<caller, loop, signal>>
          /\ \A b \in Addresses :
               (listener[b] \in Servers \/ listener'[b] \in Servers) => listener'[b] = listener[b]
      BY <1>11, <1>a DEF StrangerListens, StrangerCloses, Close, ProxyTypeOK
    <2>2. SignalsFit' BY <1>a, <2>1 DEF SignalsFit, caller
    <2>3. LoopsFit'
      <3>1. step \in {"listen", "spawn"} => \A i \in 1 .. Len(list) : list[i] \in Addresses BY Listing
      <3>2. Done' = Done BY <2>1 DEF Done, caller
      <3>3. step # "down" => latest \in Servers BY <1>a DEF SignalsFit
      <3>4. step \in {"listen", "spawn"} =>
              \A b \in Addresses : listener'[b] = latest <=> listener[b] = latest
        BY <2>1, <3>3
      <3>5. step = "listen" => \A i \in 1 .. Done : i \in 1 .. Len(list)
        BY Listing
      <3> QED BY <1>a, <2>1, <3>1, <3>2, <3>4, <3>5 DEF LoopsFit, caller
    <2>4. AllListenedFirst'
      <3>1. step # "down" => latest \in Servers BY <1>a DEF SignalsFit
      <3>2. \A i \in 1 .. Len(list) : list[i] \in Addresses BY <1>a DEF ProxyTypeOK
      <3> QED BY <1>a, <2>1, <3>1, <3>2 DEF AllListenedFirst, caller, Listed
    <2> QED BY <2>2, <2>3, <2>4
  <1>12. CASE \E c \in Clients : Session(c) \/ \E a \in Addresses : Accept(a, c)
    <2>1. UNCHANGED <<caller, sockets, signal>> BY <1>12, ClientsApart
    <2> QED BY <1>a, <2>1 DEF caller, sockets, SignalsFit, LoopsFit, AllListenedFirst, Done, Listed
  <1>13. CASE UNCHANGED pvars
    BY <1>a, <1>13 DEF pvars, caller, sockets, SignalsFit, LoopsFit, AllListenedFirst, Done, Listed
  <1> QED
    BY <1>1, <1>2, <1>3, <1>4, <1>5, <1>6, <1>7, <1>8, <1>9, <1>10, <1>11, <1>12, <1>13
       DEF ProxyNext, Binding, AcceptLoop

\* Every step of a client's tasks keeps what they rely on of each other.
LEMMA StepTasks == ProxyInv /\ [ProxyNext]_pvars => TasksFit'
  <1> SUFFICES ASSUME ProxyInv, [ProxyNext]_pvars PROVE TasksFit'
    OBVIOUS
  <1>a. /\ ProxyTypeOK /\ TasksFit /\ latest \in Nat
        /\ \A a \in Addresses : loop[a] # "none" => listener[a] \in 1 .. latest
    BY DEF ProxyInv, ProxyTypeOK, AllListenedFirst, SignalsFit, Servers
  <1>1. CASE Serving
    <2>1. UNCHANGED sessions BY <1>1, ServersApart
    <2>2. latest' = latest \/ latest' = latest + 1
      BY <1>1 DEF Serving, Binding, Bind, Listen, ListenFails, Listening, SpawnAccept,
             LocalAddrFails, Shutdown, ShutdownReturns, AcceptLoop, AcceptFails,
             BackoffEnds, LoopStops, StrangerListens, StrangerCloses
    <2>3. 1 .. latest \subseteq 1 .. latest' BY <1>a, <2>2
    <2> QED BY <1>a, <2>1, <2>3 DEF TasksFit, Free, At
  <1>2. ASSUME NEW a \in Addresses, NEW c \in Clients, Accept(a, c) PROVE TasksFit'
    BY <1>a, <1>2 DEF Accept, TasksFit, ProxyTypeOK, Free, At
  <1>3. ASSUME NEW c \in Clients, Session(c) PROVE TasksFit'
    <2>1. UNCHANGED <<latest, server>>
      BY <1>3, ClientsApart DEF Session, Handle, ClientGone, ConnStops, Forward, Forwarded,
             Dial, DialFails, Dialed, ShakeFails, Relay, Relayed, Switch, Upgraded,
             UpstreamEnds, HandOver, Join, JoinFails, TunnelEnds, TunnelStops, DropTunnel
    <2> USE <1>a, <2>1 DEF TasksFit, ProxyTypeOK, Free, At, Goto, InHandle
    <2>2. CASE ClientGone(c) BY <2>2 DEF ClientGone
    <2>3. CASE ConnStops(c) BY <2>3 DEF ConnStops
    <2>4. CASE Forward(c) \/ Forwarded(c) \/ Dial(c) \/ DialFails(c)
      BY <2>4 DEF Forward, Forwarded, Dial, DialFails
    <2>5. CASE Dialed(c) BY <2>5 DEF Dialed
    <2>6. CASE ShakeFails(c) BY <2>6 DEF ShakeFails
    <2>7. CASE Relay(c) \/ Relayed(c) BY <2>7 DEF Relay, Relayed
    <2>8. CASE Switch(c) BY <2>8 DEF Switch
    <2>9. CASE Upgraded(c) BY <2>9 DEF Upgraded
    <2>10. CASE UpstreamEnds(c) BY <2>10 DEF UpstreamEnds, Held
    <2>11. CASE HandOver(c) BY <2>11 DEF HandOver
    <2>12. CASE Join(c) BY <2>12 DEF Join
    <2>13. CASE JoinFails(c) BY <2>13 DEF JoinFails, DropTunnel
    <2>14. CASE TunnelEnds(c) \/ TunnelStops(c) BY <2>14 DEF TunnelEnds, TunnelStops, DropTunnel
    <2> QED
      BY <1>3, <2>2, <2>3, <2>4, <2>5, <2>6, <2>7, <2>8, <2>9, <2>10, <2>11, <2>12, <2>13, <2>14
         DEF Session, Handle
  <1>4. CASE UNCHANGED pvars
    BY <1>a, <1>4 DEF TasksFit, Free, At
  <1> QED BY <1>1, <1>2, <1>3, <1>4 DEF ProxyNext, Serving

-----------------------------------------------------------------------------

\* A server accepts only once it listens everywhere, its sockets, signals and tasks
\* belong together, and what is left of earlier servers is on its way out.
THEOREM ProxyInvariance == ProxySpec => []ProxyInv
  <1>1. ProxyInv /\ [ProxyNext]_pvars => ProxyInv'
    BY StepTyped, StepServes, StepTasks DEF ProxyInv, BindInv
  <1> QED BY <1>1, StartsDown, PTL DEF ProxySpec

\* When no server is bound, its addresses are free again (shutdown), but for those of
\* a bind that gave up half way.
THEOREM FreedAfterShutdown == ProxySpec => []FreedWhenDown
  <1>1. ProxyInv => FreedWhenDown BY DEF ProxyInv, SignalsFit, FreedWhenDown
  <1> QED BY <1>1, ProxyInvariance, PTL

-----------------------------------------------------------------------------
(* The refinement: what Proxy's variables say of ProxyPromise's.            *)

Taking == {listener[a] : a \in {x \in Addresses : loop[x] # "none"}}
Told == {g \in Servers : Stopped(g)}
SessionOf == [c \in Clients |-> IF Free(c) THEN 0 ELSE server[c]]

\* At first nobody is served, and nobody is told.
LEMMA PromiseStarts == ProxyInit => Promise!Init
  BY ProxyAssumption DEF ProxyInit, Promise!Init, Stopped, Free

\* Servers that accept came no later than the last one bound; all but that one were
\* told to stop, or lost whoever would tell them.
LEMMA OldOnesTold ==
  ASSUME ProxyInv, NEW h \in Taking
  PROVE  /\ h \in Servers /\ h <= latest
         /\ step \in {"down", "listen", "spawn", "serving"} /\ h # latest => h \in Told
  BY DEF Taking, Told, Stopped, ProxyInv, SignalsFit, AllListenedFirst, ProxyTypeOK

\* A step of the caller or of an accept loop is one that Promise allows, or none of it.
LEMMA ServingPromised == ProxyInv /\ Serving => [Promise!Next]_(Promise!vars)
  <1> SUFFICES ASSUME ProxyInv, Serving PROVE [Promise!Next]_(Promise!vars)
    OBVIOUS
  <1>a. /\ ProxyTypeOK /\ SignalsFit /\ AllListenedFirst /\ Nobody \notin Servers
        /\ step # "down" => latest \in Servers
    BY ProxyAssumption DEF ProxyInv, SignalsFit
  <1>s. SessionOf' = SessionOf BY ServersApart DEF SessionOf, Free
  <1>q. UNCHANGED <<Taking, Told>> => UNCHANGED Promise!vars
    BY <1>s DEF Promise!vars, Taking, Told, SessionOf
  <1>1. CASE \/ \E addresses \in BindLists : Bind(addresses)
             \/ Listening \/ ShutdownReturns
    BY <1>1, <1>q DEF Bind, Listening, ShutdownReturns, Taking, Told, Stopped
  <1>2. CASE \/ Listen \/ ListenFails
             \/ \E a \in Addresses : StrangerListens(a) \/ StrangerCloses(a)
    <2>1. UNCHANGED <<loop, signal>>
      BY <1>2 DEF Listen, ListenFails, StrangerListens, StrangerCloses
    <2>2. ASSUME NEW a \in Addresses, loop[a] # "none" PROVE listener'[a] = listener[a]
      <3>1. listener[a] \in Servers BY <1>a, <2>2 DEF AllListenedFirst
      <3>2. CASE Listen
        <4>1. Head(todo) \in Addresses BY <1>a, <3>2, TailOfAddresses DEF Listen, ProxyTypeOK
        <4> QED BY <1>a, <3>1, <3>2, <4>1 DEF Listen, ProxyTypeOK
      <3>3. CASE ListenFails
        BY <1>a, <2>2, <3>3 DEF ListenFails, Close, AllListenedFirst
      <3>4. CASE \E b \in Addresses : StrangerListens(b) \/ StrangerCloses(b)
        BY <1>a, <3>1, <3>4, ProxyAssumption DEF StrangerListens, StrangerCloses, Close, ProxyTypeOK
      <3> QED BY <1>2, <3>2, <3>3, <3>4
    <2>3. Taking' = Taking BY <2>1, <2>2 DEF Taking
    <2> QED BY <1>q, <2>1, <2>3 DEF Told, Stopped
  <1>3. CASE SpawnAccept
    <2>1. step = "spawn" /\ todo # <<>> /\ UNCHANGED <<latest, listener, signal>>
      BY <1>3, Spawning DEF SpawnAccept
    <2>2. PICK h \in Addresses :
            /\ listener[h] = latest
            /\ loop'[h] = "accepting"
            /\ \A a \in Addresses : a # h => loop'[a] = loop[a]
      <3>0. step \in {"listen", "spawn"} BY <2>1
      <3>1. Head(todo) \in Addresses /\ listener[Head(todo)] = latest
        <4>1. Head(todo) = list[Done + 1] /\ Done + 1 \in 1 .. Len(list)
          BY <2>1, <3>0, Listing
        <4> QED BY <2>1, <3>0, <4>1, Listing, Spawning
      <3> QED BY <1>3, <1>a, <3>1 DEF SpawnAccept, ProxyTypeOK
    <2>3. Taking' = Taking \cup {latest} BY <2>1, <2>2 DEF Taking
    <2>4. Told' = Told BY <2>1 DEF Told, Stopped
    <2>5. CASE latest \in Taking BY <1>q, <2>3, <2>4, <2>5
    <2>6. CASE latest \notin Taking
      <3>1. latest \in Servers \ (Taking \cup Told)
        BY <1>a, <2>1, <2>6 DEF SignalsFit, Told, Stopped
      <3>2. Taking \subseteq Told BY <2>1, <2>6, OldOnesTold
      <3>3. \A o \in Taking \cup Told : o < latest
        <4>1. \A o \in Told : o \in Servers /\ o # latest /\ ~(o > latest)
          BY <1>a, <2>1, <3>1 DEF SignalsFit, Told, Stopped
        <4>2. \A o \in Servers : o # latest /\ ~(o > latest) => o < latest
          BY <1>a, <2>1 DEF Servers
        <4> QED BY <3>2, <4>1, <4>2
      <3>4. PICK g \in Servers : g = latest BY <3>1
      <3>5. Promise!Up(g)
        BY <1>s, <2>3, <2>4, <3>1, <3>2, <3>3, <3>4 DEF Promise!Up, Taking, Told, SessionOf
      <3> QED BY <3>5 DEF Promise!Next
    <2> QED BY <2>5, <2>6
  <1>4. CASE LocalAddrFails \/ Shutdown
    <2>1. /\ step \in {"spawn", "serving"} /\ latest \in Servers /\ loop' = loop
          /\ signal'[latest] # "quiet" /\ \A g \in Servers : g # latest => signal'[g] = signal[g]
      BY <1>4, <1>a DEF LocalAddrFails, Shutdown, ProxyTypeOK
    <2>2. ASSUME NEW a \in Addresses, loop[a] # "none" PROVE listener'[a] = listener[a]
      <3>1. CASE Shutdown BY <3>1 DEF Shutdown
      <3>2. CASE LocalAddrFails
        <4>1. ASSUME NEW i \in 1 .. Len(todo) PROVE loop[todo[i]] = "none"
          <5>0. step = "spawn" BY <3>2 DEF LocalAddrFails
          <5>1. Done + i \in 1 .. Len(list) /\ ~(Done + i <= Done) /\ todo[i] = list[Done + i]
            BY <5>0, Listing
          <5> QED BY <5>0, <5>1, Spawning
        <4>2. a \notin Listed(todo) BY <2>2, <4>1 DEF Listed
        <4> QED BY <3>2, <4>2 DEF LocalAddrFails, Close
      <3> QED BY <1>4, <3>1, <3>2
    <2>3. Taking' = Taking BY <2>1, <2>2 DEF Taking
    <2>4. latest \in Servers \ Told
      BY <1>a, <2>1 DEF SignalsFit, Told, Stopped
    <2>5. Told' = Told \cup {latest} BY <2>1 DEF Told, Stopped
    <2>6. Promise!Tell(latest)
      BY <1>s, <2>3, <2>4, <2>5 DEF Promise!Tell, Taking, Told, SessionOf
    <2> QED BY <2>1, <2>6 DEF Promise!Next
  <1>5. CASE \E a \in Addresses : AcceptFails(a) \/ BackoffEnds(a)
    <2>1. /\ UNCHANGED <<listener, signal>>
          /\ \A b \in Addresses : loop'[b] = "none" <=> loop[b] = "none"
      BY <1>5, <1>a DEF AcceptFails, BackoffEnds, ProxyTypeOK
    <2>2. Taking' = Taking BY <2>1 DEF Taking
    <2> QED BY <1>q, <2>1, <2>2 DEF Told, Stopped
  <1>6. CASE \E a \in Addresses : LoopStops(a)
    <2> PICK a \in Addresses : LoopStops(a) BY <1>6
    <2>1. PICK g \in Servers : g = listener[a] BY <1>a DEF LoopStops, AllListenedFirst
    <2>2. /\ UNCHANGED signal /\ signal[g] # "quiet"
          /\ loop[a] # "none" /\ loop'[a] = "none"
          /\ \A b \in Addresses : b # a => listener'[b] = listener[b] /\ loop'[b] = loop[b]
      BY <1>a, <2>1 DEF LoopStops, Stopped, Close, ProxyTypeOK
    <2>3. Told' = Told /\ g \in Told BY <2>2 DEF Told, Stopped
    <2>4. CASE \E b \in Addresses : b # a /\ loop[b] # "none" /\ listener[b] = g
      <3>1. Taking' = Taking BY <2>1, <2>2, <2>4 DEF Taking
      <3> QED BY <1>q, <2>3, <3>1
    <2>5. CASE ~\E b \in Addresses : b # a /\ loop[b] # "none" /\ listener[b] = g
      <3>1. Taking' = Taking \ {g} BY <2>1, <2>2, <2>5 DEF Taking
      <3>2. g \in Taking BY <2>1, <2>2 DEF Taking
      <3>3. Promise!Down(g)
        BY <1>s, <2>3, <3>1, <3>2 DEF Promise!Down, Taking, Told, SessionOf
      <3> QED BY <3>3 DEF Promise!Next
    <2> QED BY <2>4, <2>5
  <1> QED BY <1>1, <1>2, <1>3, <1>4, <1>5, <1>6 DEF Serving, Binding, AcceptLoop

\* A session is opened by a server that accepts, and a step of its tasks leaves it
\* with that server or closes it.
LEMMA SessionsPromised ==
  ASSUME ProxyInv, NEW c \in Clients, Session(c) \/ \E a \in Addresses : Accept(a, c)
  PROVE  [Promise!Next]_(Promise!vars)
  <1>a. ProxyTypeOK /\ TasksFit /\ AllListenedFirst /\ latest \in Nat /\ 1 .. latest \subseteq Servers
    BY ProxyAssumption DEF ProxyInv, ProxyTypeOK, Servers
  <1>1. Taking' = Taking /\ Told' = Told
    BY ClientsApart DEF Taking, Told, Stopped
  <1>2. \A d \in Clients : d # c => SessionOf'[d] = SessionOf[d]
    <2> SUFFICES ASSUME NEW d \in Clients, d # c
                 PROVE  UNCHANGED <<conn[d], server[d], upstream[d], tunnel[d]>>
      BY DEF SessionOf, Free
    <2> QED
      BY <1>a DEF Session, Handle, Accept, ClientGone, ConnStops, Forward, Forwarded, Dial,
         DialFails, Dialed, ShakeFails, Relay, Relayed, Switch, Upgraded, UpstreamEnds,
         HandOver, Join, JoinFails, TunnelEnds, TunnelStops, DropTunnel, Goto, ProxyTypeOK
  <1>3. SessionOf = [d \in Clients |-> SessionOf[d]] /\ SessionOf' = [d \in Clients |-> SessionOf'[d]]
    BY DEF SessionOf
  <1>4. CASE \E a \in Addresses : Accept(a, c)
    <2> PICK a \in Addresses : Accept(a, c) BY <1>4
    <2>1. PICK g \in Servers : g = listener[a] /\ g \in Taking
      BY <1>a DEF Accept, AllListenedFirst, Taking
    <2>2. SessionOf[c] = 0 /\ SessionOf'[c] = g
      BY <1>a, <2>1 DEF Accept, SessionOf, Free, ProxyTypeOK
    <2>3. SessionOf' = [SessionOf EXCEPT ![c] = g] BY <1>2, <1>3, <2>2
    <2>4. Promise!Open(c, g)
      BY <1>1, <2>1, <2>2, <2>3 DEF Promise!Open, Taking, Told, SessionOf
    <2> QED BY <2>4 DEF Promise!Next
  <1>5. CASE Session(c)
    <2>1. ~Free(c) /\ UNCHANGED server
      BY <1>5, <1>a DEF Free, Session, Handle, ClientGone, ConnStops, Forward, Forwarded, Dial,
         DialFails, Dialed, ShakeFails, Relay, Relayed, Switch, Upgraded, UpstreamEnds,
         HandOver, Join, JoinFails, TunnelEnds, TunnelStops, DropTunnel, At, InHandle
    <2>2. SessionOf[c] # 0 /\ SessionOf[c] = server[c]
      BY <1>a, <2>1 DEF SessionOf, TasksFit
    <2>3. CASE Free(c)'
      <3>1. SessionOf' = [SessionOf EXCEPT ![c] = 0]
        <4>1. SessionOf'[c] = 0 BY <2>3 DEF SessionOf
        <4> QED BY <1>2, <1>3, <4>1
      <3>2. Promise!Close(c)
        BY <1>1, <2>2, <3>1 DEF Promise!Close, Taking, Told, SessionOf
      <3> QED BY <3>2 DEF Promise!Next
    <2>4. CASE ~Free(c)'
      <3>1. SessionOf'[c] = SessionOf[c] BY <2>1, <2>2, <2>4 DEF SessionOf
      <3>2. SessionOf' = SessionOf BY <1>2, <1>3, <3>1
      <3> QED BY <1>1, <3>2 DEF Promise!vars, Taking, Told, SessionOf
    <2> QED BY <2>3, <2>4
  <1> QED BY <1>4, <1>5

\* Clients are taken in by one server at a time, stay with the one they began with, and
\* no server that was told to stop comes back: the safety of ImplementsPromise.
THEOREM KeepsPromise == ProxySpec => Promise!Spec
  <1>1. ProxyInv /\ [ProxyNext]_pvars => [Promise!Next]_(Promise!vars)
    <2> SUFFICES ASSUME ProxyInv, [ProxyNext]_pvars PROVE [Promise!Next]_(Promise!vars)
      OBVIOUS
    <2>1. CASE Serving BY <2>1, ServingPromised
    <2>2. CASE \E c \in Clients : Session(c) \/ \E a \in Addresses : Accept(a, c)
      BY <2>2, SessionsPromised
    <2>3. CASE UNCHANGED pvars
      BY <2>3 DEF Promise!vars, Stopped, Free
    <2> QED BY <2>1, <2>2, <2>3 DEF ProxyNext, Serving
  <1> QED BY <1>1, PromiseStarts, ProxyInvariance, PTL DEF ProxySpec, Promise!Spec

=============================================================================
