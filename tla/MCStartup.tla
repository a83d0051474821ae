----------------------------- MODULE MCStartup -----------------------------
(* Four families of cases: one service with every choice of keys and odd   *)
(* values, one route likewise, an argument of every shape, and two         *)
(* services with variables and hosts in common under several environments. *)
EXTENDS Startup

File(services) == [http_port |-> 80, bind |-> <<"ip">>, services |-> services]
Request(raw, host) == [host |-> raw, authority |-> Missing, meant |-> host]

P == <<"P">>
Q == <<"Q">>
HostA == <<"a">>
HostUpper == <<"A">>
HostB == <<"b">>
Star == <<"*">>
Six == <<"[", ":", "]">>
Dots == <<":", "8">>

MCMaxPort == 99
MCValidNames == {"web", "api", "manager"}
MCUpper == {"P", "Q"}
MCDigits == [d \in {"0", "7", "8"} |-> IF d = "0" THEN 0 ELSE IF d = "7" THEN 7 ELSE 8]
MCBase == <<<<"s">>>>
MCLower == [c \in {"A", "L"} |-> IF c = "A" THEN "a" ELSE "l"]
MCGlobbed ==
  {Star} \X {HostA, HostB, <<"b", "a">>, Six, <<>>}
  \cup {<<<<"*", "a">>, HostA>>, <<<<"*", "a">>, <<"b", "a">>>>}

Plain == [key \in {} |-> Missing]
SomeRoute == [id |-> "r", hosts |-> <<HostA>>, target_port |-> 7]

ServiceTables ==
  [command    : {Missing, Wrong, <<>>, <<<<>>>>, <<<<"e">>>>},
   env        : {Missing, Wrong, Plain, (P :> <<"7">>), (P :> Wrong)},
   routes     : {Missing, Wrong, <<>>, <<SomeRoute>>, <<SomeRoute, Wrong>>},
   disabled   : {Missing, Wrong, TRUE, FALSE},
   auto_start : {Missing, Wrong, TRUE, FALSE},
   autostart  : {Missing, TRUE}]

RouteTables ==
  [id                : {Missing, Wrong, "", "r"},
   hosts             : {Missing, Wrong, <<>>, <<HostA>>},
   target_host       : {Missing, Wrong, "localhost", "::1", "elsewhere"},
   target_port       : {Missing, Wrong, 0, 7, 100},
   target_port_env   : {Missing, <<>>, P},
   target_socket     : {Missing, <<"s">>},
   target_socket_env : {Missing, <<>>, P},
   port              : {Missing, 7}]

Env(value) == P :> value
EmptyEnv == Plain

Case(file, penv, requests) == [file |-> file, penv |-> penv, requests |-> requests]

NoRequests == {Request(HostA, HostA)}

FileCases ==
  {Case(file, EmptyEnv, NoRequests) :
     file \in [http_port : {Missing, Wrong, 0, 1, 99, 100},
                      bind : {Missing, Wrong, <<>>, <<"">>, <<"ip">>},
                      services : {Missing, Wrong, <<>>, <<<<"web", Plain>>>>,
                                  <<<<"web", Wrong>>>>, <<<<"manager", Plain>>>>,
                                  <<<<"a b", Plain>>>>},
                      extra : {Missing, 1}]}

ServiceCases ==
  {Case(File(<<<<"web", raw>>>>), EmptyEnv, NoRequests) : raw \in ServiceTables}

RouteCases ==
  {Case(File(<<<<"web", [routes |-> <<raw>>]>>>>), Env(<<"7">>), NoRequests) :
     raw \in RouteTables}

\* every argument of up to six characters, with and without its variable, whose
\* value looks like a placeholder
ArgumentCases ==
  {Case(File(<<<<"web", [command |-> <<<<"e">>, arg>>]>>>>), penv, NoRequests) :
     arg \in UNION {[1 .. n -> {"{", "}", "P", "7"}] : n \in 1 .. 6},
     penv \in {EmptyEnv, Env(<<"{", "P", "}">>)}}

Values == {<<"7">>, <<" ", "+", "7", " ">>, <<"8">>, <<"0">>, <<>>, <<"P">>}

\* two services: one listens where a variable says, the other at a port or path
TwoServices(own, other, disabled) ==
  File(<<<<"web", [command |-> <<<<"e">>, <<"{", "P", "}">>>>, env |-> own,
                   routes |-> <<[id |-> "w", hosts |-> <<HostA>>, target_port_env |-> P]>>]>>,
         <<"api", [command |-> <<<<"e">>>>, disabled |-> disabled,
                   routes |-> <<[id |-> "o", hosts |-> <<HostB>>] @@ other>>]>>>>)

ValueCases ==
  {Case(TwoServices(own, other, disabled), penv, NoRequests) :
     own \in {EmptyEnv} \cup {Env(v) : v \in Values},
     penv \in {EmptyEnv} \cup {Env(v) : v \in Values \cup {NotUnicode}},
     other \in {[target_port |-> 7], [target_port |-> 8], [target_port_env |-> P],
                [target_port |-> 7, target_host |-> "::1"]},
     disabled \in BOOLEAN}

Paths == {<<"s">>, <<".", "/", "s">>, <<"/", "s">>, <<"/", "s", "/", "/", "s", "/">>, <<>>}

SocketCases ==
  {Case(File(<<<<"web", [command |-> <<<<"e">>>>, env |-> Env(path),
                         routes |-> <<[id |-> "w", hosts |-> <<HostA>>, target_socket_env |-> P]>>]>>,
               <<"api", [routes |-> <<[id |-> "o", hosts |-> <<HostB>>, target_socket |-> other]>>]>>>>),
        penv, NoRequests) :
     path \in Paths, other \in Paths, penv \in {EmptyEnv} \cup {Env(v) : v \in Paths}}

\* what a client may say for a host
Requests ==
  {Request(host \o port, host) :
     host \in {HostA, HostUpper, HostB, <<"b", "a">>, Localhost, <<"L">> \o Tail(Localhost), Six, <<>>},
     port \in {<<>>, Dots}}
  \cup {[host |-> Missing, authority |-> HostA \o Dots, meant |-> HostA],
        [host |-> Missing, authority |-> Missing, meant |-> <<>>]}

HostLists ==
  {<<h>> : h \in {HostA, HostUpper, HostB, Star, <<"*", "A">>, Localhost, Six}}
  \cup {<<Star, HostB>>, <<HostB, Star>>}

HostCases ==
  {Case(File(<<<<"web", [routes |-> <<[id |-> "1", hosts |-> one, target_port |-> 7],
                                      [id |-> "2", hosts |-> two, target_port |-> 8]>>,
                         disabled |-> disabled]>>,
               <<"api", [routes |-> <<[id |-> "3", hosts |-> three, target_socket |-> <<"s">>]>>]>>>>),
        EmptyEnv, Requests) :
     one \in HostLists, two \in {<<HostA>>, <<Star>>}, three \in HostLists, disabled \in BOOLEAN}

AllFamilies ==
  <<FileCases, ServiceCases, RouteCases, ArgumentCases, ValueCases, SocketCases, HostCases>>
=============================================================================
