------------------------------- MODULE Routes -------------------------------
(***************************************************************************)
(* From a manifest to the target of a request: src/src/routes.rs, with the *)
(* readers of variables of src/src/config.rs and the choice of a route in  *)
(* src/src/proxy.rs.  The process environment is a function from the names *)
(* of the variables that are set.                                          *)
(***************************************************************************)
EXTENDS Config

CONSTANTS NotUnicode,  \* a value that env::var gives as an error
          DigitValue,  \* the digits and what they count
          Base,        \* the directory of services.toml, component by component
          LowerOf,     \* the upper-case letters of hosts, and the lower-case ones
          Globbed      \* the pairs of a pattern and a host that it matches

Wildcards == {"*", "?", "["}

\* to_ascii_lowercase changes letters into letters
ASSUME LowerAssumption ==
  \A c \in DOMAIN LowerOf : c \notin Wildcards /\ LowerOf[c] \notin Wildcards

-----------------------------------------------------------------------------
(* Variables.                                                              *)

\* mutant: the table of the service comes first
OwnValueFirst(service, penv, key) ==
  LET inherited == Get(penv, key, Missing)
  IN Get(service.env, key, IF inherited = NotUnicode THEN Missing ELSE inherited)

\* the process environment, then the service's own table
ServiceValue(service, penv, key) ==
  IF Get(penv, key, NotUnicode) # NotUnicode
  THEN penv[key]
  ELSE Get(service.env, key, Missing)

Trim(text) ==
  LET ink == {i \in DOMAIN text : text[i] # " "}
  IN IF ink = {} THEN <<>> ELSE SubSeq(text, Min(ink), Max(ink))

\* the number a text stands for; 0 for none, and for those below 0
Number(text) ==
  LET trimmed == Trim(text)
      digits  == IF trimmed # <<>> /\ Head(trimmed) = "+" THEN Tail(trimmed) ELSE trimmed
  IN IF \A i \in DOMAIN digits : digits[i] \in DOMAIN DigitValue
     THEN FoldLeft(LAMBDA n, d : 10 * n + DigitValue[d], 0, digits)
     ELSE 0

RequirePort(text) ==
  IF text # Missing /\ IsPort(Number(text)) THEN Number(text) ELSE Rejected

RequireSocketPath(text) == IF text \in {Missing, <<>>} THEN Rejected ELSE text

-----------------------------------------------------------------------------
(* resolve_routes.                                                         *)

\* paths are compared by their components; ".." is kept as it is
Components(text) ==
  LET cut(parts, c) == IF c = "/" THEN Append(parts, <<>>)
                       ELSE [parts EXCEPT ![Len(parts)] = Append(@, c)]
  IN SelectSeq(FoldLeft(cut, << <<>> >>, text), LAMBDA part : part \notin {<<>>, <<".">>})

ResolveSocketPath(text) ==
  IF Head(text) = "/" THEN Components(text) ELSE Base \o Components(text)

Tcp(host, port) == [host |-> host, port |-> port]
Unix(path) == [path |-> path]

Target(service, route, penv) ==
  LET value == ServiceValue(service, penv, route.text)
      path  == IF route.kind = "target_socket" THEN route.text ELSE RequireSocketPath(value)
      port  == IF route.kind = "target_port" THEN route.port ELSE RequirePort(value)
  IN IF route.kind \in {"target_socket", "target_socket_env"}
     THEN IF path = Rejected THEN Rejected ELSE Unix(ResolveSocketPath(path))
     ELSE IF port = Rejected THEN Rejected ELSE Tcp(route.host, port)

\* seen_ports and seen_sockets: the host of a port does not tell two apart
Claimed(table, target) ==
  \E i \in DOMAIN table :
    LET other == table[i].target
    IN IF "port" \in DOMAIN target
       THEN "port" \in DOMAIN other /\ other.port = target.port
       ELSE "path" \in DOMAIN other /\ other.path = target.path

\* the routes of the services that are not disabled, in the order of the file
Declared(manifest) ==
  LET services == manifest.services
      declared[i \in 0 .. Len(services)] ==
        IF i = 0 THEN <<>>
        ELSE IF services[i].disabled THEN declared[i - 1]
        ELSE declared[i - 1] \o
               [j \in DOMAIN services[i].routes |->
                  [service |-> services[i], route |-> services[i].routes[j]]]
  IN declared[Len(services)]

ResolvedRoute(d, penv) ==
  [id |-> d.route.id, hosts |-> d.route.hosts, target |-> Target(d.service, d.route, penv)]

\* the first route that has no target, or one that is claimed, rejects them all
ResolveRoutes(manifest, penv) ==
  LET declared == Declared(manifest)
      table[n \in 0 .. Len(declared)] ==
        IF n = 0 THEN <<>>
        ELSE LET before == table[n - 1]
                 new    == ResolvedRoute(declared[n], penv)
             IN IF before = Rejected \/ new.target = Rejected THEN Rejected
                ELSE IF Claimed(before, new.target) THEN Rejected
                ELSE Append(before, new)
  IN table[Len(declared)]

-----------------------------------------------------------------------------
(* HostMatcher.                                                            *)

Lower(host) == [i \in DOMAIN host |-> Get(LowerOf, host[i], host[i])]

IsWildcardHost(host) == \E i \in DOMAIN host : host[i] \in Wildcards

\* the hosts of a table in lower case, in order, each with the index of its route
Patterns(table) ==
  FlattenSeq([i \in DOMAIN table |->
    [j \in DOMAIN table[i].hosts |-> [host |-> Lower(table[i].hosts[j]), index |-> i]]])

\* mutant: the table is searched in order, whatever the kind of a pattern
FindInOrder(table, host) ==
  LET patterns == Patterns(table)
      found == {k \in DOMAIN patterns : \/ patterns[k].host = Lower(host)
                                        \/ <<patterns[k].host, Lower(host)>> \in Globbed}
  IN IF found = {} THEN 0 ELSE patterns[Min(found)].index

\* the route of a host: the first that names it, else the first with a pattern
\* that it matches; 0 for none
Find(table, host) ==
  LET patterns == Patterns(table)
      exact    == {k \in DOMAIN patterns : ~IsWildcardHost(patterns[k].host)}
      named    == {k \in exact : patterns[k].host = Lower(host)}
      matched  == {k \in (DOMAIN patterns) \ exact : <<patterns[k].host, Lower(host)>> \in Globbed}
      found    == IF named # {} THEN named ELSE matched
  IN IF found = {} THEN 0 ELSE patterns[Min(found)].index

-----------------------------------------------------------------------------
(* ProxyService::handle, to the choice of a target.                        *)

\* "[...]" whole, else what is before the last colon
StripPort(raw) ==
  LET at(c) == {i \in DOMAIN raw : raw[i] = c}
  IN IF raw # <<>> /\ Head(raw) = "["
     THEN IF at("]") = {} THEN raw ELSE SubSeq(raw, 1, Min(at("]")))
     ELSE IF at(":") = {} THEN raw ELSE SubSeq(raw, 1, Max(at(":")) - 1)

\* the header, else the authority of the URI (HTTP/2), else ""
RawHost(request) ==
  IF request.host # Missing THEN request.host
  ELSE IF request.authority # Missing THEN request.authority ELSE <<>>

\* request_host
RequestHost(request) == StripPort(RawHost(request))

Localhost == <<"l", "o", "c", "a", "l", "h", "o", "s", "t">>

Portal == [answer |-> "portal"]
NotFound == [answer |-> "not found"]
Forward(route) == [answer |-> "forward", to |-> route.id, target |-> route.target]

Answer(table, request) ==
  LET host == RequestHost(request)
  IN IF Lower(host) = Localhost THEN Portal
     ELSE IF Find(table, host) = 0 THEN NotFound
     ELSE Forward(table[Find(table, host)])

=============================================================================
