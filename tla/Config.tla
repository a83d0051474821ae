------------------------------- MODULE Config -------------------------------
(***************************************************************************)
(* What src/src/config.rs makes of a services.toml that is TOML: a strict  *)
(* reading of its tables, and the expansion of placeholders in commands.   *)
(* A table is a function from keys, Missing where it has none; Wrong is    *)
(* every value of a type that its key does not take.  Names and            *)
(* addresses are strings, and what the code looks into (arguments, hosts,  *)
(* values and names of variables) are sequences of characters.             *)
(***************************************************************************)
EXTENDS Naturals, Sequences, SequencesExt

CONSTANTS Wrong,
          Rejected,     \* a ConfigError in place of a result
          Missing,      \* a key or a variable that is not set; None
          ValidNames,   \* letters, digits, '_' and '-' only
          MaxPort,      \* u16::MAX
          Upper, Digit  \* characters of the names of placeholders

OpenBrace == "{"
CloseBrace == "}"

\* the braces are no letters or digits
ASSUME PlaceholderAssumption == {OpenBrace, CloseBrace} \cap (Upper \cup Digit) = {}

TopLevelKeys == {"http_port", "bind", "services"}
ServiceKeys == {"command", "env", "routes", "disabled", "auto_start"}
PortKeys == {"target_port", "target_port_env"}
TargetKeys == PortKeys \cup {"target_socket", "target_socket_env"}
RouteKeys == {"id", "hosts", "target_host"} \cup TargetKeys
TargetHosts == {"127.0.0.1", "::1", "localhost"}
Reserved == {"manager"}

-----------------------------------------------------------------------------
(* Checked reads of a table.                                               *)

Has(table, key) == key \in DOMAIN table /\ table[key] # Missing

\* table.key, or a default where it is absent
Get(table, key, default) == IF Has(table, key) THEN table[key] ELSE default

\* mutant: keys that are not known are skipped
AnyKeys(table, keys) == table # Wrong

OnlyKeys(table, keys) ==
  table # Wrong /\ \A key \in DOMAIN table : Has(table, key) => key \in keys

IsPort(value) == value # Wrong /\ value \in 1 .. MaxPort
IsName(value) == value # Wrong /\ value # ""
IsText(value) == value # Wrong /\ value # <<>>
IsBool(value) == value # Wrong

NameList(value) == value # Wrong /\ value # <<>> /\ \A i \in DOMAIN value : IsName(value[i])
TextList(value) == value # Wrong /\ value # <<>> /\ \A i \in DOMAIN value : IsText(value[i])
TextMap(value) == value # Wrong /\ \A key \in DOMAIN value : value[key] # Wrong

-----------------------------------------------------------------------------
(* parse_route, parse_service, build_manifest.                             *)

\* a target that is a literal, or the name of a variable that holds it
TargetValid(raw, key) ==
  /\ IF key = "target_port" THEN IsPort(raw[key]) ELSE IsText(raw[key])
  /\ IF key \in PortKeys
     THEN Get(raw, "target_host", "localhost") \in TargetHosts
     ELSE ~Has(raw, "target_host")

ParseRoute(raw) ==
  IF /\ OnlyKeys(raw, RouteKeys)
     /\ Has(raw, "id") /\ IsName(raw.id)
     /\ Has(raw, "hosts") /\ TextList(raw.hosts)
     /\ \E key \in TargetKeys :
          /\ \A other \in TargetKeys : Has(raw, other) <=> other = key
          /\ TargetValid(raw, key)
  THEN LET key == CHOOSE k \in TargetKeys : Has(raw, k)
       IN [id |-> raw.id,
           hosts |-> raw.hosts,
           kind |-> key,
           host |-> IF key \in PortKeys THEN Get(raw, "target_host", "localhost") ELSE Missing,
           port |-> IF key = "target_port" THEN raw[key] ELSE 0,
           text |-> IF key = "target_port" THEN <<>> ELSE raw[key]]
  ELSE Rejected

ParseService(name, raw) ==
  LET routes == IF Get(raw, "routes", <<>>) = Wrong THEN <<Rejected>>
                ELSE [i \in DOMAIN Get(raw, "routes", <<>>) |-> ParseRoute(raw.routes[i])]
  IN IF /\ name \in ValidNames \ Reserved
        /\ OnlyKeys(raw, ServiceKeys)
        /\ Has(raw, "command") => TextList(raw.command)
        /\ Has(raw, "env") => TextMap(raw.env)
        /\ Has(raw, "disabled") => IsBool(raw.disabled)
        /\ Has(raw, "auto_start") => IsBool(raw.auto_start) /\ Has(raw, "command")
        /\ \A i \in DOMAIN routes : routes[i] # Rejected
     THEN [name |-> name,
           command |-> Get(raw, "command", <<>>),
           env |-> Get(raw, "env", <<>>),
           routes |-> routes,
           disabled |-> Get(raw, "disabled", FALSE),
           auto_start |-> Get(raw, "auto_start", TRUE)]
     ELSE Rejected

\* services are an ordered table: a sequence of <<name, table>>
BuildManifest(data) ==
  LET services == [i \in DOMAIN data.services |->
                     ParseService(data.services[i][1], data.services[i][2])]
  IN IF /\ OnlyKeys(data, TopLevelKeys)
        /\ Has(data, "http_port") /\ IsPort(data.http_port)
        /\ Has(data, "bind") /\ NameList(data.bind)
        /\ Has(data, "services") /\ data.services # Wrong /\ data.services # <<>>
        /\ \A i \in DOMAIN services : services[i] # Rejected
     THEN [http_port |-> data.http_port, bind |-> data.bind, services |-> services]
     ELSE Rejected

-----------------------------------------------------------------------------
(* resolve_command.                                                        *)

IsPlaceholderName(name) ==
  /\ name # <<>>
  /\ name[1] \in Upper \cup {"_"}
  /\ \A i \in DOMAIN name : name[i] \in Upper \cup Digit \cup {"_"}

\* the first closing brace after i; beyond the argument if there is none
Closing(arg, i) ==
  LET closing == {j \in i + 1 .. Len(arg) : arg[j] = CloseBrace}
  IN IF closing = {} THEN Len(arg) + 1 ELSE Min(closing)

\* mutant: what no placeholder is opened by is skipped to its closing brace
ScanSkips(arg) ==
  LET scan[i \in 1 .. Len(arg) + 1] ==
        LET close == Closing(arg, i)
            name  == SubSeq(arg, i + 1, close - 1)
        IN IF i > Len(arg) THEN <<>>
           ELSE IF arg[i] = OpenBrace /\ close <= Len(arg)
           THEN IF IsPlaceholderName(name) THEN <<[key |-> name]>> \o scan[close + 1]
                ELSE [k \in 1 .. close + 1 - i |-> [char |-> arg[i + k - 1]]] \o scan[close + 1]
           ELSE <<[char |-> arg[i]]>> \o scan[i + 1]
  IN scan[1]

\* substitute_placeholders, left to right: each piece is a character to keep
\* or the name of a variable; a value that is put in is not scanned again
Scan(arg) ==
  LET scan[i \in 1 .. Len(arg) + 1] ==
        LET close == Closing(arg, i)
            name  == SubSeq(arg, i + 1, close - 1)
        IN IF i > Len(arg) THEN <<>>
           ELSE IF arg[i] = OpenBrace /\ close <= Len(arg) /\ IsPlaceholderName(name)
           THEN <<[key |-> name]>> \o scan[close + 1]
           ELSE <<[char |-> arg[i]]>> \o scan[i + 1]
  IN scan[1]

\* the argument with the values that a lookup has of its variables
Substitute(arg, lookup) ==
  LET pieces == Scan(arg)
      text(i) == IF "key" \in DOMAIN pieces[i] THEN Get(lookup, pieces[i].key, Missing)
                 ELSE <<pieces[i].char>>
  IN IF \E i \in DOMAIN pieces : text(i) = Missing
     THEN Rejected
     ELSE FlattenSeq([i \in DOMAIN pieces |-> text(i)])

ResolveCommand(command, lookup) ==
  LET args == [i \in DOMAIN command |-> Substitute(command[i], lookup)]
  IN IF \E i \in DOMAIN args : args[i] = Rejected THEN Rejected ELSE args

=============================================================================
