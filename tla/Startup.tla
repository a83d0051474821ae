------------------------------ MODULE Startup ------------------------------
(***************************************************************************)
(* What the text of services.toml comes to: Manager::start reads it, then  *)
(* resolves its routes, then prepares its services (ServiceManager::new),  *)
(* then serves.  Each step looks at the process environment by itself.     *)
(* What happens when is in Manager; here is what the steps make of the     *)
(* file, and how their results agree.                                      *)
(***************************************************************************)
EXTENDS Routes

CONSTANTS Families,  \* sets of cases (a file, a process environment, and requests
                     \* to come), in a sequence
          NoLaunch   \* a service that is disabled or has no command

\* Arrays are sequences, texts are, and so is the table of services.
IsSequence(s) == s \in Seq({s[i] : i \in DOMAIN s})
IsArray(table, key) == Get(table, key, Wrong) # Wrong => IsSequence(table[key])

WellFormed(file) ==
  /\ IsArray(file, "services")
  /\ Get(file, "services", Wrong) # Wrong =>
       \A i \in DOMAIN file.services :
         LET entry == file.services[i]
             raw   == entry[2]
         IN /\ entry = <<entry[1], raw>>
            /\ raw # Wrong =>
                 /\ IsArray(raw, "command")
                 /\ Get(raw, "command", Wrong) # Wrong =>
                      \A j \in DOMAIN raw.command :
                        raw.command[j] # Wrong => IsSequence(raw.command[j])
                 /\ Get(raw, "env", Wrong) # Wrong =>
                      \A key \in DOMAIN raw.env :
                        raw.env[key] # Wrong => IsSequence(raw.env[key])
                 /\ IsArray(raw, "routes")
                 /\ Get(raw, "routes", Wrong) # Wrong =>
                      \A j \in DOMAIN raw.routes :
                        raw.routes[j] # Wrong => IsArray(raw.routes[j], "hosts")

\* The variables of an environment have values.
Valued(env) ==
  \A key \in DOMAIN env :
    env[key] # Missing /\ (env[key] # NotUnicode => IsSequence(env[key]))

\* What a request says is the host that it means, in brackets if it has colons,
\* with a colon and a port behind it or without.
WellMeant(r) ==
  LET text == RawHost(r)
      end  == Len(r.meant)
  IN /\ IsSequence(text) /\ IsSequence(r.meant) /\ end <= Len(text)
     /\ \A i \in 1 .. end : text[i] = r.meant[i]
     /\ end < Len(text) => text[end + 1] = ":" /\ \A i \in end + 2 .. Len(text) : text[i] # ":"
     /\ IF r.meant # <<>> /\ r.meant[1] = "["
        THEN \A i \in 1 .. end : r.meant[i] = "]" <=> i = end
        ELSE \A i \in 1 .. end : r.meant[i] # ":"

ASSUME StartupAssumption ==
  \A n \in DOMAIN Families : \A c \in Families[n] :
    WellFormed(c.file) /\ Valued(c.penv) /\ \A r \in c.requests : WellMeant(r)

VARIABLES phase,     \* stopped, loaded, routed, ready, serving, or failed
          case,      \* the case at hand
          manifest,
          table,     \* the resolved routes
          launches,  \* what each service is started with
          request,   \* the last one
          answer     \* what came of it

suvars == <<phase, case, manifest, table, launches, request, answer>>

StartupInit ==
  /\ phase = "stopped"
  /\ \E i \in DOMAIN Families : case \in Families[i]
  /\ manifest = Rejected
  /\ table = Rejected
  /\ launches = Rejected
  /\ request = Missing
  /\ answer = Missing

\* load_manifest
Load ==
  /\ phase = "stopped"
  /\ manifest' = BuildManifest(case.file)
  /\ phase' = IF manifest' = Rejected THEN "failed" ELSE "loaded"
  /\ UNCHANGED <<case, table, launches, request, answer>>

\* RouteTable::from_manifest
Resolve ==
  /\ phase = "loaded"
  /\ table' = ResolveRoutes(manifest, case.penv)
  /\ phase' = IF table' = Rejected THEN "failed" ELSE "routed"
  /\ UNCHANGED <<case, manifest, launches, request, answer>>

\* vars_os hands over what is not Unicode too
ChildEnv(service, penv) ==
  [key \in (DOMAIN penv) \cup (DOMAIN service.env) |->
     IF key \in DOMAIN penv THEN penv[key] ELSE service.env[key]]

Launch(service, penv) ==
  LET lookup  == [key \in (DOMAIN penv) \cup (DOMAIN service.env) |->
                    ServiceValue(service, penv, key)]
      command == ResolveCommand(service.command, lookup)
  IN IF service.disabled \/ service.command = <<>> THEN NoLaunch
     ELSE IF command = Rejected THEN Rejected
     ELSE [command |-> command, env |-> ChildEnv(service, penv)]

\* ServiceManager::new
Prepare ==
  /\ phase = "routed"
  /\ launches' = [i \in DOMAIN manifest.services |-> Launch(manifest.services[i], case.penv)]
  /\ phase' = IF \E i \in DOMAIN launches' : launches'[i] = Rejected THEN "failed" ELSE "ready"
  /\ UNCHANGED <<case, manifest, table, request, answer>>

Serve ==
  /\ phase \in {"ready", "serving"}
  /\ \E r \in case.requests : request' = r /\ answer' = Answer(table, r)
  /\ phase' = "serving"
  /\ UNCHANGED <<case, manifest, table, launches>>

StartupNext == Load \/ Resolve \/ Prepare \/ Serve

StartupSpec == StartupInit /\ [][StartupNext]_suvars

-----------------------------------------------------------------------------
(* What must hold.                                                         *)

\* "Values are type-checked without coercion and unknown keys are rejected, so
\* an older or misspelled configuration shape fails loudly instead of being
\* silently reinterpreted" (config.rs:3): of an accepted file every key matters.
\* Without it the file is rejected or reads otherwise, unless it states a default.
Optional == {"disabled", "auto_start", "env", "routes", "target_host"}

Default(key) == CASE key = "disabled"    -> FALSE
                  [] key = "auto_start"  -> TRUE
                  [] key = "env"         -> <<>>
                  [] key = "routes"      -> <<>>
                  [] key = "target_host" -> "localhost"

Keys(raw) == {key \in DOMAIN raw : Has(raw, key)}
Without(raw, key) == [raw EXCEPT ![key] = Missing]

Matters(key, value, fileWithout) ==
  \/ BuildManifest(fileWithout) # manifest
  \/ key \in Optional /\ value = Default(key)

NothingIgnored ==
  phase = "loaded" =>
    LET file == case.file
        raw(i) == file.services[i][2]
    IN /\ \A key \in Keys(file) : Matters(key, file[key], Without(file, key))
       /\ \A i \in DOMAIN file.services : \A key \in Keys(raw(i)) :
            Matters(key, raw(i)[key], [file EXCEPT !.services[i][2] = Without(@, key)])
       /\ \A i \in DOMAIN file.services : \A j \in DOMAIN Get(raw(i), "routes", <<>>) :
            \A key \in Keys(raw(i).routes[j]) :
              Matters(key, raw(i).routes[j][key],
                      [file EXCEPT !.services[i][2].routes[j] = Without(@, key)])

\* "The child environment is built with the same precedence as route resolution"
\* (process.rs:309): a child finds in its environment the values that its
\* command was given, and listens where its routes lead.
SameValueEverywhere ==
  phase = "ready" =>
    \A i \in DOMAIN launches :
      launches[i] # NoLaunch =>
        LET service == manifest.services[i]
            child   == launches[i].env
        IN (\A key \in DOMAIN child : child[key] # NotUnicode) =>
             /\ launches[i].command = ResolveCommand(service.command, child)
             /\ \A n \in DOMAIN table :
                  LET d == Declared(manifest)[n]
                  IN d.service = service =>
                       table[n].target = Target([service EXCEPT !.env = child], d.route, <<>>)

\* Every argument is as it is written, each placeholder replaced by the value of
\* its variable wherever it stands, and nothing else touched: braces that are no
\* placeholder stay, and a value is put in as it is (resolve_command).
Holes(arg) ==
  {h \in (DOMAIN arg) \X (DOMAIN arg) :
     /\ h[1] < h[2] /\ arg[h[1]] = OpenBrace /\ arg[h[2]] = CloseBrace
     /\ IsPlaceholderName(SubSeq(arg, h[1] + 1, h[2] - 1))}

Filled(arg, service, penv) ==
  FlattenSeq([k \in DOMAIN arg |->
    IF \E h \in Holes(arg) : h[1] = k
    THEN LET h == CHOOSE h \in Holes(arg) : h[1] = k
             value == ServiceValue(service, penv, SubSeq(arg, k + 1, h[2] - 1))
         IN IF value = Missing THEN <<Missing>> ELSE value
    ELSE IF \E h \in Holes(arg) : h[1] < k /\ k <= h[2] THEN <<>> ELSE <<arg[k]>>])

ArgumentsAsWritten ==
  phase = "ready" =>
    \A i \in DOMAIN launches :
      launches[i] # NoLaunch =>
        launches[i].command =
          [k \in DOMAIN manifest.services[i].command |->
             Filled(manifest.services[i].command[k], manifest.services[i], case.penv)]

\* A request goes to the first route that names its host, in whatever case and
\* with whatever port, else to the first whose pattern matches; the portal keeps
\* localhost to itself, no two routes lead to one place, and those of a disabled
\* service lead nowhere (HostMatcher, resolve_routes, handle).
RouteAsDeclared ==
  phase = "serving" =>
    LET routes   == Declared(manifest)
        Names(n) == \E k \in DOMAIN routes[n].route.hosts :
                      /\ ~IsWildcardHost(routes[n].route.hosts[k])
                      /\ Lower(routes[n].route.hosts[k]) = Lower(request.meant)
        Fits(n)  == \E k \in DOMAIN routes[n].route.hosts :
                      /\ IsWildcardHost(routes[n].route.hosts[k])
                      /\ <<Lower(routes[n].route.hosts[k]), Lower(request.meant)>> \in Globbed
        named    == {n \in DOMAIN routes : Names(n)}
        fitting  == {n \in DOMAIN routes : Fits(n)}
    IN /\ answer = Portal <=> Lower(request.meant) = Localhost
       /\ answer = NotFound <=> answer # Portal /\ named \cup fitting = {}
       /\ answer \notin {Portal, NotFound} =>
            \E n \in IF named # {} THEN named ELSE fitting :
              /\ \A m \in IF named # {} THEN named ELSE fitting : n <= m
              /\ answer.target = Target(routes[n].service, routes[n].route, case.penv)
              /\ ~routes[n].service.disabled
       /\ \A n, m \in DOMAIN table :
            n # m => /\ table[n].target # table[m].target
                     /\ Has(table[n].target, "port") /\ Has(table[m].target, "port") =>
                          table[n].target.port # table[m].target.port

=============================================================================
